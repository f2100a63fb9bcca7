-------------------------- MODULE InboxCacheProofs --------------------------
(***************************************************************************)
(* The Inbox cache shows what it should, for any notifications, changes    *)
(* and bounds: its lists keep their order whatever is patched, placed,     *)
(* rolled back or fetched, and the counts come to be the server's.         *)
(***************************************************************************)
EXTENDS InboxCache, SelectionProofs

-----------------------------------------------------------------------------
(* The lists of a place: each notification once, all but the archive newest first. *)

Before(q, a, b) == IF q = "archived" THEN a.id # b.id ELSE a.id > b.id
Ordered(q, l) == \A i, j \in DOMAIN l : i < j => Before(q, l[i], l[j])
Lists(q) == {l \in Seq(Copy) : Ordered(q, l)}
Caches == {ca \in [Places -> Seq(Copy)] : \A q \in Places : ca[q] \in Lists(q)}

\* A notification is a number.
LEMMA CopiesAre ==
    ASSUME NEW c \in Copy
    PROVE  c.id \in Notes /\ c.id \in Nat /\ c.id # 0 /\ c.read \in BOOLEAN /\ c.arch \in Nat
  BY NotesAssumption DEF Copy

\* Filtered, a list is a list, of what was asked for.
LEMMA FilteredIsList ==
    ASSUME NEW q, NEW l \in Lists(q), NEW set
    PROVE  Those(l, set) \in Lists(q) /\ ToSet(Those(l, set)) = ToSet(l) \cap set
  <1>1. l \in Seq(Copy) /\ Ordered(q, l)
    BY DEF Lists
  <1>2. Those(l, set) \in Seq(Copy \cap set) /\ ToSet(Those(l, set)) = ToSet(l) \cap set
    BY <1>1, ThoseAreTheOnes
  <1>3. Those(l, set) \in Seq(Copy)
    BY <1>2
  <1>4. Ordered(q, Those(l, set))
    BY <1>1, ThoseKeepOrder DEF Ordered
  <1> QED
    BY <1>2, <1>3, <1>4 DEF Lists

\* Copies may change as long as they stay copies of the same notification.
LEMMA RewrittenIsList ==
    ASSUME NEW q, NEW l \in Lists(q), NEW m \in [DOMAIN l -> Copy],
           \A i \in DOMAIN l : m[i].id = l[i].id
    PROVE  m \in Lists(q)
  <1>1. l \in Seq(Copy) /\ Ordered(q, l)
    BY DEF Lists
  <1>2. m \in Seq(Copy) /\ DOMAIN m = DOMAIN l
    <2>1. DOMAIN l = 1..Len(l) /\ Len(l) \in Nat
      BY <1>1
    <2> QED
      BY <2>1, SeqDef
  <1>3. Ordered(q, m)
    BY <1>1, <1>2 DEF Ordered, Before
  <1> QED
    BY <1>2, <1>3 DEF Lists

\* What is inserted stands in its place, the rest one place on.
LEMMA InsertedAt ==
    ASSUME NEW S, NEW s \in Seq(S), NEW e \in S, NEW m \in 1..Len(s)
    PROVE  /\ InsertAt(s, m, e) \in Seq(S)
           /\ DOMAIN InsertAt(s, m, e) = 1..(Len(s) + 1)
           /\ \A i \in 1..(Len(s) + 1) :
                InsertAt(s, m, e)[i] = IF i < m THEN s[i] ELSE IF i = m THEN e ELSE s[i - 1]
  <1> DEFINE first == SubSeq(s, 1, m - 1)
             rest == SubSeq(s, m, Len(s))
  <1>1. first \in Seq(S) /\ Len(first) = m - 1 /\ \A i \in 1..(m - 1) : first[i] = s[i]
    OBVIOUS
  <1>2. rest \in Seq(S) /\ Len(rest) = Len(s) - m + 1 /\ \A i \in 1..(Len(s) - m + 1) : rest[i] = s[m + i - 1]
    OBVIOUS
  <1>3. InsertAt(s, m, e) = first \o <<e>> \o rest
    BY DEF InsertAt
  <1> HIDE DEF first, rest
  <1>4. /\ first \o <<e>> \in Seq(S) /\ Len(first \o <<e>>) = m
        /\ \A i \in 1..(m - 1) : (first \o <<e>>)[i] = s[i]
        /\ (first \o <<e>>)[m] = e
    BY <1>1
  <1> DEFINE head == first \o <<e>>
  <1> HIDE DEF head
  <1>5. /\ head \o rest \in Seq(S) /\ Len(head \o rest) = Len(s) + 1
        /\ \A i \in 1..m : (head \o rest)[i] = head[i]
        /\ \A i \in (m + 1)..(Len(s) + 1) : (head \o rest)[i] = rest[i - m]
    <2>1. head \in Seq(S) /\ Len(head) = m /\ rest \in Seq(S) /\ Len(rest) = Len(s) - m + 1
      BY <1>2, <1>4 DEF head
    <2>2. /\ head \o rest \in Seq(S) /\ Len(head \o rest) = Len(head) + Len(rest)
          /\ \A i \in 1..(Len(head) + Len(rest)) :
                (head \o rest)[i] = IF i <= Len(head) THEN head[i] ELSE rest[i - Len(head)]
      BY <2>1, ConcatProperties
    <2>3. Len(head) + Len(rest) = Len(s) + 1 /\ m \in Nat /\ Len(s) \in Nat
      BY <2>1
    <2> DEFINE joined == head \o rest
    <2>4. \A i \in 1..(Len(s) + 1) : joined[i] = IF i <= m THEN head[i] ELSE rest[i - m]
      BY <2>1, <2>2, <2>3
    <2>5. joined \in Seq(S) /\ Len(joined) = Len(s) + 1
      BY <2>2, <2>3
    <2> HIDE DEF joined
    <2>6. \A i \in 1..m : joined[i] = head[i]
      BY <2>3, <2>4
    <2>7. \A i \in (m + 1)..(Len(s) + 1) : joined[i] = rest[i - m]
      BY <2>3, <2>4
    <2> QED
      BY <2>5, <2>6, <2>7 DEF joined
  <1>6. \A i \in (m + 1)..(Len(s) + 1) : rest[i - m] = s[i - 1]
    BY <1>2
  <1>7. \A i \in 1..(m - 1) : head[i] = s[i]
    BY <1>4 DEF head
  <1>8. head[m] = e
    BY <1>4 DEF head
  <1>9. InsertAt(s, m, e) = head \o rest
    BY <1>3 DEF head
  <1> DEFINE new == head \o rest
  <1>10. ASSUME NEW i \in 1..(Len(s) + 1)
         PROVE  new[i] = IF i < m THEN s[i] ELSE IF i = m THEN e ELSE s[i - 1]
    <2>1. CASE i < m
      BY <1>5, <1>7, <2>1
    <2>2. CASE i = m
      BY <1>5, <1>8, <2>2
    <2>3. CASE m < i
      BY <1>5, <1>6, <2>3
    <2>4. i < m \/ i = m \/ m < i
      <3>1. m \in Nat /\ i \in Nat
        OBVIOUS
      <3> QED
        BY <3>1
    <2> QED
      BY <2>1, <2>2, <2>3, <2>4
  <1>11. new \in Seq(S) /\ DOMAIN new = 1..(Len(s) + 1)
    BY <1>5
  <1> HIDE DEF new
  <1> QED
    BY <1>9, <1>10, <1>11 DEF new

\* What stands before what once a copy is put in a list: the others as they stood, and it behind what
\* it does not come before, before the first it comes before and all behind that one.
Stands(v, c, rest, new) ==
    \A i, j \in DOMAIN new : i < j =>
        \/ \E k, h \in DOMAIN rest : k < h /\ new[i] = rest[k] /\ new[j] = rest[h]
        \/ /\ new[j] = c
           /\ \E k \in DOMAIN rest : new[i] = rest[k] /\ ~comesBefore(v, c, rest[k])
        \/ /\ new[i] = c
           /\ \E k, h \in DOMAIN rest : k <= h /\ new[j] = rest[h] /\ comesBefore(v, c, rest[k])

\* Where a copy is put (place).
LEMMA PlacedWhere ==
    ASSUME NEW v, NEW l \in Lists(v), NEW c \in Copy
    PROVE  \E rest \in Lists(v) :
             /\ Range(rest) = {x \in Range(l) : x.id # c.id}
             /\ \A x, y \in DOMAIN rest : x < y =>
                    \E i, j \in DOMAIN l : i < j /\ l[i] = rest[x] /\ l[j] = rest[y]
             /\ place(v, l, c) \in Seq(Copy)
             /\ Range(place(v, l, c)) = Range(rest) \cup (IF belongsTo(v, c) THEN {c} ELSE {})
             /\ Stands(v, c, rest, place(v, l, c))
  <1> DEFINE rest == Those(l, Others(c.id))
             new == place(v, l, c)
             after == {i \in DOMAIN rest : comesBefore(v, c, rest[i])}
  <1>1. /\ rest \in Lists(v) /\ rest \in Seq(Copy)
        /\ DOMAIN rest = 1..Len(rest) /\ Len(rest) \in Nat
        /\ Range(rest) = {x \in Range(l) : x.id # c.id}
        /\ \A x, y \in DOMAIN rest : x < y =>
               \E i, j \in DOMAIN l : i < j /\ l[i] = rest[x] /\ l[j] = rest[y]
    <2>1. rest \in Lists(v) /\ ToSet(rest) = ToSet(l) \cap Others(c.id)
      BY FilteredIsList
    <2>2. rest \in Seq(Copy) /\ l \in Seq(Copy)
      BY <2>1 DEF Lists
    <2>3. ToSet(l) \subseteq Copy
      BY <2>2, PlacesAreElements
    <2>4. Range(rest) = {x \in Range(l) : x.id # c.id}
      BY <2>1, <2>3 DEF ToSet, Range, Others
    <2>5. \A x, y \in DOMAIN rest : x < y =>
             \E i, j \in DOMAIN l : i < j /\ l[i] = rest[x] /\ l[j] = rest[y]
      BY <2>2, ThoseKeepOrder
    <2> HIDE DEF rest
    <2> QED
      BY <2>1, <2>2, <2>4, <2>5
  <1>2. new = IF ~belongsTo(v, c) THEN rest
              ELSE IF after = {} THEN Append(rest, c) ELSE InsertAt(rest, Min(after), c)
    BY DEF place
  <1> HIDE DEF rest, new
  <1>3. ASSUME ~belongsTo(v, c)
        PROVE  new \in Seq(Copy) /\ Range(new) = Range(rest) /\ Stands(v, c, rest, new)
    BY <1>1, <1>2, <1>3 DEF Stands
  <1>4. ASSUME belongsTo(v, c), after = {}
        PROVE  new \in Seq(Copy) /\ Range(new) = Range(rest) \cup {c} /\ Stands(v, c, rest, new)
    <2>1. /\ new \in Seq(Copy) /\ DOMAIN new = 1..(Len(rest) + 1)
          /\ \A i \in 1..Len(rest) : new[i] = rest[i]
          /\ new[Len(rest) + 1] = c
      BY <1>1, <1>2, <1>4, AppendProperties
    <2>2. \A i \in DOMAIN new : i \in 1..Len(rest) \/ i = Len(rest) + 1
      BY <1>1, <2>1
    <2>3. ASSUME NEW i \in DOMAIN new, NEW j \in DOMAIN new, i < j
          PROVE  \/ \E k, h \in DOMAIN rest : k < h /\ new[i] = rest[k] /\ new[j] = rest[h]
                 \/ new[j] = c /\ \E k \in DOMAIN rest : new[i] = rest[k] /\ ~comesBefore(v, c, rest[k])
      <3>1. i \in 1..Len(rest)
        BY <1>1, <2>1, <2>3
      <3> QED
        BY <1>1, <1>4, <2>1, <2>2, <2>3, <3>1
    <2>4. Range(new) = Range(rest) \cup {c}
      <3>1. Len(rest) + 1 \in DOMAIN new /\ \A i \in 1..Len(rest) : i \in DOMAIN new
        BY <1>1, <2>1
      <3> QED
        BY <1>1, <2>1, <2>2, <3>1 DEF Range
    <2> QED
      BY <2>1, <2>3, <2>4 DEF Stands
  <1>5. ASSUME belongsTo(v, c), after # {}
        PROVE  new \in Seq(Copy) /\ Range(new) = Range(rest) \cup {c} /\ Stands(v, c, rest, new)
    <2> DEFINE m == Min(after)
    <2>1. m \in after /\ \A i \in after : m <= i
      <3>1. after \in SUBSET Nat /\ IsFiniteSet(after)
        <4>1. after \in SUBSET (1..Len(rest)) /\ IsFiniteSet(1..Len(rest))
          <5>1. after \in SUBSET DOMAIN rest
            OBVIOUS
          <5>2. Len(rest) \in Int /\ 1 \in Int
            BY <1>1
          <5>3. IsFiniteSet(1..Len(rest))
            BY <5>2, FS_Interval
          <5> HIDE DEF after
          <5> QED
            BY <1>1, <5>1, <5>3
        <4>2. 1..Len(rest) \in SUBSET Nat
          OBVIOUS
        <4> HIDE DEF after
        <4> QED
          BY <4>1, <4>2, FS_Subset
      <3>2. \E least \in after : \A i \in after : least <= i
        <4> HIDE DEF after
        <4> QED
          BY <3>1, <1>5, LeastAndGreatest
      <3> HIDE DEF after
      <3> QED
        BY <3>2 DEF Min
    <2>2. m \in 1..Len(rest) /\ m \in Nat /\ comesBefore(v, c, rest[m])
      BY <2>1, <1>1
    <2>3. ASSUME NEW i \in 1..Len(rest), i < m
          PROVE  ~comesBefore(v, c, rest[i])
      <3>1. ~(m <= i)
        BY <1>1, <2>2, <2>3
      <3>2. i \notin after
        BY <2>1, <3>1
      <3> QED
        BY <1>1, <3>2
    <2>4. new = InsertAt(rest, m, c)
      BY <1>2, <1>5
    <2> HIDE DEF m
    <2> HIDE DEF after
    <2>5. /\ new \in Seq(Copy) /\ DOMAIN new = 1..(Len(rest) + 1)
          /\ \A i \in 1..(Len(rest) + 1) :
               new[i] = IF i < m THEN rest[i] ELSE IF i = m THEN c ELSE rest[i - 1]
      <3> DEFINE put == InsertAt(rest, m, c)
      <3>1. rest \in Seq(Copy) /\ c \in Copy /\ m \in 1..Len(rest)
        BY <1>1, <2>2
      <3>2. /\ put \in Seq(Copy) /\ DOMAIN put = 1..(Len(rest) + 1)
            /\ \A i \in 1..(Len(rest) + 1) :
                 put[i] = IF i < m THEN rest[i] ELSE IF i = m THEN c ELSE rest[i - 1]
        BY <3>1, InsertedAt
      <3> HIDE DEF put
      <3>3. new = put
        BY <2>4 DEF put
      <3> QED
        BY <3>2, <3>3
    <2>6. ASSUME NEW i \in 1..(Len(rest) + 1)
          PROVE  \/ i < m /\ i \in DOMAIN rest /\ new[i] = rest[i]
                 \/ i = m /\ new[i] = c
                 \/ m < i /\ i - 1 \in DOMAIN rest /\ new[i] = rest[i - 1]
      <3>1. i < m \/ i = m \/ (m < i /\ ~(i < m) /\ i # m)
        BY <2>2
      <3>2. (i < m => i \in DOMAIN rest) /\ (m < i => i - 1 \in DOMAIN rest)
        BY <1>1, <2>2
      <3> QED
        BY <2>5, <3>1, <3>2
    <2>7. ASSUME NEW i \in DOMAIN new, NEW j \in DOMAIN new, i < j
          PROVE  \/ \E k, h \in DOMAIN rest : k < h /\ new[i] = rest[k] /\ new[j] = rest[h]
                 \/ /\ new[j] = c
                    /\ \E k \in DOMAIN rest : new[i] = rest[k] /\ ~comesBefore(v, c, rest[k])
                 \/ /\ new[i] = c
                    /\ \E k, h \in DOMAIN rest :
                          k <= h /\ new[j] = rest[h] /\ comesBefore(v, c, rest[k])
      <3>0. i \in 1..(Len(rest) + 1) /\ j \in 1..(Len(rest) + 1) /\ i \in Nat /\ j \in Nat
        BY <1>1, <2>5
      <3>1. CASE j < m
        <4>1. i < m /\ ~(j = m) /\ ~(m < j) /\ ~(i = m) /\ ~(m < i)
          BY <2>2, <2>7, <3>0, <3>1
        <4>2. /\ i \in DOMAIN rest /\ new[i] = rest[i]
              /\ j \in DOMAIN rest /\ new[j] = rest[j]
          BY <2>6, <3>0, <4>1
        <4> QED
          BY <2>7, <4>2
      <3>2. CASE j = m
        <4>1. i < m /\ ~(j < m) /\ ~(m < j) /\ ~(i = m) /\ ~(m < i)
          BY <2>2, <2>7, <3>0, <3>2
        <4>2. i \in DOMAIN rest /\ new[i] = rest[i] /\ new[j] = c
          BY <2>6, <3>0, <4>1
        <4> QED
          BY <1>1, <2>3, <4>1, <4>2
      <3>3. CASE m < j /\ i < m
        <4>1. i < j - 1 /\ ~(j < m) /\ ~(j = m) /\ ~(i = m) /\ ~(m < i)
          BY <2>2, <3>0, <3>3
        <4>2. /\ i \in DOMAIN rest /\ new[i] = rest[i]
              /\ j - 1 \in DOMAIN rest /\ new[j] = rest[j - 1]
          BY <2>6, <3>0, <4>1
        <4> QED
          BY <4>1, <4>2
      <3>4. CASE m < j /\ i = m
        <4>1. m <= j - 1 /\ ~(j < m) /\ ~(j = m) /\ ~(i < m) /\ ~(m < i)
          BY <2>2, <3>0, <3>4
        <4>2. new[i] = c /\ j - 1 \in DOMAIN rest /\ new[j] = rest[j - 1]
          BY <2>6, <3>0, <4>1
        <4> QED
          BY <1>1, <2>2, <4>1, <4>2
      <3>5. CASE m < j /\ m < i
        <4>1. i - 1 < j - 1 /\ ~(j < m) /\ ~(j = m) /\ ~(i < m) /\ ~(i = m)
          BY <2>2, <2>7, <3>0, <3>5
        <4>2. /\ i - 1 \in DOMAIN rest /\ new[i] = rest[i - 1]
              /\ j - 1 \in DOMAIN rest /\ new[j] = rest[j - 1]
          BY <2>6, <3>0, <4>1
        <4> QED
          BY <4>1, <4>2
      <3>6. j < m \/ j = m \/ (m < j /\ i < m) \/ (m < j /\ i = m) \/ (m < j /\ m < i)
        BY <2>2, <3>0
      <3> QED
        BY <3>1, <3>2, <3>3, <3>4, <3>5, <3>6
    <2>8. Range(new) = Range(rest) \cup {c}
      <3>1. \A x \in Range(new) : x \in Range(rest) \cup {c}
        BY <2>5, <2>6 DEF Range
      <3>2. c \in Range(new)
        <4>1. m \in 1..(Len(rest) + 1) /\ ~(m < m)
          BY <1>1, <2>2
        <4> QED
          BY <2>5, <4>1 DEF Range
      <3>3. ASSUME NEW k \in DOMAIN rest
            PROVE  rest[k] \in Range(new)
        <4>1. CASE k < m
          <5>1. k \in 1..(Len(rest) + 1)
            BY <1>1
          <5> QED
            BY <2>5, <4>1, <5>1 DEF Range
        <4>2. CASE m <= k
          <5>1. k + 1 \in 1..(Len(rest) + 1) /\ ~(k + 1 < m) /\ k + 1 # m /\ (k + 1) - 1 = k
            BY <1>1, <2>2, <4>2
          <5>2. new[k + 1] = rest[k]
            BY <2>5, <5>1
          <5> QED
            BY <2>5, <5>1, <5>2 DEF Range
        <4>3. k < m \/ m <= k
          BY <1>1, <2>2
        <4> QED
          BY <4>1, <4>2, <4>3
      <3> QED
        BY <3>1, <3>2, <3>3 DEF Range
    <2> QED
      BY <2>5, <2>7, <2>8 DEF Stands
  <1>6. /\ new \in Seq(Copy) /\ Stands(v, c, rest, new)
        /\ Range(new) = Range(rest) \cup (IF belongsTo(v, c) THEN {c} ELSE {})
    BY <1>3, <1>4, <1>5
  <1>7. /\ place(v, l, c) \in Seq(Copy) /\ Stands(v, c, rest, place(v, l, c))
        /\ Range(place(v, l, c)) = Range(rest) \cup (IF belongsTo(v, c) THEN {c} ELSE {})
    BY <1>6 DEF new
  <1> QED
    BY <1>1, <1>7

\* No copy comes before itself, of two notifications one comes first, and one after another is after
\* what that is after (comesBefore).
LEMMA OneComesFirst ==
    ASSUME NEW v, NEW a \in Copy, NEW b \in Copy
    PROVE  /\ ~comesBefore(v, a, a)
           /\ a.id # b.id => comesBefore(v, a, b) \/ comesBefore(v, b, a)
           /\ \A c \in Copy : comesBefore(v, a, b) /\ comesBefore(v, b, c) => comesBefore(v, a, c)
           /\ v # "archived" => (comesBefore(v, a, b) <=> a.id > b.id)
  <1>1. \A c \in Copy : sortDateOf(v, c) \in Nat /\ c.id \in Nat
    BY CopiesAre DEF sortDateOf
  <1>2. v # "archived" => sortDateOf(v, a) = a.id /\ sortDateOf(v, b) = b.id
    BY DEF sortDateOf
  <1>3. ASSUME NEW c \in Copy, comesBefore(v, a, b), comesBefore(v, b, c)
        PROVE  comesBefore(v, a, c)
    BY <1>1, <1>3 DEF comesBefore
  <1>4. /\ ~comesBefore(v, a, a)
        /\ a.id # b.id => comesBefore(v, a, b) \/ comesBefore(v, b, a)
    BY <1>1 DEF comesBefore
  <1>5. v # "archived" => (comesBefore(v, a, b) <=> a.id > b.id)
    BY <1>1, <1>2 DEF comesBefore
  <1> QED
    BY <1>3, <1>4, <1>5

\* Put where it belongs, a copy leaves a list a list (place).
LEMMA PlacedIsList ==
    ASSUME NEW v, NEW l \in Lists(v), NEW c \in Copy
    PROVE  place(v, l, c) \in Lists(v)
  <1> DEFINE new == place(v, l, c)
  <1>1. PICK rest \in Lists(v) :
             /\ Range(rest) = {x \in Range(l) : x.id # c.id}
             /\ new \in Seq(Copy) /\ Stands(v, c, rest, new)
    BY PlacedWhere
  <1> HIDE DEF new
  <1>2. rest \in Seq(Copy) /\ Ordered(v, rest)
    BY <1>1 DEF Lists
  <1>3. \A k \in DOMAIN rest : k \in Nat /\ rest[k] \in Copy /\ rest[k].id # c.id
    <2>1. \A k \in DOMAIN rest : k \in Nat /\ rest[k] \in Copy
      BY <1>2
    <2> QED
      BY <1>1, <2>1 DEF Range
  <1>4. ASSUME NEW i \in DOMAIN new, NEW j \in DOMAIN new, i < j
        PROVE  Before(v, new[i], new[j])
    <2>1. CASE \E k, h \in DOMAIN rest : k < h /\ new[i] = rest[k] /\ new[j] = rest[h]
      BY <1>2, <2>1 DEF Ordered
    <2>2. CASE new[j] = c /\ \E k \in DOMAIN rest : new[i] = rest[k] /\ ~comesBefore(v, c, rest[k])
      <3>1. PICK k \in DOMAIN rest : new[i] = rest[k] /\ ~comesBefore(v, c, rest[k])
        BY <2>2
      <3>2. v # "archived" => rest[k].id > c.id
        BY <1>3, <3>1, OneComesFirst
      <3> QED
        BY <1>3, <2>2, <3>1, <3>2 DEF Before
    <2>3. CASE /\ new[i] = c
               /\ \E k, h \in DOMAIN rest : k <= h /\ new[j] = rest[h] /\ comesBefore(v, c, rest[k])
      <3>1. PICK k \in DOMAIN rest, h \in DOMAIN rest :
                    k <= h /\ new[j] = rest[h] /\ comesBefore(v, c, rest[k])
        BY <2>3
      <3>2. rest[k].id \in Nat /\ rest[h].id \in Nat /\ c.id \in Nat
        BY <1>3, CopiesAre
      <3>3. ASSUME v # "archived"
            PROVE  c.id > rest[h].id
        <4>1. c.id > rest[k].id
          BY <1>3, <3>1, <3>3, OneComesFirst
        <4>2. k = h \/ k < h
          BY <1>3, <3>1
        <4>3. k < h => rest[k].id > rest[h].id
          BY <1>2, <3>3 DEF Ordered, Before
        <4> QED
          BY <3>2, <4>1, <4>2, <4>3
      <3> QED
        BY <1>3, <2>3, <3>1, <3>3 DEF Before
    <2> QED
      BY <1>1, <1>4, <2>1, <2>2, <2>3 DEF Stands
  <1> QED
    BY <1>1, <1>4 DEF Lists, Ordered, new

\* Sorted, copies of different notifications are a list, of them all.
LEMMA SortedIsList ==
    ASSUME NEW q, NEW some \in SUBSET Copy, IsFiniteSet(some),
           \A a, b \in some : a.id = b.id => a = b
    PROVE  Sorted(q, some) \in Lists(q) /\ Range(Sorted(q, some)) = some
  <1> DEFINE n == Cardinality(some)
             ahead(c) == {d \in some : comesBefore(q, d, c)}
             place1 == [c \in some |-> Cardinality(ahead(c)) + 1]
             nth(k) == CHOOSE c \in some : Cardinality({d \in some : comesBefore(q, d, c)}) = k - 1
  <1>1. n \in Nat
    BY FS_CardinalityType
  <1>2. ASSUME NEW c \in some
        PROVE  IsFiniteSet(ahead(c)) /\ Cardinality(ahead(c)) \in Nat /\ Cardinality(ahead(c)) + 1 \in 1..n
    <2>1. ahead(c) \in SUBSET some /\ c \notin ahead(c) /\ c \in some
      BY OneComesFirst
    <2>2. IsFiniteSet(ahead(c)) /\ Cardinality(ahead(c)) < n /\ Cardinality(ahead(c)) \in Nat
      BY <2>1, FS_Subset, FS_CardinalityType
    <2> QED
      BY <2>2, <1>1
  <1>3. ASSUME NEW c \in some, NEW d \in some, comesBefore(q, c, d)
        PROVE  Cardinality(ahead(c)) < Cardinality(ahead(d))
    <2>1. ahead(c) \in SUBSET ahead(d)
      BY <1>3, OneComesFirst
    <2>2. c \in ahead(d) /\ c \notin ahead(c)
      BY <1>3, OneComesFirst
    <2>3. /\ IsFiniteSet(ahead(d)) /\ Cardinality(ahead(c)) \in Nat /\ Cardinality(ahead(d)) \in Nat
      BY <1>2
    <2>4. ahead(c) # ahead(d)
      BY <2>2
    <2> HIDE DEF ahead
    <2>5. Cardinality(ahead(c)) <= Cardinality(ahead(d)) /\ Cardinality(ahead(c)) # Cardinality(ahead(d))
      BY <2>1, <2>3, <2>4, FS_Subset
    <2> QED
      BY <2>3, <2>5
  <1>4. place1 \in Injection(some, 1..n)
    <2>1. place1 \in [some -> 1..n]
      BY <1>2
    <2>2. ASSUME NEW c \in some, NEW d \in some, place1[c] = place1[d]
          PROVE  c = d
      <3>1. Cardinality(ahead(c)) + 1 = Cardinality(ahead(d)) + 1
        BY <2>2
      <3>2. Cardinality(ahead(c)) \in Nat /\ Cardinality(ahead(d)) \in Nat
        BY <1>2
      <3>3. ~(Cardinality(ahead(c)) < Cardinality(ahead(d))) /\ ~(Cardinality(ahead(d)) < Cardinality(ahead(c)))
        <4> HIDE DEF ahead
        <4> QED
          BY <3>1, <3>2
      <3>4. ~comesBefore(q, c, d) /\ ~comesBefore(q, d, c)
        BY <1>3, <3>3
      <3> QED
        BY <3>4, OneComesFirst
    <2> HIDE DEF place1
    <2> QED
      BY <2>1, <2>2 DEF Injection, IsInjective
  <1>5. place1 \in Surjection(some, 1..n)
    <2>1. IsFiniteSet(1..n) /\ Cardinality(1..n) = n
      BY <1>1, FS_Interval
    <2> HIDE DEF place1
    <2> QED
      BY <1>4, <2>1, FS_Injection
  <1>6. ASSUME NEW k \in 1..n
        PROVE  \E c \in some : Cardinality({d \in some : comesBefore(q, d, c)}) = k - 1
    <2>1. \E c \in some : place1[c] = k
      <3> HIDE DEF place1
      <3> QED
        BY <1>5 DEF Surjection
    <2>2. PICK c \in some : place1[c] = k
      BY <2>1
    <2>3. Cardinality(ahead(c)) + 1 = k /\ Cardinality(ahead(c)) \in Nat
      BY <2>2, <1>2
    <2>4. Cardinality(ahead(c)) = k - 1
      <3> HIDE DEF ahead
      <3> QED
        BY <2>3
    <2> QED
      BY <2>4
  <1>7. ASSUME NEW k \in 1..n
        PROVE  nth(k) \in some /\ Cardinality(ahead(nth(k))) = k - 1
    BY <1>6, <1>7
  <1>8. Sorted(q, some) = [k \in 1..n |-> nth(k)]
    BY DEF Sorted
  <1> HIDE DEF nth
  <1>9. [k \in 1..n |-> nth(k)] \in Seq(Copy)
    <2>1. [k \in 1..n |-> nth(k)] \in [1..n -> Copy]
      BY <1>7
    <2> QED
      BY <2>1, <1>1, SeqDef
  <1>10. ASSUME NEW k \in 1..n, NEW l \in 1..n, k < l
         PROVE  Before(q, nth(k), nth(l))
    <2>1. nth(k) \in some /\ nth(l) \in some
      BY <1>7
    <2>2. nth(k) # nth(l) /\ ~comesBefore(q, nth(l), nth(k))
      <3>1. Cardinality(ahead(nth(k))) = k - 1 /\ Cardinality(ahead(nth(l))) = l - 1
        BY <1>7
      <3>2. k - 1 < l - 1 /\ k - 1 # l - 1 /\ ~(l - 1 < k - 1)
        BY <1>10
      <3>3. comesBefore(q, nth(l), nth(k)) => Cardinality(ahead(nth(l))) < Cardinality(ahead(nth(k)))
        BY <1>3, <2>1
      <3> HIDE DEF ahead
      <3> QED
        BY <3>1, <3>2, <3>3
    <2>3. nth(k).id # nth(l).id
      BY <2>1, <2>2
    <2> QED
      BY <2>1, <2>2, <2>3, OneComesFirst DEF Before
  <1>11. ASSUME NEW c \in some
         PROVE  \E k \in 1..n : nth(k) = c
    <2> DEFINE k == Cardinality(ahead(c)) + 1
    <2>1. k \in 1..n /\ place1[c] = k
      BY <1>2
    <2>2. nth(k) \in some /\ Cardinality(ahead(nth(k))) = k - 1
      BY <1>7, <2>1
    <2>3. place1[nth(k)] = (k - 1) + 1
      BY <2>2
    <2> HIDE DEF place1, k
    <2>4. place1[nth(k)] = place1[c]
      BY <2>1, <2>3
    <2>5. nth(k) = c
      BY <1>4, <2>2, <2>4 DEF Injection, IsInjective
    <2> QED
      BY <2>1, <2>5
  <1>12. Range([k \in 1..n |-> nth(k)]) = some
    BY <1>7, <1>11 DEF Range
  <1> QED
    BY <1>8, <1>9, <1>10, <1>12 DEF Lists, Ordered

\* What a list holds, copies of different notifications, finitely many.
LEMMA ElementsOfList ==
    ASSUME NEW q, NEW l \in Lists(q)
    PROVE  /\ l \in Seq(Copy)
           /\ ToSet(l) \in SUBSET Copy /\ IsFiniteSet(ToSet(l))
           /\ \A a, b \in ToSet(l) : a.id = b.id => a = b
           /\ ToSet(l) = Range(l)
  <1>1. l \in Seq(Copy) /\ Ordered(q, l)
    BY DEF Lists
  <1>2. ToSet(l) \subseteq Copy /\ IsFiniteSet(ToSet(l))
    BY <1>1, PlacesAreElements
  <1>3. ASSUME NEW i \in DOMAIN l, NEW j \in DOMAIN l, l[i].id = l[j].id
        PROVE  l[i] = l[j]
    <2>1. i \in Nat /\ j \in Nat /\ l[i] \in Copy /\ l[j] \in Copy
      BY <1>1
    <2>2. ~(i < j) /\ ~(j < i)
      BY <1>1, <1>3, <2>1, CopiesAre DEF Ordered, Before
    <2>3. i = j
      BY <2>1, <2>2
    <2> QED
      BY <2>3
  <1> QED
    BY <1>1, <1>2, <1>3 DEF ToSet, Range

\* Whether a copy is one of a place's.
InPlace(q, c) == IF q \in Groups THEN c.id \in Account /\ isUnread(c) ELSE belongsTo(q, c)

\* The pinned group stays a list when one is put there or taken away, and has it if it is pinned.
LEMMA PinnedIsList ==
    ASSUME NEW q \in Groups, NEW l \in Lists(q), NEW c \in Copy
    PROVE  /\ placeInPinned(q, l, c) \in Lists(q)
           /\ Range(placeInPinned(q, l, c)) =
                 {x \in Range(l) : x.id # c.id} \cup (IF InPlace(q, c) THEN {c} ELSE {})
  <1> DEFINE rest == Those(l, Others(c.id))
             some == {c} \cup Range(rest)
  <1>1. rest \in Lists(q) /\ ToSet(rest) = ToSet(l) \cap Others(c.id)
    BY FilteredIsList
  <1>2. placeInPinned(q, l, c) = IF c.id \in Account /\ isUnread(c) THEN Sorted(q, some) ELSE rest
    BY DEF placeInPinned
  <1> HIDE DEF rest
  <1>3. /\ Range(rest) \in SUBSET Copy /\ IsFiniteSet(Range(rest))
        /\ \A a, b \in Range(rest) : a.id = b.id => a = b
        /\ Range(rest) = {x \in Range(l) : x.id # c.id}
    <2>1. /\ ToSet(rest) \in SUBSET Copy /\ IsFiniteSet(ToSet(rest)) /\ ToSet(rest) = Range(rest)
          /\ \A a, b \in ToSet(rest) : a.id = b.id => a = b
      BY <1>1, ElementsOfList
    <2>2. ToSet(l) \in SUBSET Copy /\ ToSet(l) = Range(l)
      BY ElementsOfList
    <2>3. Range(rest) = Range(l) \cap Others(c.id)
      BY <1>1, <2>1, <2>2
    <2>4. Range(rest) = {x \in Range(l) : x.id # c.id}
      BY <2>2, <2>3 DEF Others
    <2> QED
      BY <2>1, <2>4
  <1>4. some \in SUBSET Copy /\ IsFiniteSet(some) /\ \A a, b \in some : a.id = b.id => a = b
    <2>1. some \in SUBSET Copy
      BY <1>3
    <2> DEFINE others == Range(rest)
    <2>2. IsFiniteSet(others \cup {c})
      <3>1. IsFiniteSet(others)
        BY <1>3
      <3> HIDE DEF others
      <3> QED
        BY <3>1, FS_AddElement
    <2>3. some = others \cup {c} /\ \A a \in others : a.id # c.id
      BY <1>3
    <2>4. \A a, b \in others : a.id = b.id => a = b
      BY <1>3
    <2> HIDE DEF others, some
    <2>5. \A a, b \in some : a.id = b.id => a = b
      BY <2>3, <2>4
    <2> QED
      BY <2>1, <2>2, <2>3, <2>5
  <1>5. Sorted(q, some) \in Lists(q) /\ Range(Sorted(q, some)) = some
    <2> HIDE DEF some
    <2> QED
      BY <1>4, SortedIsList
  <1> QED
    BY <1>1, <1>2, <1>3, <1>5 DEF InPlace

\* Put where it belongs, a copy leaves a list a list; it takes the place of the notification's others,
\* if it is one of the place's (placeIn).
LEMMA PutIsList ==
    ASSUME NEW q \in Places, NEW l \in Lists(q), NEW c \in Copy
    PROVE  /\ placeIn(q, l, c) \in Lists(q)
           /\ Range(placeIn(q, l, c)) =
                 {x \in Range(l) : x.id # c.id} \cup (IF InPlace(q, c) THEN {c} ELSE {})
  <1>1. CASE q \in Groups
    BY <1>1, PinnedIsList DEF placeIn
  <1>2. CASE q \notin Groups
    <2> DEFINE new == place(q, l, c)
    <2>1. new \in Lists(q)
      BY PlacedIsList
    <2>2. PICK rest \in Lists(q) : /\ Range(rest) = {x \in Range(l) : x.id # c.id}
                                   /\ Range(new) = Range(rest) \cup (IF belongsTo(q, c) THEN {c} ELSE {})
      BY PlacedWhere
    <2>3. placeIn(q, l, c) = new
      BY <1>2 DEF placeIn
    <2> HIDE DEF new
    <2> QED
      BY <1>2, <2>1, <2>2, <2>3 DEF InPlace
  <1> QED
    BY <1>1, <1>2

\* The archive stays in the order of its dates (place).
InDates(l) == \A i, j \in DOMAIN l : i < j => comesBefore("archived", l[i], l[j])
LEMMA PutByDate ==
    ASSUME NEW l \in Lists("archived"), InDates(l), NEW c \in Copy
    PROVE  InDates(placeIn("archived", l, c))
  <1> DEFINE new == place("archived", l, c)
  <1>1. PICK rest \in Lists("archived") :
             /\ Range(rest) = {x \in Range(l) : x.id # c.id}
             /\ \A x, y \in DOMAIN rest : x < y =>
                    \E i, j \in DOMAIN l : i < j /\ l[i] = rest[x] /\ l[j] = rest[y]
             /\ Stands("archived", c, rest, new)
    BY PlacedWhere
  <1>2. placeIn("archived", l, c) = new
    BY DEF placeIn, Groups
  <1> HIDE DEF new
  <1>3. /\ \A k \in DOMAIN rest : k \in Nat /\ rest[k] \in Copy /\ rest[k].id # c.id
        /\ \A k, h \in DOMAIN rest : k < h => comesBefore("archived", rest[k], rest[h])
    <2>1. \A k \in DOMAIN rest : k \in Nat /\ rest[k] \in Copy
      BY DEF Lists
    <2>2. \A k \in DOMAIN rest : rest[k].id # c.id
      BY <1>1 DEF Range
    <2>3. \A k, h \in DOMAIN rest : k < h => comesBefore("archived", rest[k], rest[h])
      BY <1>1 DEF InDates
    <2> QED
      BY <2>1, <2>2, <2>3
  <1>4. ASSUME NEW i \in DOMAIN new, NEW j \in DOMAIN new, i < j
        PROVE  comesBefore("archived", new[i], new[j])
    <2>1. CASE \E k, h \in DOMAIN rest : k < h /\ new[i] = rest[k] /\ new[j] = rest[h]
      BY <1>3, <2>1
    <2>2. CASE new[j] = c /\ \E k \in DOMAIN rest : new[i] = rest[k] /\ ~comesBefore("archived", c, rest[k])
      BY <1>3, <2>2, OneComesFirst
    <2>3. CASE /\ new[i] = c
               /\ \E k, h \in DOMAIN rest :
                     k <= h /\ new[j] = rest[h] /\ comesBefore("archived", c, rest[k])
      <3>1. PICK k \in DOMAIN rest, h \in DOMAIN rest :
                    k <= h /\ new[j] = rest[h] /\ comesBefore("archived", c, rest[k])
        BY <2>3
      <3>2. k = h \/ k < h
        BY <1>3, <3>1
      <3>3. CASE k = h
        BY <2>3, <3>1, <3>3
      <3>4. CASE k < h
        <4>1. comesBefore("archived", rest[k], rest[h]) /\ rest[k] \in Copy /\ rest[h] \in Copy
          BY <1>3, <3>4
        <4> QED
          BY <2>3, <3>1, <4>1, OneComesFirst
      <3> QED
        BY <3>2, <3>3, <3>4
    <2> QED
      BY <1>1, <1>4, <2>1, <2>2, <2>3 DEF Stands
  <1> QED
    BY <1>2, <1>4 DEF InDates

\* Copies are put in their places one after the other (placeEach).
LEMMA OneAfterTheOther ==
    ASSUME NEW q, NEW l, NEW copies \in Seq(Copy)
    PROVE  \E after : /\ after[0] = l /\ placeEach(q, l, copies) = after[Len(copies)]
                      /\ \A i \in 1..Len(copies) : after[i] = placeIn(q, after[i - 1], copies[i])
  <1> DEFINE n == Len(copies)
             Upto(f, m) == f = [i \in 0..m |-> IF i = 0 THEN l ELSE placeIn(q, f[i - 1], copies[i])]
             holds == {m \in 0..n : \E f : Upto(f, m)}
             after == CHOOSE f : Upto(f, n)
  <1>1. placeEach(q, l, copies) = after[n]
    BY DEF placeEach
  <1>2. n \in Nat
    OBVIOUS
  <1>3. 0 \in holds
    <2> DEFINE f == [i \in 0..0 |-> IF i = 0 THEN l ELSE placeIn(q, l, copies[i])]
    <2>1. Upto(f, 0)
      <3> DEFINE g == [i \in 0..0 |-> IF i = 0 THEN l ELSE placeIn(q, f[i - 1], copies[i])]
      <3>1. \A i \in 0..0 : f[i] = g[i]
        OBVIOUS
      <3> QED
        BY <3>1
    <2> HIDE DEF f
    <2> QED
      BY <1>2, <2>1
  <1>4. ASSUME NEW m \in 0..n, m \in holds, m < n
        PROVE  m + 1 \in holds
    <2>1. PICK f : Upto(f, m)
      BY <1>4
    <2> DEFINE g == [i \in 0..(m + 1) |-> IF i <= m THEN f[i] ELSE placeIn(q, f[m], copies[m + 1])]
    <2>2. \A i \in 0..m : f[i] = IF i = 0 THEN l ELSE placeIn(q, f[i - 1], copies[i])
      BY <2>1
    <2>3. \A i \in 0..(m + 1) : g[i] = IF i = 0 THEN l ELSE placeIn(q, g[i - 1], copies[i])
      <3>1. ASSUME NEW i \in 0..m
            PROVE  g[i] = IF i = 0 THEN l ELSE placeIn(q, g[i - 1], copies[i])
        <4>1. g[i] = f[i]
          BY <1>4
        <4>2. i # 0 => i - 1 \in 0..m /\ g[i - 1] = f[i - 1]
          BY <1>4
        <4> HIDE DEF g
        <4> QED
          BY <2>2, <4>1, <4>2
      <3>2. /\ m + 1 # 0 /\ (m + 1) - 1 = m /\ g[m] = f[m]
            /\ g[m + 1] = placeIn(q, f[m], copies[m + 1])
        BY <1>4
      <3>3. \A i \in 0..(m + 1) : i \in 0..m \/ i = m + 1
        BY <1>4
      <3> HIDE DEF g
      <3> QED
        BY <3>1, <3>2, <3>3
    <2>4. DOMAIN g = 0..(m + 1) /\ g = [i \in 0..(m + 1) |-> g[i]]
      OBVIOUS
    <2> HIDE DEF g
    <2>5. Upto(g, m + 1)
      BY <2>3, <2>4
    <2>6. m + 1 \in 0..n
      BY <1>2, <1>4
    <2> QED
      BY <2>5, <2>6
  <1>5. n \in holds
    <2>1. holds \in SUBSET Nat
      OBVIOUS
    <2> HIDE DEF holds
    <2> QED
      BY <1>2, <1>3, <1>4, <2>1, StepByStep
  <1>6. Upto(after, n)
    BY <1>5
  <1> HIDE DEF after
  <1>7. \A i \in 0..n : after[i] = IF i = 0 THEN l ELSE placeIn(q, after[i - 1], copies[i])
    BY <1>6
  <1>8. after[0] = l /\ \A i \in 1..n : after[i] = placeIn(q, after[i - 1], copies[i])
    BY <1>2, <1>7
  <1> QED
    BY <1>1, <1>8

\* A list stays one whatever copies are put in their places one after the other.
LEMMA EachPlacedIsList ==
    ASSUME NEW q \in Places, NEW l \in Lists(q), NEW copies \in Seq(Copy)
    PROVE  placeEach(q, l, copies) \in Lists(q)
  <1> DEFINE n == Len(copies)
  <1>1. PICK after : /\ after[0] = l /\ placeEach(q, l, copies) = after[n]
                     /\ \A i \in 1..n : after[i] = placeIn(q, after[i - 1], copies[i])
    BY OneAfterTheOther
  <1>2. n \in Nat /\ \A i \in 1..n : copies[i] \in Copy
    OBVIOUS
  <1> HIDE DEF n
  <1> DEFINE typed == {m \in 0..n : after[m] \in Lists(q)}
  <1>3. 0 \in typed
    BY <1>1, <1>2
  <1>4. ASSUME NEW m \in 0..n, m \in typed, m < n
        PROVE  m + 1 \in typed
    <2>1. m + 1 \in 1..n /\ m + 1 \in 0..n /\ (m + 1) - 1 = m
      BY <1>2, <1>4
    <2>2. after[m + 1] = placeIn(q, after[m], copies[m + 1]) /\ after[m] \in Lists(q)
      BY <1>1, <1>4, <2>1
    <2> QED
      BY <1>2, <2>1, <2>2, PutIsList
  <1>5. n \in typed
    <2>1. typed \in SUBSET Nat
      OBVIOUS
    <2> HIDE DEF typed
    <2> QED
      BY <1>2, <1>3, <1>4, <2>1, StepByStep
  <1> QED
    BY <1>1, <1>5

\* Copies of different notifications, put in their places, take the places of these notifications'
\* others, each where it is one of the place's; no other copy is touched.
LEMMA EachPlacedHas ==
    ASSUME NEW q \in Places, NEW l \in Lists(q), NEW copies \in Seq(Copy),
           \A i, j \in DOMAIN copies : copies[i].id = copies[j].id => i = j
    PROVE  Range(placeEach(q, l, copies)) =
             {x \in Range(l) : \A c \in Range(copies) : x.id # c.id} \cup {c \in Range(copies) : InPlace(q, c)}
  <1> DEFINE n == Len(copies)
             Some(m) == {copies[i] : i \in 1..m}
             Has(m) == {x \in Range(l) : \A c \in Some(m) : x.id # c.id} \cup {c \in Some(m) : InPlace(q, c)}
  <1>1. PICK after : /\ after[0] = l /\ placeEach(q, l, copies) = after[n]
                     /\ \A i \in 1..n : after[i] = placeIn(q, after[i - 1], copies[i])
    BY OneAfterTheOther
  <1>2. n \in Nat /\ DOMAIN copies = 1..n /\ \A i \in 1..n : copies[i] \in Copy
    OBVIOUS
  <1> HIDE DEF n
  <1> DEFINE holds == {m \in 0..n : after[m] \in Lists(q) /\ Range(after[m]) = Has(m)}
  <1>3. 0 \in holds
    <2>1. Some(0) = {}
      OBVIOUS
    <2> HIDE DEF Some
    <2>2. Has(0) = Range(l)
      BY <2>1
    <2> QED
      BY <1>1, <1>2, <2>2
  <1>4. ASSUME NEW m \in 0..n, m \in holds, m < n
        PROVE  m + 1 \in holds
    <2> DEFINE c == copies[m + 1]
    <2>1. m + 1 \in 1..n /\ m + 1 \in 0..n /\ (m + 1) - 1 = m
      BY <1>2, <1>4
    <2>2. after[m + 1] = placeIn(q, after[m], c) /\ after[m] \in Lists(q) /\ c \in Copy
      BY <1>1, <1>2, <1>4, <2>1
    <2>3. /\ after[m + 1] \in Lists(q)
          /\ Range(after[m + 1]) = {x \in Range(after[m]) : x.id # c.id} \cup (IF InPlace(q, c) THEN {c} ELSE {})
      <3> HIDE DEF c
      <3> QED
        BY <2>2, PutIsList
    <2>4. Some(m + 1) = Some(m) \cup {c}
      <3>1. \A i \in 1..(m + 1) : i \in 1..m \/ i = m + 1
        BY <1>2
      <3>2. m + 1 \in 1..(m + 1) /\ \A i \in 1..m : i \in 1..(m + 1)
        BY <1>2
      <3> QED
        BY <3>1, <3>2
    <2>5. \A x \in Some(m) : x.id # c.id
      <3>1. \A i \in 1..m : i \in 1..n /\ i # m + 1
        BY <1>2, <1>4
      <3> QED
        BY <1>2, <2>1, <3>1
    <2>6. Range(after[m]) = Has(m)
      BY <1>4
    <2> HIDE DEF Some, c
    <2>7. Range(after[m + 1]) = Has(m + 1)
      BY <2>3, <2>4, <2>5, <2>6
    <2> QED
      BY <2>1, <2>3, <2>7
  <1>5. n \in holds
    <2>1. holds \in SUBSET Nat
      OBVIOUS
    <2> HIDE DEF holds
    <2> QED
      BY <1>2, <1>3, <1>4, <2>1, StepByStep
  <1>6. Some(n) = Range(copies)
    BY <1>2 DEF Range
  <1> HIDE DEF Some
  <1> QED
    BY <1>1, <1>5, <1>6

\* The archive stays in the order of its dates, whatever is put there.
LEMMA EachPlacedByDate ==
    ASSUME NEW l \in Lists("archived"), InDates(l), NEW copies \in Seq(Copy)
    PROVE  InDates(placeEach("archived", l, copies))
  <1> DEFINE n == Len(copies)
  <1>1. PICK after : /\ after[0] = l /\ placeEach("archived", l, copies) = after[n]
                     /\ \A i \in 1..n : after[i] = placeIn("archived", after[i - 1], copies[i])
    BY OneAfterTheOther
  <1>2. n \in Nat /\ \A i \in 1..n : copies[i] \in Copy
    OBVIOUS
  <1>3. "archived" \in Places
    BY DEF Places, Views
  <1> HIDE DEF n
  <1> DEFINE holds == {m \in 0..n : after[m] \in Lists("archived") /\ InDates(after[m])}
  <1>4. 0 \in holds
    BY <1>1, <1>2
  <1>5. ASSUME NEW m \in 0..n, m \in holds, m < n
        PROVE  m + 1 \in holds
    <2>1. m + 1 \in 1..n /\ m + 1 \in 0..n /\ (m + 1) - 1 = m
      BY <1>2, <1>5
    <2>2. /\ after[m + 1] = placeIn("archived", after[m], copies[m + 1])
          /\ after[m] \in Lists("archived") /\ InDates(after[m])
      BY <1>1, <1>5, <2>1
    <2>3. copies[m + 1] \in Copy
      BY <1>2, <2>1
    <2>4. after[m + 1] \in Lists("archived")
      BY <1>3, <2>2, <2>3, PutIsList
    <2>5. InDates(after[m + 1])
      BY <2>2, <2>3, PutByDate
    <2> QED
      BY <2>1, <2>4, <2>5
  <1>6. n \in holds
    <2>1. holds \in SUBSET Nat
      OBVIOUS
    <2> HIDE DEF holds
    <2> QED
      BY <1>2, <1>4, <1>5, <2>1, StepByStep
  <1> QED
    BY <1>1, <1>6

-----------------------------------------------------------------------------
(* The invariant: what the variables hold, which changes hold a notification, and from where the *)
(* counts come that are not the server's yet.                                                    *)

Ways == {"read", "unread", "archive", "unarchive", "read all"}
Servers == [Notes -> [here : BOOLEAN, read : BOOLEAN, arch : Nat]]
Counts == [account : Nat, workspace : Nat]
Changes == [no : Nat \ {0}, kind : Ways, ids : SUBSET Notes, before : SUBSET Notes,
            phase : {"sent", "committed", "told"}, affected : SUBSET Notes, uncounted : BOOLEAN,
            cache : Caches, counts : SUBSET Counts]
Steps == {"read", "count", "send"}

\* What is read for an update: a row of each notification, none of a read-all, then the counts.
ReadSoundly(u) ==
    /\ IsFiniteSet(u.rows) /\ \A a, b \in u.rows : a.id = b.id => a = b
    /\ u.readAll => u.rows = {}
    /\ u.step = "read" => ~u.readAll
    /\ u.step = "send" => u.counts # {}
Updates == [no : Int, readAll : BOOLEAN, ids : SUBSET Notes, step : Steps,
            rows : SUBSET Copy, counts : SUBSET Counts]
Tellings == {u \in Updates : ReadSoundly(u)}
Events == [upserted : SUBSET Copy, readAll : SUBSET Notes, summary : Counts]
Undos == {NoUndo} \cup [kind : {"unread"}, ids : SUBSET Notes]
                  \cup [kind : {"archive", "unarchive"}, ids : {{n} : n \in Notes}]

ServerTyped ==
    /\ server \in Servers /\ stamp \in Nat
    /\ answer \in [Queries -> Servers]
    /\ unpublished \in SUBSET Tellings /\ overtaken \in BOOLEAN

TabTyped ==
    /\ cache \in Caches /\ summary \in Counts
    /\ held \in [Notes -> Nat] /\ behind \in BOOLEAN
    /\ online \in BOOLEAN /\ view \in Views
    /\ fetching \in [Queries -> {"none", "asked", "answered"}]
    /\ undo \in Undos

\* A message tells of a notification once, and of a read-all alone.
OneWord(e) ==
    /\ IsFiniteSet(e.upserted) /\ \A a, b \in e.upserted : a.id = b.id => a = b
    /\ e.upserted = {} \/ e.readAll = {}

EventsTyped ==
    /\ events \in Seq(Events)
    /\ \A i \in DOMAIN events : OneWord(events[i])

ChangesTyped ==
    /\ changes \in SUBSET Changes /\ IsFiniteSet(changes)
    /\ spent \in [own : Nat, other : Nat, failed : Nat]
    /\ \A m \in changes : m.no <= spent.own /\ (m.kind = "read all" => m.uncounted)
    /\ \A m, o \in changes : m.no = o.no => m = o

\* The changes that name a notification.
Holders(cs, n) == {m.no : m \in {c \in cs : n \in c.ids}}
HeldByChanges ==
    /\ \A n \in Notes : held[n] = Cardinality(Holders(changes, n))
    /\ behind => SomeHeld

\* The last message sent has the counts the server has, when all is published and it was not overtaken.
LastOnesTrue ==
    /\ ~online => events = <<>>
    /\ events # <<>> /\ unpublished = {} /\ ~overtaken => events[Len(events)].summary = count_unread(server)

\* The counts are the server's, or something is on its way that makes them so.
CountsCome ==
    online /\ spent.failed = 0 /\ ~overtaken =>
        \/ unpublished # {} \/ events # <<>> \/ behind
        \/ \E m \in changes : m.phase = "sent" \/ m.uncounted
        \/ fetching["summary"] = "asked"
        \/ fetching["summary"] = "answered" /\ count_unread(answer["summary"]) = count_unread(server)
        \/ fetching["summary"] = "none" /\ summary = count_unread(server)

InboxInv ==
    /\ ServerTyped /\ TabTyped /\ EventsTyped /\ ChangesTyped
    /\ HeldByChanges /\ LastOnesTrue /\ CountsCome

-----------------------------------------------------------------------------
(* The counts. *)

\* The server counts what it has.
LEMMA ServerCounts ==
    ASSUME NEW s
    PROVE  count_unread(s) \in Counts
  <1> DEFINE unread == {n \in Here(s) : isUnread(CopyOf(s, n))}
  <1>1. unread \cap Account \in SUBSET Notes /\ unread \ Account \in SUBSET Notes
    BY DEF Here
  <1> HIDE DEF unread
  <1>2. Cardinality(unread \cap Account) \in Nat /\ Cardinality(unread \ Account) \in Nat
    BY <1>1, NotesAssumption, FS_Subset, FS_CardinalityType
  <1> QED
    BY <1>2 DEF count_unread, Counts, unread

\* No count goes below zero.
LEMMA NotBelowZero ==
    ASSUME NEW x \in Int
    PROVE  Max({0, x}) \in Nat /\ (x >= 0 => Max({0, x}) = x) /\ (x <= 0 => Max({0, x}) = 0)
  <1>1. CASE x >= 0
    <2>1. x \in {0, x} /\ \A y \in {0, x} : x >= y
      BY <1>1
    <2>2. Max({0, x}) \in {0, x} /\ \A y \in {0, x} : Max({0, x}) >= y
      BY <2>1 DEF Max
    <2>3. Max({0, x}) = x
      BY <2>2, <1>1
    <2> QED
      BY <2>3, <1>1
  <1>2. CASE x <= 0
    <2>1. 0 \in {0, x} /\ \A y \in {0, x} : 0 >= y
      BY <1>2
    <2>2. Max({0, x}) \in {0, x} /\ \A y \in {0, x} : Max({0, x}) >= y
      BY <2>1 DEF Max
    <2>3. Max({0, x}) = 0
      BY <2>2, <1>2
    <2> QED
      BY <2>3, <1>2
  <1> QED
    BY <1>1, <1>2

\* Patched, the counts are counts, and they are as they were when nothing changed.
LEMMA PatchedCounts ==
    ASSUME NEW s \in Counts, NEW pairs, IsFiniteSet(pairs)
    PROVE  patchSummary(s, pairs) \in Counts /\ (pairs = {} => patchSummary(s, pairs) = s)
  <1> DEFINE ofAccount == {p \in pairs : p[1].id \in Account}
  <1>1. ASSUME NEW ps \in SUBSET pairs
        PROVE  Delta(ps) \in Int /\ (ps = {} => Delta(ps) = 0)
    <2> DEFINE up == {p \in ps : isUnread(p[2]) /\ ~isUnread(p[1])}
               down == {p \in ps : isUnread(p[1]) /\ ~isUnread(p[2])}
    <2>1. up \in SUBSET pairs /\ down \in SUBSET pairs /\ (ps = {} => up = {} /\ down = {})
      OBVIOUS
    <2>2. Delta(ps) = Cardinality(up) - Cardinality(down)
      BY DEF Delta
    <2> HIDE DEF up, down
    <2>3. Cardinality(up) \in Nat /\ Cardinality(down) \in Nat
      BY <2>1, FS_Subset, FS_CardinalityType
    <2> QED
      BY <2>1, <2>2, <2>3, FS_EmptySet
  <1>2. /\ Delta(ofAccount) \in Int /\ Delta(pairs \ ofAccount) \in Int
        /\ pairs = {} => Delta(ofAccount) = 0 /\ Delta(pairs \ ofAccount) = 0
    <2>1. ofAccount \in SUBSET pairs /\ pairs \ ofAccount \in SUBSET pairs
          /\ (pairs = {} => ofAccount = {} /\ pairs \ ofAccount = {})
      OBVIOUS
    <2> HIDE DEF ofAccount
    <2> QED
      BY <1>1, <2>1
  <1>3. patchSummary(s, pairs) = [account |-> Max({0, s.account + Delta(ofAccount)}),
                                  workspace |-> Max({0, s.workspace + Delta(pairs \ ofAccount)})]
    BY DEF patchSummary
  <1> HIDE DEF ofAccount
  <1>4. s.account \in Nat /\ s.workspace \in Nat /\ s = [account |-> s.account, workspace |-> s.workspace]
    BY DEF Counts
  <1>5. /\ Max({0, s.account + Delta(ofAccount)}) \in Nat
        /\ Max({0, s.workspace + Delta(pairs \ ofAccount)}) \in Nat
    <2>1. s.account + Delta(ofAccount) \in Int /\ s.workspace + Delta(pairs \ ofAccount) \in Int
      BY <1>2, <1>4
    <2> QED
      BY <2>1, NotBelowZero
  <1>6. ASSUME pairs = {}
        PROVE  /\ Max({0, s.account + Delta(ofAccount)}) = s.account
               /\ Max({0, s.workspace + Delta(pairs \ ofAccount)}) = s.workspace
    <2>1. s.account + Delta(ofAccount) = s.account /\ s.workspace + Delta(pairs \ ofAccount) = s.workspace
      BY <1>2, <1>4, <1>6
    <2>2. Max({0, s.account}) = s.account /\ Max({0, s.workspace}) = s.workspace
      BY <1>4, NotBelowZero
    <2> QED
      BY <2>1, <2>2
  <1> QED
    BY <1>3, <1>4, <1>5, <1>6 DEF Counts

-----------------------------------------------------------------------------
(* The copies. *)

\* The first copy found of a notification is a copy of it; each row is found.
LEMMA CopiesFound ==
    ASSUME NEW ca \in Caches
    PROVE  /\ AllCopies(ca) \in Seq(Copy)
           /\ \A q \in Places : Range(ca[q]) \subseteq Range(AllCopies(ca))
           /\ Range(AllCopies(ca)) \subseteq Copy
           /\ \A q \in Places : \A c \in Range(ca[q]) : c \in Copy /\ Known(ca, c.id)
           /\ \A n : Known(ca, n) => /\ cachedNotification(ca, n) \in Copy /\ cachedNotification(ca, n).id = n
                                    /\ \E q \in Places : cachedNotification(ca, n) \in Range(ca[q])
  <1> DEFINE all == AllCopies(ca)
             two == ca["all"] \o ca["unread"]
             three == two \o ca["archived"]
             four == three \o ca["pinned all"]
  <1>1. \A q \in Places : ca[q] \in Seq(Copy)
    BY DEF Caches
  <1>2. Places = {"all", "unread", "archived", "pinned all", "pinned unread"}
    BY DEF Places, Views, Groups
  <1>3. two \in Seq(Copy) /\ ToSet(two) = ToSet(ca["all"]) \cup ToSet(ca["unread"])
    BY <1>1, <1>2, ElementsOfJoined
  <1>4. three \in Seq(Copy) /\ ToSet(three) = ToSet(two) \cup ToSet(ca["archived"])
    <2>1. two \in Seq(Copy) /\ ca["archived"] \in Seq(Copy)
      BY <1>1, <1>2, <1>3
    <2> HIDE DEF two
    <2> QED
      BY <2>1, ElementsOfJoined
  <1>5. four \in Seq(Copy) /\ ToSet(four) = ToSet(three) \cup ToSet(ca["pinned all"])
    <2>1. three \in Seq(Copy) /\ ca["pinned all"] \in Seq(Copy)
      BY <1>1, <1>2, <1>4
    <2> HIDE DEF three
    <2> QED
      BY <2>1, ElementsOfJoined
  <1>6. all \in Seq(Copy) /\ ToSet(all) = ToSet(four) \cup ToSet(ca["pinned unread"])
    <2>1. all = four \o ca["pinned unread"]
      BY DEF AllCopies
    <2>2. four \in Seq(Copy) /\ ca["pinned unread"] \in Seq(Copy)
      BY <1>1, <1>2, <1>5
    <2> HIDE DEF all
    <2> HIDE DEF four
    <2> QED
      BY <2>1, <2>2, ElementsOfJoined
  <1>7. \A q \in Places : ToSet(ca[q]) \subseteq ToSet(all)
    <2> HIDE DEF two, three, four, all
    <2> QED
      BY <1>2, <1>3, <1>4, <1>5, <1>6
  <1> HIDE DEF two, three, four, all
  <1>8. /\ Len(all) \in Nat /\ DOMAIN all = 1..Len(all) /\ \A i \in DOMAIN all : all[i] \in Copy
    <2>1. all \in Seq(Copy)
      BY <1>6
    <2> QED
      BY <2>1
  <1>9. ToSet(all) \subseteq Copy
    BY <1>8 DEF ToSet
  <1>10. ToSet(all) = Range(all) /\ \A q : ToSet(ca[q]) = Range(ca[q])
    BY DEF ToSet, Range
  <1>11. \A n : PlacesOf(ca, n) = {i \in DOMAIN all : all[i].id = n}
    BY DEF PlacesOf, all
  <1>12. ASSUME NEW c \in Range(all)
         PROVE  Known(ca, c.id)
    <2>1. PICK i \in DOMAIN all : all[i] = c
      BY DEF Range
    <2> QED
      BY <2>1, <1>11 DEF Known
  <1>13. ASSUME NEW n, Known(ca, n)
         PROVE  /\ cachedNotification(ca, n) \in Copy /\ cachedNotification(ca, n).id = n
                /\ cachedNotification(ca, n) \in ToSet(all)
    <2> DEFINE at == PlacesOf(ca, n)
    <2>1. at \in SUBSET (1..Len(all)) /\ at # {}
      BY <1>8, <1>11, <1>13 DEF Known
    <2>2. at \in SUBSET Nat /\ IsFiniteSet(at)
      <3>1. IsFiniteSet(1..Len(all)) /\ 1..Len(all) \in SUBSET Nat
        BY <1>8, FS_Interval
      <3> HIDE DEF at
      <3> QED
        BY <2>1, <3>1, FS_Subset
    <2>3. Min(at) \in at
      <3>1. \E least \in at : \A i \in at : least <= i
        <4> HIDE DEF at
        <4> QED
          BY <2>1, <2>2, LeastAndGreatest
      <3> HIDE DEF at
      <3> QED
        BY <3>1 DEF Min
    <2>4. cachedNotification(ca, n) = all[Min(at)]
      BY DEF cachedNotification, all
    <2>5. Min(at) \in DOMAIN all /\ all[Min(at)].id = n
      BY <1>11, <2>3
    <2> HIDE DEF at
    <2> QED
      BY <1>8, <2>4, <2>5 DEF ToSet
  <1>14. \A x \in ToSet(all) : \E q \in Places : x \in Range(ca[q])
    <2>1. ToSet(all) = UNION {ToSet(ca[q]) : q \in Places}
      <3> HIDE DEF two, three, four, all
      <3> QED
        BY <1>2, <1>3, <1>4, <1>5, <1>6
    <2> QED
      BY <1>10, <2>1
  <1> QED
    BY <1>6, <1>7, <1>9, <1>10, <1>12, <1>13, <1>14 DEF all

\* A cache stays one when copies in it become other copies of the same notifications.
LEMMA RewrittenIsCache ==
    ASSUME NEW ca \in Caches, NEW new, new = [q \in Places |-> new[q]],
           \A q \in Places : DOMAIN new[q] = DOMAIN ca[q],
           \A q \in Places : new[q] = [i \in DOMAIN new[q] |-> new[q][i]],
           \A q \in Places : \A i \in DOMAIN ca[q] : new[q][i] \in Copy /\ new[q][i].id = ca[q][i].id
    PROVE  new \in Caches
  <1>1. ASSUME NEW q \in Places
        PROVE  new[q] \in Lists(q) /\ new[q] \in Seq(Copy)
    <2>1. ca[q] \in Lists(q)
      BY DEF Caches
    <2>2. new[q] \in [DOMAIN ca[q] -> Copy]
      OBVIOUS
    <2>3. new[q] \in Lists(q)
      BY <2>1, <2>2, RewrittenIsList
    <2> QED
      BY <2>3 DEF Lists
  <1> QED
    BY <1>1 DEF Caches

\* Read or unread, the copies of a cache are copies (patchReadNotification).
LEMMA ReadIsCache ==
    ASSUME NEW ca \in Caches, NEW ids, NEW read \in BOOLEAN
    PROVE  patchReadNotification(ca, ids, read) \in Caches
  <1> DEFINE Changed(c) == IF c.id \in ids THEN [c EXCEPT !.read = read] ELSE c
             patched == [q \in Places |-> [i \in DOMAIN ca[q] |-> Changed(ca[q][i])]]
             moves == {c \in Copy : c.id \in ids /\ ~isUnread(c)}
             moving == Those(patched["pinned all"], moves)
  <1>1. \A c \in Copy : Changed(c) \in Copy /\ Changed(c).id = c.id
    BY DEF Copy
  <1>2. \A q \in Places : \A i \in DOMAIN ca[q] : ca[q][i] \in Copy
    BY DEF Caches
  <1> HIDE DEF Changed
  <1>3. patched \in Caches
    BY <1>1, <1>2, RewrittenIsCache
  <1>4. patchReadNotification(ca, ids, read) =
          [patched EXCEPT !["pinned all"] = Those(@, Copy \ moves),
                          !["all"] = placeEach("all", @, moving)]
    BY DEF patchReadNotification, EachCopy, Changed
  <1> HIDE DEF patched, moves
  <1>5. \A q \in Places : patched[q] \in Lists(q) /\ patched[q] \in Seq(Copy)
    BY <1>3 DEF Caches
  <1>6. "all" \in Places /\ "pinned all" \in Places
    BY DEF Places, Views, Groups
  <1>7. Those(patched["pinned all"], Copy \ moves) \in Lists("pinned all")
    BY <1>5, <1>6, FilteredIsList
  <1>8. moving \in Seq(Copy)
    <2>1. moving \in Lists("pinned all")
      BY <1>5, <1>6, FilteredIsList
    <2> QED
      BY <2>1 DEF Lists
  <1>9. placeEach("all", patched["all"], moving) \in Lists("all")
    <2> HIDE DEF moving
    <2> QED
      BY <1>5, <1>6, <1>8, EachPlacedIsList
  <1> DEFINE there == Those(patched["pinned all"], Copy \ moves)
             here == placeEach("all", patched["all"], moving)
             new == [patched EXCEPT !["pinned all"] = there, !["all"] = here]
  <1>10. patchReadNotification(ca, ids, read) = new
    BY <1>4
  <1> HIDE DEF there, here
  <1>11. there \in Lists("pinned all") /\ here \in Lists("all")
    BY <1>7, <1>9 DEF there, here
  <1>12. \A q \in Places : new[q] \in Lists(q)
    BY <1>3, <1>5, <1>11 DEF Caches
  <1>13. new \in [Places -> Seq(Copy)]
    BY <1>3, <1>11 DEF Caches, Lists
  <1> QED
    BY <1>10, <1>12, <1>13 DEF Caches

\* A cache stays one when a copy is placed in some lists (placeInLists).
LEMMA PlacedIsCache ==
    ASSUME NEW ca \in Caches, NEW c \in Copy, NEW views
    PROVE  placeInLists(ca, c, views) \in Caches
  <1>1. \A q \in Places : ca[q] \in Lists(q) /\ ca[q] \in Seq(Copy)
    BY DEF Caches
  <1>2. \A q \in Places : place(q, ca[q], c) \in Lists(q) /\ place(q, ca[q], c) \in Seq(Copy)
    BY <1>1, PlacedIsList DEF Lists
  <1> QED
    BY <1>1, <1>2 DEF placeInLists, Caches

\* A cached notification, archived or taken back, is a copy still.
LEMMA ArchivedIsCopy ==
    ASSUME NEW ca \in Caches, NEW n, Known(ca, n), NEW at \in Nat
    PROVE  ArchivedCopy(ca, n, at) \in Copy /\ ArchivedCopy(ca, n, at).id = n
  <1> DEFINE c == cachedNotification(ca, n)
  <1>1. c \in Copy /\ c.id = n
    BY CopiesFound
  <1>2. ArchivedCopy(ca, n, at) = [c EXCEPT !.arch = at, !.read = @ \/ at # 0]
    BY DEF ArchivedCopy
  <1> HIDE DEF c
  <1>3. (c.read \/ at # 0) \in BOOLEAN
    BY <1>1 DEF Copy
  <1> QED
    BY <1>1, <1>2, <1>3 DEF Copy

\* Archived or taken back, the copies of a cache are copies (patchArchiveNotification).
LEMMA ArchivedIsCache ==
    ASSUME NEW ca \in Caches, NEW n, Known(ca, n), NEW at \in Nat
    PROVE  patchArchiveNotification(ca, n, at) \in Caches
  <1> DEFINE placed == placeInLists(ca, ArchivedCopy(ca, n, at), Views)
             gone(q) == Those(placed[q], Others(n))
  <1>1. placed \in Caches
    BY ArchivedIsCopy, PlacedIsCache
  <1>2. patchArchiveNotification(ca, n, at) =
          [q \in Places |-> IF q \in Groups THEN gone(q) ELSE placed[q]]
    BY DEF patchArchiveNotification
  <1> HIDE DEF placed
  <1>3. \A q \in Places : placed[q] \in Lists(q) /\ placed[q] \in Seq(Copy)
    BY <1>1 DEF Caches
  <1>4. \A q \in Places : gone(q) \in Lists(q) /\ gone(q) \in Seq(Copy)
    BY <1>3, FilteredIsList DEF Lists
  <1> HIDE DEF gone
  <1> QED
    BY <1>2, <1>3, <1>4 DEF Caches

\* What a finite set names is finite.
LEMMA FiniteImage ==
    ASSUME NEW S, IsFiniteSet(S), NEW f, DOMAIN f = S
    PROVE  IsFiniteSet({f[x] : x \in S})
  <1> DEFINE g == [x \in S |-> f[x]]
             T == {f[x] : x \in S}
  <1>1. g \in Surjection(S, T)
    BY DEF Surjection
  <1> HIDE DEF g, T
  <1>2. IsFiniteSet(T)
    BY <1>1, FS_Surjection
  <1> QED
    BY <1>2 DEF T

\* The pairs a reading is counted by are finitely many, none for none.
LEMMA ReadPairsFinite ==
    ASSUME NEW ca, NEW ids \in SUBSET Notes, NEW read
    PROVE  IsFiniteSet(ReadPairs(ca, ids, read)) /\ (ids = {} => ReadPairs(ca, ids, read) = {})
  <1> DEFINE S == {i \in ids : Known(ca, i)}
             f == [n \in S |-> <<cachedNotification(ca, n), [cachedNotification(ca, n) EXCEPT !.read = read]>>]
             T == {f[n] : n \in S}
  <1>1. IsFiniteSet(S)
    <2>1. S \in SUBSET Notes
      OBVIOUS
    <2> HIDE DEF S
    <2> QED
      BY <2>1, NotesAssumption, FS_Subset
  <1>2. IsFiniteSet(T)
    <2>1. DOMAIN f = S
      OBVIOUS
    <2> HIDE DEF f, S
    <2> QED
      BY <1>1, <2>1, FiniteImage
  <1>3. ReadPairs(ca, ids, read) = T
    BY DEF ReadPairs
  <1> QED
    BY <1>2, <1>3

\* The server's notifications are copies, one of each.
LEMMA CopiesOfServer ==
    ASSUME NEW s \in Servers, NEW ids \in SUBSET Notes
    PROVE  /\ {CopyOf(s, n) : n \in ids} \in SUBSET Copy
           /\ IsFiniteSet({CopyOf(s, n) : n \in ids})
           /\ \A a, b \in {CopyOf(s, n) : n \in ids} : a.id = b.id => a = b
  <1> DEFINE f == [n \in ids |-> CopyOf(s, n)]
  <1>1. \A n \in Notes : CopyOf(s, n) \in Copy /\ CopyOf(s, n).id = n
    BY DEF CopyOf, Copy, Servers
  <1>2. IsFiniteSet({f[n] : n \in ids})
    <2>1. IsFiniteSet(ids) /\ DOMAIN f = ids
      BY NotesAssumption, FS_Subset
    <2> HIDE DEF f
    <2> QED
      BY <2>1, FiniteImage
  <1>3. {f[n] : n \in ids} = {CopyOf(s, n) : n \in ids}
    OBVIOUS
  <1> QED
    BY <1>1, <1>2, <1>3

\* What the server answers is a list.
LEMMA AnswerIsList ==
    ASSUME NEW s \in Servers, NEW q \in Places
    PROVE  list(s, q) \in Lists(q)
  <1> DEFINE copies == {CopyOf(s, n) : n \in Here(s)}
             some == IF q \in Views THEN {c \in copies : belongsTo(q, c)}
                     ELSE {c \in copies : c.id \in Account /\ isUnread(c)}
  <1>1. Here(s) \in SUBSET Notes
    BY DEF Here
  <1>2. copies \in SUBSET Copy /\ IsFiniteSet(copies) /\ \A a, b \in copies : a.id = b.id => a = b
    BY <1>1, CopiesOfServer
  <1>3. some \in SUBSET copies
    <2> HIDE DEF copies
    <2> QED
      OBVIOUS
  <1>4. list(s, q) = Sorted(q, some)
    BY DEF list
  <1> HIDE DEF copies, some
  <1>5. some \in SUBSET Copy /\ IsFiniteSet(some) /\ \A a, b \in some : a.id = b.id => a = b
    BY <1>2, <1>3, FS_Subset
  <1> QED
    BY <1>4, <1>5, SortedIsList

\* A finite set as a list has each of its elements once.
LEMMA ListedOnce ==
    ASSUME NEW some \in SUBSET Copy, IsFiniteSet(some)
    PROVE  /\ SetToSeq(some) \in Seq(Copy) /\ Range(SetToSeq(some)) = some
           /\ \A i, j \in DOMAIN SetToSeq(some) : SetToSeq(some)[i] = SetToSeq(some)[j] => i = j
  <1> DEFINE n == Cardinality(some)
             l == SetToSeq(some)
  <1>1. n \in Nat /\ \E f \in [1..n -> some] : IsInjective(f)
    <2>1. n \in Nat /\ \E f \in Bijection(1..n, some) : TRUE
      BY FS_CardinalityType, FS_CountingElements DEF ExistsBijection
    <2> QED
      BY <2>1 DEF Bijection, Injection
  <1>2. l = CHOOSE f \in [1..n -> some] : IsInjective(f)
    BY DEF SetToSeq
  <1> HIDE DEF l, n
  <1>3. l \in [1..n -> some] /\ IsInjective(l)
    BY <1>1, <1>2
  <1>4. l \in Surjection(1..n, some)
    <2>1. l \in Injection(1..n, some)
      BY <1>3 DEF Injection
    <2>2. IsFiniteSet(1..n) /\ Cardinality(1..n) = n
      BY <1>1, FS_Interval
    <2> QED
      BY <2>1, <2>2, FS_Injection DEF n
  <1>5. Range(l) = some
    BY <1>4 DEF Surjection, Range
  <1>6. l \in Seq(Copy)
    <2>1. l \in [1..n -> Copy]
      BY <1>3
    <2> QED
      BY <1>1, <2>1, SeqDef
  <1> QED
    BY <1>3, <1>5, <1>6 DEF IsInjective, l

\* What a message makes of a cached copy where it is (replaceInPlace, readAllInPlace).
Said(stays, c) == IF \E s \in stays : s.id = c.id THEN CHOOSE s \in stays : s.id = c.id ELSE c
ReadIf(limit, c) == IF c.id \in limit /\ isUnread(c) /\ held[c.id] = 0 THEN [c EXCEPT !.read = TRUE] ELSE c

LEMMA SaidOfTheSame ==
    ASSUME NEW stays \in SUBSET Copy, NEW limit, NEW c \in Copy
    PROVE  /\ Said(stays, c) \in Copy /\ Said(stays, c).id = c.id
           /\ ReadIf(limit, c) \in Copy /\ ReadIf(limit, c).id = c.id /\ ReadIf(limit, c).arch = c.arch
  <1>1. Said(stays, c) \in Copy /\ Said(stays, c).id = c.id
    BY DEF Said
  <1>2. ReadIf(limit, c) \in Copy /\ ReadIf(limit, c).id = c.id /\ ReadIf(limit, c).arch = c.arch
    BY DEF ReadIf, Copy
  <1> QED
    BY <1>1, <1>2

\* The rows once a message's copies are put in their places, or replaced where they are: what is moved
\* takes the place of its others where it is one of the place's.
TakenRows(ca, moving, stays, limit, new) ==
    \E moved \in Caches :
        /\ \A q \in Places :
             /\ DOMAIN new[q] = DOMAIN moved[q]
             /\ \A i \in DOMAIN moved[q] : new[q][i] = ReadIf(limit, Said(stays, moved[q][i]))
             /\ Range(moved[q]) = {x \in Range(ca[q]) : \A c \in moving : x.id # c.id}
                                    \cup {c \in moving : InPlace(q, c)}
        /\ InDates(ca["archived"]) => InDates(moved["archived"])

\* A message's copies are put in their places, or replaced where they are (receiveInboxUpdate).
LEMMA TakenIsCache ==
    ASSUME NEW ca \in Caches, NEW moving \in SUBSET Copy, IsFiniteSet(moving), NEW stays \in SUBSET Copy,
           \A a, b \in moving : a.id = b.id => a = b, NEW limit,
           NEW new, new = readAllInPlace(
                      replaceInPlace([q \in Places |-> placeEach(q, ca[q], SetToSeq(moving))], stays), limit)
    PROVE  new \in Caches /\ TakenRows(ca, moving, stays, limit, new)
  <1> DEFINE copies == SetToSeq(moving)
             moved == [q \in Places |-> placeEach(q, ca[q], copies)]
             swapped == [q \in Places |-> [i \in DOMAIN moved[q] |-> Said(stays, moved[q][i])]]
             taken == [q \in Places |-> [i \in DOMAIN swapped[q] |-> ReadIf(limit, swapped[q][i])]]
  <1>1. copies \in Seq(Copy) /\ Range(copies) = moving /\ \A i, j \in DOMAIN copies : copies[i].id = copies[j].id => i = j
    <2>1. /\ copies \in Seq(Copy) /\ Range(copies) = moving
          /\ \A i, j \in DOMAIN copies : copies[i] = copies[j] => i = j
      BY ListedOnce
    <2> HIDE DEF copies
    <2>2. \A i \in DOMAIN copies : copies[i] \in moving
      BY <2>1 DEF Range
    <2> QED
      BY <2>1, <2>2
  <1>2. \A q \in Places : ca[q] \in Lists(q)
    BY DEF Caches
  <1>3. new = taken
    <2>1. replaceInPlace(moved, stays) = swapped
      BY DEF replaceInPlace, EachCopy, Said
    <2>2. new = readAllInPlace(swapped, limit)
      BY <2>1
    <2> HIDE DEF swapped
    <2>3. readAllInPlace(swapped, limit) = taken
      BY DEF readAllInPlace, EachCopy, ReadIf
    <2> QED
      BY <2>2, <2>3
  <1> HIDE DEF copies
  <1>4. ASSUME NEW q \in Places
        PROVE  /\ moved[q] \in Lists(q) /\ moved[q] \in Seq(Copy)
               /\ Range(moved[q]) = {x \in Range(ca[q]) : \A c \in moving : x.id # c.id}
                                      \cup {c \in moving : InPlace(q, c)}
    <2> DEFINE l == placeEach(q, ca[q], copies)
    <2>1. l \in Lists(q)
      BY <1>1, <1>2, EachPlacedIsList
    <2>2. Range(l) = {x \in Range(ca[q]) : \A c \in Range(copies) : x.id # c.id}
                       \cup {c \in Range(copies) : InPlace(q, c)}
      BY <1>1, <1>2, EachPlacedHas
    <2>3. moved[q] = l
      OBVIOUS
    <2> HIDE DEF l, moved
    <2> QED
      BY <1>1, <2>1, <2>2, <2>3 DEF Lists
  <1>5. InDates(ca["archived"]) => InDates(moved["archived"])
    <2>1. "archived" \in Places /\ ca["archived"] \in Lists("archived")
      BY <1>2 DEF Places, Views
    <2>2. InDates(ca["archived"]) => InDates(placeEach("archived", ca["archived"], copies))
      BY <1>1, <2>1, EachPlacedByDate
    <2> QED
      BY <2>1, <2>2
  <1>6. moved \in Caches
    <2>1. moved = [q \in Places |-> moved[q]]
      OBVIOUS
    <2> HIDE DEF moved
    <2> QED
      BY <1>4, <2>1 DEF Caches
  <1>7. \A q \in Places : \A i \in DOMAIN moved[q] : moved[q][i] \in Copy
    <2> HIDE DEF moved
    <2> QED
      BY <1>6 DEF Caches
  <1> HIDE DEF moved
  <1>8. swapped \in Caches
    <2>1. \A c \in Copy : Said(stays, c) \in Copy /\ Said(stays, c).id = c.id
      BY SaidOfTheSame
    <2>2. \A q \in Places : /\ DOMAIN swapped[q] = DOMAIN moved[q]
                             /\ swapped[q] = [i \in DOMAIN swapped[q] |-> swapped[q][i]]
      OBVIOUS
    <2>3. \A q \in Places : \A i \in DOMAIN moved[q] :
             swapped[q][i] \in Copy /\ swapped[q][i].id = moved[q][i].id
      BY <1>7, <2>1
    <2>4. swapped = [q \in Places |-> swapped[q]]
      OBVIOUS
    <2> HIDE DEF swapped
    <2> QED
      BY <1>6, <2>2, <2>3, <2>4, RewrittenIsCache
  <1>9. \A q \in Places : \A i \in DOMAIN swapped[q] : swapped[q][i] \in Copy
    <2> HIDE DEF swapped
    <2> QED
      BY <1>8 DEF Caches
  <1>10. \A c \in Copy : ReadIf(limit, c) \in Copy /\ ReadIf(limit, c).id = c.id
    BY SaidOfTheSame
  <1>11. \A q \in Places : DOMAIN swapped[q] = DOMAIN moved[q] /\ \A i \in DOMAIN moved[q] : swapped[q][i] = Said(stays, moved[q][i])
    OBVIOUS
  <1> HIDE DEF swapped
  <1>12. taken \in Caches
    <2>1. \A q \in Places : /\ DOMAIN taken[q] = DOMAIN swapped[q]
                             /\ taken[q] = [i \in DOMAIN taken[q] |-> taken[q][i]]
      OBVIOUS
    <2>2. \A q \in Places : \A i \in DOMAIN swapped[q] :
             taken[q][i] \in Copy /\ taken[q][i].id = swapped[q][i].id
      BY <1>9, <1>10
    <2>3. taken = [q \in Places |-> taken[q]]
      OBVIOUS
    <2> HIDE DEF taken
    <2> QED
      BY <1>8, <2>1, <2>2, <2>3, RewrittenIsCache
  <1>13. \A q \in Places : /\ DOMAIN taken[q] = DOMAIN moved[q]
                           /\ \A i \in DOMAIN moved[q] : taken[q][i] = ReadIf(limit, Said(stays, moved[q][i]))
    BY <1>11
  <1> HIDE DEF taken
  <1> QED
    BY <1>3, <1>4, <1>5, <1>6, <1>12, <1>13 DEF TakenRows

-----------------------------------------------------------------------------
(* The steps of this tab. *)

\* The changes that name a notification are finitely many.
LEMMA HoldersFinite ==
    ASSUME ChangesTyped, NEW n
    PROVE  /\ Holders(changes, n) \in SUBSET (1..spent.own) /\ spent.own \in Nat
           /\ IsFiniteSet(Holders(changes, n)) /\ Cardinality(Holders(changes, n)) \in Nat
  <1>1. spent.own \in Nat
    BY DEF ChangesTyped
  <1>2. \A m \in changes : m.no \in 1..spent.own
    <2> SUFFICES ASSUME NEW m \in changes PROVE m.no \in 1..spent.own
      OBVIOUS
    <2>1. m.no \in Nat /\ m.no # 0 /\ m.no <= spent.own
      BY DEF ChangesTyped, Changes
    <2> QED
      BY <1>1, <2>1
  <1>3. Holders(changes, n) \in SUBSET (1..spent.own)
    BY <1>2 DEF Holders
  <1>4. IsFiniteSet(1..spent.own)
    BY <1>1, FS_Interval
  <1> QED
    BY <1>1, <1>3, <1>4, FS_Subset, FS_CardinalityType

\* A change of this tab names what it changes until it is settled.
LEMMA MutateKeeps ==
    ASSUME InboxInv, NEW kind \in Ways, NEW ids \in SUBSET Notes, Mutate(kind, ids), undo' \in Undos,
           kind \in {"archive", "unarchive"} => \E n \in Notes : ids = {n} /\ Known(cache, n)
    PROVE  InboxInv'
  <1> DEFINE next == patchSummary(summary, Pairs(kind, ids))
             uncounted == \/ kind = "read all"
                          \/ kind \in {"read", "unread"} /\ \E n \in ids : ~Known(cache, n)
             before == IF kind = "read all" THEN Here(server) ELSE {}
             counts == IF next = summary THEN {} ELSE {summary}
             change == [no |-> spent.own + 1, kind |-> kind, ids |-> ids, before |-> before,
                        phase |-> "sent", affected |-> {}, uncounted |-> uncounted,
                        cache |-> cache, counts |-> counts]
  <1> USE DEF InboxInv
  <1>1. /\ spent' = [spent EXCEPT !.own = @ + 1]
        /\ held' = [n \in Notes |-> IF n \in ids THEN held[n] + 1 ELSE held[n]]
        /\ cache' = Patched(kind, ids)
        /\ summary' = next
        /\ fetching' = IF next = summary THEN fetching ELSE [fetching EXCEPT !["summary"] = "none"]
        /\ changes' = changes \cup {change}
        /\ stamp' = IF kind = "archive" THEN stamp + 1 ELSE stamp
        /\ UNCHANGED <<server, behind, unpublished, overtaken, events, online, answer, view>>
    BY DEF Mutate, Use, hold, cancelSummary
  <1> HIDE DEF next
  <1>2. Patched(kind, ids) \in Caches /\ IsFiniteSet(Pairs(kind, ids))
    <2>1. cache \in Caches /\ stamp + 1 \in Nat
      BY DEF TabTyped, ServerTyped
    <2>2. CASE kind \in {"read", "read all"}
      <3>1. Patched(kind, ids) = patchReadNotification(cache, ids, TRUE)
            /\ Pairs(kind, ids) = ReadPairs(cache, ids, TRUE)
        BY <2>2 DEF Patched, Pairs
      <3> QED
        BY <2>1, <3>1, ReadIsCache, ReadPairsFinite
    <2>3. CASE kind = "unread"
      <3>1. Patched(kind, ids) = patchReadNotification(cache, ids, FALSE)
            /\ Pairs(kind, ids) = ReadPairs(cache, ids, FALSE)
        BY <2>3 DEF Patched, Pairs
      <3> QED
        BY <2>1, <3>1, ReadIsCache, ReadPairsFinite
    <2>4. CASE kind \in {"archive", "unarchive"}
      <3>1. PICK n \in Notes : ids = {n} /\ Known(cache, n)
        BY <2>4
      <3>2. (CHOOSE i \in ids : TRUE) = n
        BY <3>1
      <3> DEFINE at == IF kind = "archive" THEN stamp + 1 ELSE 0
      <3>3. at \in Nat
        BY <2>1
      <3>4. Patched(kind, ids) = patchArchiveNotification(cache, n, at)
        BY <2>4, <3>2 DEF Patched
      <3>5. \E p : Pairs(kind, ids) = {p}
        BY <2>4, <3>2 DEF Pairs
      <3> HIDE DEF at
      <3>6. Patched(kind, ids) \in Caches
        BY <2>1, <3>1, <3>3, <3>4, ArchivedIsCache
      <3> QED
        BY <3>5, <3>6, FS_Singleton
    <2> QED
      BY <2>2, <2>3, <2>4 DEF Ways
  <1>3. next \in Counts /\ summary \in Counts
    <2>1. summary \in Counts
      BY DEF TabTyped
    <2> QED
      BY <1>2, <2>1, PatchedCounts DEF next
  <1>4. change \in Changes /\ change.no = spent.own + 1 /\ spent.own \in Nat
    <2>1. spent.own \in Nat /\ cache \in Caches
      BY DEF ChangesTyped, TabTyped
    <2>2. before \in SUBSET Notes /\ counts \in SUBSET Counts /\ uncounted \in BOOLEAN
      BY <1>3 DEF Here
    <2>3. spent.own + 1 \in Nat \ {0}
      BY <2>1
    <2> HIDE DEF before, counts, uncounted
    <2> QED
      BY <2>1, <2>2, <2>3 DEF Changes
  <1>5. change.kind = kind /\ (kind = "read all" => change.uncounted) /\ change.ids = ids /\ change.phase = "sent"
    OBVIOUS
  <1> HIDE DEF change
  <1>6. \A m \in changes : m.no \in Nat /\ m.no <= spent.own
    BY DEF ChangesTyped, Changes
  <1>7. spent' \in [own : Nat, other : Nat, failed : Nat] /\ spent'.own = spent.own + 1 /\ spent'.failed = spent.failed
    <2>1. spent \in [own : Nat, other : Nat, failed : Nat] /\ spent.own + 1 \in Nat
      <3>1. spent.own + 1 \in Nat
        BY <1>4
      <3> QED
        BY <3>1 DEF ChangesTyped
    <2>2. spent' = [spent EXCEPT !.own = spent.own + 1]
      BY <1>1
    <2> QED
      BY <2>1, <2>2
  <1>8. ChangesTyped'
    <2>1. changes' \in SUBSET Changes /\ IsFiniteSet(changes')
      BY <1>1, <1>4, FS_AddElement DEF ChangesTyped
    <2>2. \A m \in changes' : m.no <= spent'.own /\ (m.kind = "read all" => m.uncounted)
      <3>1. \A m \in changes : m.no <= spent.own + 1 /\ (m.kind = "read all" => m.uncounted)
        <4>1. \A m \in changes : m.kind = "read all" => m.uncounted
          BY DEF ChangesTyped
        <4>2. \A m \in changes : m.no <= spent.own + 1
          BY <1>4, <1>6
        <4> QED
          BY <4>1, <4>2
      <3>2. change.no <= spent.own + 1 /\ (change.kind = "read all" => change.uncounted)
        <4>1. change.no <= spent.own + 1
          BY <1>4
        <4> QED
          BY <4>1, <1>5
      <3> QED
        BY <1>1, <1>7, <3>1, <3>2
    <2>3. \A m, o \in changes' : m.no = o.no => m = o
      <3>1. \A m \in changes : m.no # change.no
        BY <1>4, <1>6
      <3> QED
        BY <1>1, <3>1 DEF ChangesTyped
    <2> QED
      BY <1>7, <2>1, <2>2, <2>3 DEF ChangesTyped
  <1>9. \A n \in Notes : held[n] \in Nat
    BY DEF TabTyped
  <1>10. HeldByChanges'
    <2>1. ASSUME NEW n \in Notes
          PROVE  held'[n] = Cardinality(Holders(changes', n))
      <3>1. /\ IsFiniteSet(Holders(changes, n)) /\ Cardinality(Holders(changes, n)) \in Nat
            /\ held[n] = Cardinality(Holders(changes, n))
        BY HoldersFinite DEF HeldByChanges
      <3>2. change.no \notin Holders(changes, n)
        BY <1>4, <1>6 DEF Holders
      <3>3. CASE n \in ids
        <4>1. Holders(changes', n) = Holders(changes, n) \cup {change.no}
          BY <1>1, <1>5, <3>3 DEF Holders
        <4>2. Cardinality(Holders(changes', n)) = Cardinality(Holders(changes, n)) + 1
          BY <3>1, <3>2, <4>1, FS_AddElement
        <4> QED
          BY <1>1, <3>1, <3>3, <4>2
      <3>4. CASE n \notin ids
        <4>1. Holders(changes', n) = Holders(changes, n)
          BY <1>1, <1>5, <3>4 DEF Holders
        <4> QED
          BY <1>1, <3>1, <3>4, <4>1
      <3> QED
        BY <3>3, <3>4
    <2>2. behind' => SomeHeld'
      <3> SUFFICES ASSUME behind PROVE \E n \in Notes : held'[n] > 0
        BY <1>1 DEF SomeHeld
      <3>1. PICK n \in Notes : held[n] > 0
        BY DEF HeldByChanges, SomeHeld
      <3> QED
        BY <1>1, <1>9, <3>1
    <2> QED
      BY <2>1, <2>2 DEF HeldByChanges
  <1>11. TabTyped'
    <2>1. held' \in [Notes -> Nat]
      BY <1>1, <1>9
    <2>2. fetching' \in [Queries -> {"none", "asked", "answered"}]
      BY <1>1 DEF TabTyped
    <2> QED
      BY <1>1, <1>2, <1>3, <2>1, <2>2 DEF TabTyped
  <1>12. ServerTyped' /\ EventsTyped' /\ LastOnesTrue'
    BY <1>1 DEF ServerTyped, EventsTyped, LastOnesTrue
  <1>13. CountsCome'
    BY <1>1, <1>5 DEF CountsCome
  <1> QED
    BY <1>8, <1>10, <1>11, <1>12, <1>13

\* When a change is settled, what it named is let go, and what was left out in between is asked for.
LEMMA SettleKeeps ==
    ASSUME InboxInv, NEW m \in changes, NEW ca \in Caches, NEW counts \in Counts,
           NEW fetches \in [Queries -> {"none", "asked", "answered"}], Settle(m, ca, counts, fetches),
           undo' \in Undos, UNCHANGED <<server, unpublished, overtaken, events, online, answer, view, stamp>>,
           spent' \in [own : Nat, other : Nat, failed : Nat], spent'.own = spent.own,
           spent'.failed = 0 => /\ spent.failed = 0 /\ m.phase = "told"
                                /\ m.uncounted \/ (counts = summary /\ fetches = fetching)
    PROVE  InboxInv'
  <1> USE DEF InboxInv
  <1> DEFINE left == release(m.ids)
             settled == \A n \in Notes : left[n] = 0
             caughtUp == settled /\ behind
  <1>1. /\ held' = left
        /\ behind' = (behind /\ ~settled)
        /\ cache' = ca /\ summary' = counts
        /\ changes' = changes \ {m}
        /\ fetching' = IF caughtUp \/ m.uncounted THEN refreshSummary(fetches) ELSE fetches
    BY DEF Settle
  <1>2. \A n \in Notes : held[n] \in Nat /\ left[n] = IF n \in m.ids THEN Max({0, held[n] - 1}) ELSE held[n]
    BY DEF TabTyped, release
  <1>3. left = [n \in Notes |-> left[n]]
    BY DEF release
  <1> HIDE DEF left
  <1>4. \A n \in Notes : left[n] \in Nat
    <2> SUFFICES ASSUME NEW n \in Notes PROVE left[n] \in Nat
      OBVIOUS
    <2>1. held[n] \in Nat
      BY <1>2
    <2>2. held[n] - 1 \in Int
      BY <2>1
    <2>3. Max({0, held[n] - 1}) \in Nat
      BY <2>2, NotBelowZero
    <2> QED
      BY <1>2, <2>1, <2>3
  <1>5. ChangesTyped'
    <2>1. IsFiniteSet(changes')
      BY <1>1, FS_RemoveElement DEF ChangesTyped
    <2> QED
      BY <1>1, <2>1 DEF ChangesTyped
  <1>6. HeldByChanges'
    <2>1. ASSUME NEW n \in Notes
          PROVE  held'[n] = Cardinality(Holders(changes', n))
      <3>1. /\ IsFiniteSet(Holders(changes, n)) /\ Cardinality(Holders(changes, n)) \in Nat
            /\ held[n] = Cardinality(Holders(changes, n))
        BY HoldersFinite DEF HeldByChanges
      <3>2. CASE n \in m.ids
        <4>1. Holders(changes', n) = Holders(changes, n) \ {m.no} /\ m.no \in Holders(changes, n)
          <5>1. \A c \in changes : c.no = m.no => c = m
            BY DEF ChangesTyped
          <5>2. changes' = changes \ {m}
            BY <1>1
          <5>3. m.no \in Holders(changes, n)
            BY <3>2 DEF Holders
          <5>4. \A x \in Holders(changes', n) : x \in Holders(changes, n) \ {m.no}
            BY <5>1, <5>2 DEF Holders
          <5>5. \A x \in Holders(changes, n) \ {m.no} : x \in Holders(changes', n)
            BY <5>1, <5>2 DEF Holders
          <5> QED
            BY <5>3, <5>4, <5>5
        <4>2. Cardinality(Holders(changes', n)) = Cardinality(Holders(changes, n)) - 1
          <5> DEFINE all == Holders(changes, n)
          <5>1. Cardinality(all \ {m.no}) = IF m.no \in all THEN Cardinality(all) - 1 ELSE Cardinality(all)
            BY <3>1, FS_RemoveElement
          <5> QED
            BY <4>1, <5>1
        <4>3. Cardinality(Holders(changes, n)) # 0
          BY <3>1, <4>1, FS_EmptySet
        <4>4. held[n] - 1 >= 0 /\ held[n] - 1 \in Int
          BY <3>1, <4>3
        <4>5. Max({0, held[n] - 1}) = held[n] - 1
          BY <4>4, NotBelowZero
        <4> QED
          BY <1>1, <1>2, <3>1, <3>2, <4>2, <4>5
      <3>3. CASE n \notin m.ids
        <4>1. Holders(changes', n) = Holders(changes, n)
          BY <1>1, <3>3 DEF Holders
        <4> QED
          BY <1>1, <1>2, <3>1, <3>3, <4>1
      <3> QED
        BY <3>2, <3>3
    <2>2. behind' => SomeHeld'
      <3> SUFFICES ASSUME behind, ~settled PROVE \E n \in Notes : left[n] > 0
        BY <1>1 DEF SomeHeld
      <3>1. PICK n \in Notes : left[n] # 0
        OBVIOUS
      <3> QED
        BY <1>4, <3>1
    <2> QED
      BY <2>1, <2>2 DEF HeldByChanges
  <1>7. refreshSummary(fetches) \in [Queries -> {"none", "asked", "answered"}]
        /\ refreshSummary(fetches)["summary"] = "asked"
    BY DEF refreshSummary, Queries
  <1>8. TabTyped'
    <2>1. held' \in [Notes -> Nat]
      BY <1>1, <1>3, <1>4
    <2>2. fetching' \in [Queries -> {"none", "asked", "answered"}]
      BY <1>1, <1>7
    <2>3. behind' \in BOOLEAN
      BY <1>1
    <2> QED
      BY <1>1, <2>1, <2>2, <2>3 DEF TabTyped
  <1>9. ServerTyped' /\ EventsTyped' /\ LastOnesTrue'
    BY DEF ServerTyped, EventsTyped, LastOnesTrue
  <1>10. CountsCome'
    <2> SUFFICES ASSUME online, spent'.failed = 0, ~overtaken, unpublished = {}, events = <<>>, ~behind',
                        ~ \E c \in changes' : c.phase = "sent" \/ c.uncounted,
                        ~(caughtUp \/ m.uncounted)
                 PROVE  \/ fetching'["summary"] = "asked"
                        \/ fetching'["summary"] = "answered" /\ count_unread(answer["summary"]) = count_unread(server)
                        \/ fetching'["summary"] = "none" /\ summary' = count_unread(server)
      BY <1>1, <1>7 DEF CountsCome
    <2>1. fetching' = fetching /\ summary' = summary /\ m.phase = "told" /\ spent.failed = 0 /\ ~behind
      BY <1>1
    <2>2. ~ \E c \in changes : c.phase = "sent" \/ c.uncounted
      BY <1>1, <2>1
    <2> QED
      BY <2>1, <2>2 DEF CountsCome
  <1> QED
    BY <1>5, <1>6, <1>8, <1>9, <1>10

\* What a key or a button of the tab changes is in the cache; what the Undo changes, known if it
\* goes into the archive or out of it.
LEMMA ActsKeep ==
    ASSUME InboxInv, MarkAsRead \/ MarkAsUnread \/ Archive \/ Unarchive \/ ReadAllBefore \/ Undo
    PROVE  InboxInv'
  <1>1. cache \in Caches /\ undo \in Undos
    BY DEF InboxInv, TabTyped
  <1>2. \A c \in Rows : c \in Copy /\ c.id \in Notes /\ Known(cache, c.id)
    <2>1. \A q \in Active(view) : q \in Places
      BY DEF InboxInv, TabTyped, Active, Places, Views, Groups
    <2>2. \A c \in Rows : c \in Copy /\ Known(cache, c.id)
      BY <1>1, <2>1, CopiesFound DEF Rows
    <2> QED
      BY <2>2 DEF Copy
  <1>3. \A n \in Notes : [kind |-> "archive", ids |-> {n}] \in Undos /\ [kind |-> "unarchive", ids |-> {n}] \in Undos
    BY DEF Undos
  <1>4. ASSUME MarkAsRead PROVE InboxInv'
    <2>1. PICK c \in Rows : Mutate("read", {c.id}) /\ undo' = undo
      BY <1>4 DEF MarkAsRead, KeepUndo
    <2>2. {c.id} \in SUBSET Notes /\ "read" \in Ways /\ undo' \in Undos
      BY <1>1, <1>2, <2>1 DEF Ways
    <2> QED
      BY <2>1, <2>2, MutateKeeps
  <1>5. ASSUME MarkAsUnread PROVE InboxInv'
    <2>1. PICK c \in Rows : Mutate("unread", {c.id}) /\ undo' = undo
      BY <1>5 DEF MarkAsUnread, KeepUndo
    <2>2. {c.id} \in SUBSET Notes /\ "unread" \in Ways /\ undo' \in Undos
      BY <1>1, <1>2, <2>1 DEF Ways
    <2> QED
      BY <2>1, <2>2, MutateKeeps
  <1>6. ASSUME Archive PROVE InboxInv'
    <2>1. PICK c \in Rows : Mutate("archive", {c.id}) /\ undo' = [kind |-> "unarchive", ids |-> {c.id}]
      BY <1>6 DEF Archive
    <2>2. {c.id} \in SUBSET Notes /\ "archive" \in Ways /\ undo' \in Undos
          /\ \E n \in Notes : {c.id} = {n} /\ Known(cache, n)
      BY <1>2, <1>3, <2>1 DEF Ways
    <2> QED
      BY <2>1, <2>2, MutateKeeps
  <1>7. ASSUME Unarchive PROVE InboxInv'
    <2>1. PICK c \in Rows : Mutate("unarchive", {c.id}) /\ undo' = [kind |-> "archive", ids |-> {c.id}]
      BY <1>7 DEF Unarchive
    <2>2. {c.id} \in SUBSET Notes /\ "unarchive" \in Ways /\ undo' \in Undos
          /\ \E n \in Notes : {c.id} = {n} /\ Known(cache, n)
      BY <1>2, <1>3, <2>1 DEF Ways
    <2> QED
      BY <2>1, <2>2, MutateKeeps
  <1>8. ASSUME ReadAllBefore PROVE InboxInv'
    <2>1. Mutate("read all", patchReadAllIds(cache)) /\ undo' = undo
      BY <1>8 DEF ReadAllBefore, KeepUndo
    <2>2. patchReadAllIds(cache) \in SUBSET Notes
      <3>1. Range(AllCopies(cache)) \subseteq Copy
        BY <1>1, CopiesFound
      <3> QED
        BY <3>1 DEF patchReadAllIds, Copy
    <2>3. "read all" \in Ways /\ undo' \in Undos
      BY <1>1, <2>1 DEF Ways
    <2> QED
      BY <2>1, <2>2, <2>3, MutateKeeps
  <1>9. ASSUME Undo PROVE InboxInv'
    <2>1. /\ undo # NoUndo /\ Mutate(undo.kind, undo.ids)
          /\ undo.kind # "unread" => \A n \in undo.ids : Known(cache, n)
          /\ undo' = CASE undo.kind = "unarchive" -> [undo EXCEPT !.kind = "archive"]
                       [] undo.kind = "archive" -> [undo EXCEPT !.kind = "unarchive"]
                       [] OTHER -> NoUndo
      BY <1>9 DEF Undo
    <2>2. CASE undo.kind = "unread"
      <3>1. undo.ids \in SUBSET Notes /\ undo' \in Undos /\ undo.kind \in Ways
        BY <1>1, <2>1, <2>2 DEF Undos, Ways
      <3> QED
        BY <2>1, <2>2, <3>1, MutateKeeps
    <2>3. CASE undo.kind \in {"archive", "unarchive"}
      <3>1. PICK n \in Notes : undo.ids = {n}
        BY <1>1, <2>1, <2>3 DEF Undos
      <3>2. undo' \in Undos
        <4>1. undo = [kind |-> undo.kind, ids |-> {n}]
          BY <1>1, <2>1, <2>3, <3>1 DEF Undos
        <4>2. \/ undo' = [kind |-> "archive", ids |-> {n}]
              \/ undo' = [kind |-> "unarchive", ids |-> {n}]
          BY <2>1, <2>3, <4>1
        <4> QED
          BY <1>3, <4>2
      <3>3. undo.ids \in SUBSET Notes /\ undo.kind \in Ways /\ \E k \in Notes : undo.ids = {k} /\ Known(cache, k)
        BY <2>1, <2>3, <3>1 DEF Ways
      <3> QED
        BY <2>1, <3>2, <3>3, MutateKeeps
    <2> QED
      BY <1>1, <2>1, <2>2, <2>3 DEF Undos
  <1> QED
    BY <1>4, <1>5, <1>6, <1>7, <1>8, <1>9

\* An answer that came, or did not, settles its change.
LEMMA SucceedKeeps ==
    ASSUME InboxInv, NEW m \in changes, Succeed(m)
    PROVE  InboxInv'
  <1> DEFINE notRead == IF m.kind = "read all" THEN m.ids \ m.affected ELSE {}
             pairs == ReadPairs(cache, notRead, FALSE)
             counts == patchSummary(summary, pairs)
             ca == IF notRead = {} THEN cache ELSE patchReadNotification(cache, notRead, FALSE)
             fetches == IF counts = summary THEN fetching ELSE cancelSummary(fetching)
  <1>1. /\ m.phase = "told" /\ Settle(m, ca, counts, fetches)
        /\ undo' = IF m.kind = "read all" /\ m.affected # {}
                   THEN [kind |-> "unread", ids |-> m.affected] ELSE undo
        /\ UNCHANGED <<server, unpublished, overtaken, events, online, answer, view, spent, stamp>>
    BY DEF Succeed
  <1>2. /\ m \in Changes /\ cache \in Caches /\ summary \in Counts /\ undo \in Undos
        /\ fetching \in [Queries -> {"none", "asked", "answered"}]
        /\ spent \in [own : Nat, other : Nat, failed : Nat]
        /\ m.kind = "read all" => m.uncounted
    BY DEF InboxInv, TabTyped, ChangesTyped
  <1>3. m.ids \in SUBSET Notes /\ m.affected \in SUBSET Notes
    BY <1>2 DEF Changes
  <1>4. notRead \in SUBSET Notes
    BY <1>3
  <1>5. m.kind # "read all" => notRead = {}
    OBVIOUS
  <1> HIDE DEF notRead
  <1>6. IsFiniteSet(pairs) /\ (notRead = {} => pairs = {})
    BY <1>4, ReadPairsFinite
  <1> HIDE DEF pairs
  <1>7. counts \in Counts /\ (pairs = {} => counts = summary)
    BY <1>2, <1>6, PatchedCounts
  <1> HIDE DEF counts
  <1>8. ca \in Caches
    BY <1>2, ReadIsCache
  <1>9. fetches \in [Queries -> {"none", "asked", "answered"}]
    BY <1>2 DEF cancelSummary
  <1>10. m.uncounted \/ (counts = summary /\ fetches = fetching)
    BY <1>2, <1>5, <1>6, <1>7
  <1>11. undo' \in Undos
    BY <1>1, <1>2, <1>3 DEF Undos
  <1> HIDE DEF ca, fetches
  <1> QED
    BY <1>1, <1>2, <1>7, <1>8, <1>9, <1>10, <1>11, SettleKeeps

LEMMA FailKeeps ==
    ASSUME InboxInv, NEW m \in changes, Fail(m)
    PROVE  InboxInv'
  <1> DEFINE counts == IF m.counts = {} THEN summary ELSE CHOOSE s \in m.counts : TRUE
  <1>1. /\ spent' = [spent EXCEPT !.other = @ + 1, !.failed = @ + 1]
        /\ Settle(m, m.cache, counts, fetching)
        /\ UNCHANGED <<server, unpublished, overtaken, events, online, answer, undo, view, stamp>>
    BY DEF Fail
  <1>2. /\ m \in Changes /\ summary \in Counts /\ undo' \in Undos
        /\ fetching \in [Queries -> {"none", "asked", "answered"}]
    BY <1>1 DEF InboxInv, TabTyped, ChangesTyped
  <1>3. m.cache \in Caches /\ counts \in Counts
    BY <1>2 DEF Changes
  <1>4. spent' \in [own : Nat, other : Nat, failed : Nat] /\ spent'.own = spent.own /\ spent'.failed # 0
    <2>1. spent \in [own : Nat, other : Nat, failed : Nat]
      BY DEF InboxInv, ChangesTyped
    <2>2. spent.other + 1 \in Nat /\ spent.failed + 1 \in Nat /\ spent.failed + 1 # 0
      BY <2>1
    <2>3. spent' = [spent EXCEPT !.other = spent.other + 1, !.failed = spent.failed + 1]
      BY <1>1, <2>1
    <2> QED
      BY <2>1, <2>2, <2>3
  <1> HIDE DEF counts
  <1> QED
    BY <1>1, <1>2, <1>3, <1>4, SettleKeeps

-----------------------------------------------------------------------------
(* The steps of the server. *)

\* What the server writes are notifications; it tells of what it wrote.
LEMMA WritesSoundly ==
    ASSUME ServerTyped, NEW kind \in Ways \cup {"create"}, NEW ids \in SUBSET Notes,
           NEW before \in SUBSET Notes, NEW no \in Int
    PROVE  /\ Written(server, kind, ids, before) \in Servers
           /\ Affected(server, kind, ids, before) \in SUBSET Notes
           /\ Told(server, no, kind, ids, before) \in SUBSET Tellings
           /\ Told(server, no, kind, ids, before) = {} =>
                /\ kind = "read all" /\ Written(server, kind, ids, before) = server
  <1> DEFINE affected == Affected(server, kind, ids, before)
  <1>1. affected \in SUBSET Notes
    BY DEF Affected, Here
  <1>2. server \in Servers /\ stamp + 1 \in Nat
    BY DEF ServerTyped
  <1> DEFINE now(n) == IF n \notin affected THEN server[n]
                       ELSE CASE kind \in {"read", "read all"} -> [server[n] EXCEPT !.read = TRUE]
                              [] kind = "unread"    -> [server[n] EXCEPT !.read = FALSE]
                              [] kind = "archive"   ->
                                   [server[n] EXCEPT !.read = TRUE, !.arch = IF @ = 0 THEN stamp + 1 ELSE @]
                              [] kind = "unarchive" -> [server[n] EXCEPT !.arch = 0]
                              [] kind = "create"    -> [server[n] EXCEPT !.here = TRUE]
  <1>3. Written(server, kind, ids, before) = [n \in Notes |-> now(n)]
    BY DEF Written
  <1> HIDE DEF affected
  <1>4. ASSUME NEW n \in Notes
        PROVE  now(n) \in [here : BOOLEAN, read : BOOLEAN, arch : Nat]
    <2>1. server[n] \in [here : BOOLEAN, read : BOOLEAN, arch : Nat]
      BY <1>2 DEF Servers
    <2>2. CASE n \notin affected
      BY <2>1, <2>2
    <2>3. CASE n \in affected /\ kind \in {"read", "read all"}
      BY <2>1, <2>3
    <2>4. CASE n \in affected /\ kind = "unread"
      BY <2>1, <2>4
    <2>5. CASE n \in affected /\ kind = "archive"
      <3>1. now(n) = [server[n] EXCEPT !.read = TRUE,
                                       !.arch = IF server[n].arch = 0 THEN stamp + 1 ELSE server[n].arch]
        BY <2>1, <2>5
      <3> QED
        BY <1>2, <2>1, <3>1
    <2>6. CASE n \in affected /\ kind = "unarchive"
      BY <2>1, <2>6
    <2>7. CASE n \in affected /\ kind = "create"
      BY <2>1, <2>7
    <2> QED
      BY <2>2, <2>3, <2>4, <2>5, <2>6, <2>7 DEF Ways
  <1>5. affected = {} => [n \in Notes |-> now(n)] = server
    BY <1>2 DEF Servers
  <1> HIDE DEF now
  <1>6. Written(server, kind, ids, before) \in Servers
    BY <1>3, <1>4 DEF Servers
  <1>7. /\ Told(server, no, kind, ids, before) \in SUBSET Tellings
        /\ Told(server, no, kind, ids, before) = {} => kind = "read all" /\ affected = {}
    <2>1. CASE kind = "read all" /\ affected = {}
      BY <2>1 DEF Told, affected
    <2>2. CASE kind = "read all" /\ affected # {}
      <3>1. Told(server, no, kind, ids, before) = {Telling(no, TRUE, before)}
        BY <2>2 DEF Told, affected
      <3>2. Telling(no, TRUE, before) \in Tellings
        BY FS_EmptySet DEF Telling, Tellings, Updates, Steps, ReadSoundly
      <3> QED
        BY <3>1, <3>2
    <2>3. CASE kind # "read all"
      <3>1. Told(server, no, kind, ids, before) = {Telling(no, FALSE, ids)}
        BY <2>3 DEF Told
      <3>2. Telling(no, FALSE, ids) \in Tellings
        BY FS_EmptySet DEF Telling, Tellings, Updates, Steps, ReadSoundly
      <3> QED
        BY <3>1, <3>2
    <2> QED
      BY <2>1, <2>2, <2>3
  <1> QED
    BY <1>1, <1>3, <1>5, <1>6, <1>7 DEF affected

\* A change is committed: it is told of, or changed nothing.
LEMMA CommitKeeps ==
    ASSUME InboxInv, NEW m \in changes, Commit(m)
    PROVE  InboxInv'
  <1> USE DEF InboxInv
  <1> DEFINE affected == Affected(server, m.kind, m.ids, m.before)
             told == Told(server, m.no, m.kind, m.ids, m.before)
             new == [m EXCEPT !.phase = IF told = {} THEN "told" ELSE "committed", !.affected = affected]
  <1>1. /\ changes' = (changes \ {m}) \cup {new}
        /\ unpublished' = unpublished \cup told
        /\ server' = Written(server, m.kind, m.ids, m.before)
        /\ stamp' = IF m.kind = "archive" THEN stamp + 1 ELSE stamp
        /\ UNCHANGED <<cache, summary, held, behind, overtaken, events, online, fetching, answer, undo,
                       view, spent>>
    BY DEF Commit
  <1>2. m \in Changes
    BY DEF ChangesTyped
  <1>3. m.kind \in Ways /\ m.ids \in SUBSET Notes /\ m.before \in SUBSET Notes /\ m.no \in Int
    BY <1>2 DEF Changes
  <1>4. /\ server' \in Servers /\ affected \in SUBSET Notes /\ told \in SUBSET Tellings
        /\ told = {} => m.kind = "read all" /\ server' = server
    <2>1. ServerTyped /\ m.kind \in Ways \cup {"create"}
      BY <1>3
    <2> QED
      BY <1>1, <1>3, <2>1, WritesSoundly
  <1>5. /\ new \in Changes /\ new.no = m.no /\ new.ids = m.ids /\ new.kind = m.kind
        /\ new.uncounted = m.uncounted
    <2> HIDE DEF told, affected
    <2> QED
      BY <1>2, <1>4 DEF Changes
  <1> HIDE DEF new, told, affected
  <1>6. ServerTyped'
    <2>1. stamp \in Nat /\ stamp + 1 \in Nat /\ unpublished \in SUBSET Tellings /\ answer \in [Queries -> Servers]
      BY DEF ServerTyped
    <2>2. stamp' \in Nat
      BY <1>1, <2>1
    <2>3. unpublished' \in SUBSET Tellings
      BY <1>1, <1>4, <2>1
    <2> QED
      BY <1>1, <1>4, <2>1, <2>2, <2>3 DEF ServerTyped
  <1>7. TabTyped' /\ EventsTyped'
    BY <1>1 DEF TabTyped, EventsTyped
  <1>8. ChangesTyped'
    <2>1. IsFiniteSet(changes')
      BY <1>1, FS_RemoveElement, FS_AddElement DEF ChangesTyped
    <2>2. changes' \in SUBSET Changes
      BY <1>1, <1>5 DEF ChangesTyped
    <2>3. \A c \in changes' : c.no <= spent'.own /\ (c.kind = "read all" => c.uncounted)
      BY <1>1, <1>5 DEF ChangesTyped
    <2>4. ASSUME NEW c \in changes', NEW o \in changes', c.no = o.no
          PROVE  c = o
      <3>1. \A k, l \in changes : k.no = l.no => k = l
        BY DEF ChangesTyped
      <3>2. \A k \in changes \ {m} : k.no # new.no
        BY <1>5, <3>1
      <3>3. (c = new \/ c \in changes \ {m}) /\ (o = new \/ o \in changes \ {m})
        BY <1>1
      <3> QED
        BY <2>4, <3>1, <3>2, <3>3
    <2> QED
      BY <1>1, <2>1, <2>2, <2>3, <2>4 DEF ChangesTyped
  <1>9. HeldByChanges'
    <2>1. \A n \in Notes : Holders(changes', n) = Holders(changes, n)
      BY <1>1, <1>5 DEF Holders
    <2> QED
      BY <1>1, <2>1 DEF HeldByChanges, SomeHeld
  <1>10. LastOnesTrue'
    BY <1>1, <1>4 DEF LastOnesTrue
  <1>11. CountsCome'
    <2>1. CASE told # {}
      BY <1>1, <2>1 DEF CountsCome
    <2>2. CASE told = {}
      <3>1. new.uncounted /\ new \in changes'
        BY <1>1, <1>4, <1>5, <2>2 DEF ChangesTyped
      <3> QED
        BY <3>1 DEF CountsCome
    <2> QED
      BY <2>1, <2>2
  <1> QED
    BY <1>6, <1>7, <1>8, <1>9, <1>10, <1>11

LEMMA ElsewhereKeeps ==
    ASSUME InboxInv, NEW kind \in Ways \cup {"create"}, NEW ids \in SUBSET Notes, ChangeElsewhere(kind, ids)
    PROVE  InboxInv'
  <1> USE DEF InboxInv
  <1> DEFINE told == Told(server, 0 - spent.other, kind, ids, Here(server))
  <1>1. /\ spent' = [spent EXCEPT !.other = @ + 1]
        /\ server' = Written(server, kind, ids, Here(server))
        /\ unpublished' = unpublished \cup told
        /\ stamp' = IF kind = "archive" THEN stamp + 1 ELSE stamp
        /\ UNCHANGED <<cache, summary, held, behind, changes, overtaken, events, online, fetching,
                       answer, undo, view>>
    BY DEF ChangeElsewhere, Use
  <1>2. /\ spent \in [own : Nat, other : Nat, failed : Nat] /\ spent.other + 1 \in Nat
        /\ 0 - spent.other \in Int /\ Here(server) \in SUBSET Notes
    <2>1. spent \in [own : Nat, other : Nat, failed : Nat]
      BY DEF ChangesTyped
    <2>2. spent.other \in Nat
      BY <2>1
    <2> QED
      BY <2>1, <2>2 DEF Here
  <1>3. /\ server' \in Servers /\ told \in SUBSET Tellings
        /\ told = {} => server' = server
    BY <1>1, <1>2, WritesSoundly
  <1> HIDE DEF told
  <1>4. ServerTyped'
    BY <1>1, <1>3 DEF ServerTyped
  <1>5. TabTyped' /\ EventsTyped' /\ HeldByChanges'
    BY <1>1 DEF TabTyped, EventsTyped, HeldByChanges, SomeHeld
  <1>6. spent' \in [own : Nat, other : Nat, failed : Nat] /\ spent'.own = spent.own /\ spent'.failed = spent.failed
    <2>1. spent' = [spent EXCEPT !.other = spent.other + 1]
      BY <1>1, <1>2
    <2> QED
      BY <1>2, <2>1
  <1>7. ChangesTyped'
    BY <1>1, <1>6 DEF ChangesTyped
  <1>8. LastOnesTrue'
    BY <1>1, <1>3 DEF LastOnesTrue
  <1>9. CountsCome'
    BY <1>1, <1>3, <1>6 DEF CountsCome
  <1> QED
    BY <1>4, <1>5, <1>7, <1>8, <1>9

\* The rows and the counts of an update are read.
LEMMA ReadingKeeps ==
    ASSUME InboxInv, NEW u \in unpublished, get_many(u) \/ load_summary(u)
    PROVE  InboxInv'
  <1> USE DEF InboxInv
  <1>1. u \in Updates /\ ReadSoundly(u) /\ server \in Servers
    BY DEF ServerTyped, Tellings
  <1>2. ASSUME NEW v \in Tellings, Progress(u, v)
        PROVE  InboxInv'
    <2>1. /\ unpublished' = (unpublished \ {u}) \cup {v}
          /\ UNCHANGED <<server, cache, summary, held, behind, changes, overtaken, events, online,
                         fetching, answer, undo, view, spent, stamp>>
      BY <1>2 DEF Progress
    <2>2. ServerTyped'
      BY <1>2, <2>1 DEF ServerTyped
    <2>3. TabTyped' /\ EventsTyped' /\ ChangesTyped' /\ HeldByChanges'
      BY <2>1 DEF TabTyped, EventsTyped, ChangesTyped, HeldByChanges, SomeHeld
    <2>4. unpublished # {} /\ unpublished' # {}
      BY <2>1
    <2>5. LastOnesTrue' /\ CountsCome'
      BY <2>1, <2>4 DEF LastOnesTrue, CountsCome
    <2> QED
      BY <2>2, <2>3, <2>5
  <1>3. ASSUME get_many(u) PROVE InboxInv'
    <2> DEFINE copies == {CopyOf(server, n) : n \in u.ids}
               v == [u EXCEPT !.step = "count", !.rows = copies]
    <2>1. copies \in SUBSET Copy /\ IsFiniteSet(copies) /\ \A a, b \in copies : a.id = b.id => a = b
      BY <1>1, CopiesOfServer DEF Updates
    <2>2. Progress(u, v) /\ u.step = "read"
      BY <1>3 DEF get_many
    <2> HIDE DEF copies
    <2>3. v \in Updates /\ v.rows = copies /\ v.readAll = u.readAll /\ v.step = "count"
      BY <1>1, <2>1 DEF Updates, Steps
    <2>4. v \in Tellings
      BY <1>1, <2>1, <2>2, <2>3 DEF Tellings, ReadSoundly
    <2> QED
      BY <1>2, <2>2, <2>4
  <1>4. ASSUME load_summary(u) PROVE InboxInv'
    <2> DEFINE v == [u EXCEPT !.step = "send", !.counts = {count_unread(server)}]
    <2>1. Progress(u, v) /\ u.step = "count"
      BY <1>4 DEF load_summary
    <2>2. count_unread(server) \in Counts
      BY ServerCounts
    <2>3. /\ v \in Updates /\ v.rows = u.rows /\ v.readAll = u.readAll /\ v.step = "send"
          /\ v.counts # {}
      BY <1>1, <2>2 DEF Updates, Steps
    <2>4. v \in Tellings
      BY <1>1, <2>3 DEF Tellings, ReadSoundly
    <2> QED
      BY <1>2, <2>1, <2>4
  <1> QED
    BY <1>3, <1>4

\* The handler is done with an update.
LEMMA DoneKeeps ==
    ASSUME InboxInv, NEW u \in unpublished, Done(u), overtaken' \in BOOLEAN,
           spent' \in [own : Nat, other : Nat, failed : Nat], spent'.own = spent.own
    PROVE  ServerTyped' /\ TabTyped' /\ ChangesTyped' /\ HeldByChanges'
  <1> USE DEF InboxInv
  <1> DEFINE heard(m) == IF m.no = u.no THEN [m EXCEPT !.phase = "told"] ELSE m
  <1>1. /\ unpublished' = unpublished \ {u}
        /\ changes' = {heard(m) : m \in changes}
        /\ UNCHANGED <<server, cache, summary, held, behind, online, fetching, answer, undo, view, stamp>>
    BY DEF Done
  <1>4. \A m \in changes : /\ heard(m) \in Changes /\ heard(m).no = m.no /\ heard(m).ids = m.ids
                           /\ heard(m).kind = m.kind /\ heard(m).uncounted = m.uncounted
    <2> SUFFICES ASSUME NEW m \in changes
                 PROVE  /\ heard(m) \in Changes /\ heard(m).no = m.no /\ heard(m).ids = m.ids
                        /\ heard(m).kind = m.kind /\ heard(m).uncounted = m.uncounted
      OBVIOUS
    <2>1. m \in Changes
      BY DEF ChangesTyped
    <2> QED
      BY <2>1 DEF Changes
  <1> HIDE DEF heard
  <1>5. ChangesTyped'
    <2>1. IsFiniteSet(changes')
      <3> DEFINE f == [m \in changes |-> heard(m)]
      <3>1. DOMAIN f = changes /\ IsFiniteSet(changes)
        BY DEF ChangesTyped
      <3>2. changes' = {f[m] : m \in changes}
        BY <1>1
      <3> HIDE DEF f
      <3> QED
        BY <3>1, <3>2, FiniteImage
    <2>2. changes' \in SUBSET Changes
      BY <1>1, <1>4
    <2>3. ASSUME NEW c \in changes'
          PROVE  c.no <= spent'.own /\ (c.kind = "read all" => c.uncounted)
      <3>1. PICK m \in changes : c = heard(m)
        BY <1>1
      <3>2. m.no <= spent.own /\ (m.kind = "read all" => m.uncounted)
        BY DEF ChangesTyped
      <3> QED
        BY <1>1, <1>4, <3>1, <3>2
    <2>4. ASSUME NEW c \in changes', NEW o \in changes', c.no = o.no
          PROVE  c = o
      <3>1. PICK m \in changes : c = heard(m)
        BY <1>1
      <3>2. PICK k \in changes : o = heard(k)
        BY <1>1
      <3>3. m.no = k.no
        BY <1>4, <2>4, <3>1, <3>2
      <3>4. m = k
        BY <3>3 DEF ChangesTyped
      <3> QED
        BY <3>1, <3>2, <3>4
    <2> QED
      BY <1>1, <2>1, <2>2, <2>3, <2>4 DEF ChangesTyped
  <1>6. HeldByChanges'
    <2>1. \A n \in Notes : Holders(changes', n) = Holders(changes, n)
      BY <1>1, <1>4 DEF Holders
    <2> QED
      BY <1>1, <2>1 DEF HeldByChanges, SomeHeld
  <1>7. ServerTyped' /\ TabTyped'
    BY <1>1 DEF ServerTyped, TabTyped
  <1> QED
    BY <1>5, <1>6, <1>7

\* An update is sent, with the counts it read.
LEMMA PublishKeeps ==
    ASSUME InboxInv, NEW u \in unpublished, publish(u)
    PROVE  InboxInv'
  <1> USE DEF InboxInv
  <1> DEFINE counts == CHOOSE c \in u.counts : TRUE
             event == [upserted |-> u.rows, readAll |-> IF u.readAll THEN u.ids ELSE {}, summary |-> counts]
  <1>1. /\ Done(u) /\ u.step = "send"
        /\ events' = IF online THEN Append(events, event) ELSE events
        /\ overtaken' = (counts # count_unread(server))
        /\ UNCHANGED spent
    BY DEF publish
  <1>2. u \in Updates /\ ReadSoundly(u)
    BY DEF ServerTyped, Tellings
  <1>3. event \in Events /\ OneWord(event) /\ event.summary = counts
    <2>1. counts \in Counts
      BY <1>1, <1>2 DEF Updates, ReadSoundly
    <2> HIDE DEF counts
    <2> QED
      BY <1>2, <2>1 DEF Updates, ReadSoundly, Events, OneWord
  <1> HIDE DEF event, counts
  <1>4. ServerTyped' /\ TabTyped' /\ ChangesTyped' /\ HeldByChanges'
    <2>1. spent \in [own : Nat, other : Nat, failed : Nat]
      BY DEF ChangesTyped
    <2> QED
      BY <1>1, <2>1, DoneKeeps
  <1>5. UNCHANGED <<server, behind, online, fetching, answer, summary>>
    BY <1>1 DEF Done
  <1>6. CASE ~online
    <2>1. events = <<>> /\ events' = events
      BY <1>1, <1>6 DEF LastOnesTrue
    <2>2. EventsTyped' /\ LastOnesTrue' /\ CountsCome'
      BY <1>5, <1>6, <2>1 DEF EventsTyped, LastOnesTrue, CountsCome
    <2> QED
      BY <1>4, <2>2
  <1>7. CASE online
    <2>1. events \in Seq(Events) /\ \A i \in DOMAIN events : OneWord(events[i])
      BY DEF EventsTyped
    <2>2. /\ events' \in Seq(Events) /\ Len(events') = Len(events) + 1 /\ Len(events) \in Nat
          /\ \A i \in 1..Len(events) : events'[i] = events[i]
          /\ events'[Len(events) + 1] = event
      BY <1>1, <1>3, <1>7, <2>1, AppendProperties
    <2>3. events' # <<>>
      BY <2>2
    <2>4. DOMAIN events = 1..Len(events) /\ DOMAIN events' = 1..(Len(events) + 1)
      BY <2>1, <2>2
    <2>5. EventsTyped'
      <3>1. ASSUME NEW i \in DOMAIN events'
            PROVE  OneWord(events'[i])
        <4>1. i \in DOMAIN events \/ i = Len(events) + 1
          BY <2>2, <2>4
        <4> QED
          BY <1>3, <2>1, <2>2, <2>4, <4>1
      <3> QED
        BY <2>2, <3>1 DEF EventsTyped
    <2>6. LastOnesTrue' /\ CountsCome'
      BY <1>1, <1>3, <1>5, <1>7, <2>2, <2>3 DEF LastOnesTrue, CountsCome
    <2> QED
      BY <1>4, <2>5, <2>6
  <1> QED
    BY <1>6, <1>7 DEF TabTyped

\* An update is dropped.
LEMMA DropKeeps ==
    ASSUME InboxInv, NEW u \in unpublished, Drop(u)
    PROVE  InboxInv'
  <1> USE DEF InboxInv
  <1>1. /\ Done(u) /\ overtaken' = TRUE /\ UNCHANGED <<events, online>>
        /\ spent' = [spent EXCEPT !.other = @ + 1]
    BY DEF Drop, Done, Use
  <1>2. /\ spent' \in [own : Nat, other : Nat, failed : Nat] /\ spent'.own = spent.own
    <2>1. spent \in [own : Nat, other : Nat, failed : Nat]
      BY DEF ChangesTyped
    <2>2. spent.other + 1 \in Nat
      BY <2>1
    <2>3. spent' = [spent EXCEPT !.other = spent.other + 1]
      BY <1>1, <2>1
    <2> QED
      BY <2>1, <2>2, <2>3
  <1>3. ServerTyped' /\ TabTyped' /\ ChangesTyped' /\ HeldByChanges'
    BY <1>1, <1>2, DoneKeeps
  <1>4. EventsTyped' /\ LastOnesTrue' /\ CountsCome'
    BY <1>1 DEF EventsTyped, LastOnesTrue, CountsCome
  <1> QED
    BY <1>3, <1>4

-----------------------------------------------------------------------------
(* What the tab hears and fetches. *)

\* What is taken of the next message: what no change of this tab holds, in two ways.
Message == Head(events)
Arriving == {c \in Message.upserted : held[c.id] = 0}
Staying == {c \in Arriving : Known(cache, c.id) /\ cachedNotification(cache, c.id).arch = c.arch}
Moving == Arriving \ Staying

\* The rows after a message.
LEMMA ReceivedRows ==
    ASSUME InboxInv, receiveInboxUpdate
    PROVE  /\ Message \in Events /\ Message = events[1] /\ OneWord(Message)
           /\ Arriving \in SUBSET Copy /\ Staying \in SUBSET Copy /\ Moving \in SUBSET Copy
           /\ cache' \in Caches /\ TakenRows(cache, Moving, Staying, Message.readAll, cache')
  <1>1. events # <<>> /\ events \in Seq(Events) /\ \A i \in DOMAIN events : OneWord(events[i])
    BY DEF receiveInboxUpdate, InboxInv, EventsTyped
  <1>2. Message \in Events /\ Message = events[1] /\ OneWord(Message)
    <2>1. Head(events) = events[1] /\ 1 \in DOMAIN events /\ Head(events) \in Events
      BY <1>1, ElementsOfTail
    <2> QED
      BY <1>1, <2>1 DEF Message
  <1>3. Arriving \in SUBSET Message.upserted /\ Staying \in SUBSET Arriving /\ Moving \in SUBSET Arriving
    BY DEF Arriving, Staying, Moving
  <1>4. Message.upserted \in SUBSET Copy /\ IsFiniteSet(Message.upserted)
        /\ \A a, b \in Message.upserted : a.id = b.id => a = b
    BY <1>2 DEF Events, OneWord
  <1>5. /\ Arriving \in SUBSET Copy /\ Staying \in SUBSET Copy /\ Moving \in SUBSET Copy
        /\ IsFiniteSet(Moving) /\ \A a, b \in Moving : a.id = b.id => a = b
    BY <1>3, <1>4, FS_Subset
  <1>6. cache' = readAllInPlace(
                   replaceInPlace([q \in Places |-> placeEach(q, cache[q], SetToSeq(Moving))], Staying),
                   Message.readAll)
    BY DEF receiveInboxUpdate, Message, Arriving, Staying, Moving
  <1>7. cache \in Caches
    BY DEF InboxInv, TabTyped
  <1> DEFINE new == cache'
  <1>8. new \in Caches /\ TakenRows(cache, Moving, Staying, Message.readAll, new)
    <2> HIDE DEF new
    <2>1. new = readAllInPlace(
                   replaceInPlace([q \in Places |-> placeEach(q, cache[q], SetToSeq(Moving))], Staying),
                   Message.readAll)
      BY <1>6 DEF new
    <2> QED
      BY <1>5, <1>7, <2>1, TakenIsCache
  <1> QED
    BY <1>2, <1>5, <1>8

\* A message is taken: its counts, or the note that they are behind.
LEMMA ReceiveKeeps ==
    ASSUME InboxInv, receiveInboxUpdate
    PROVE  InboxInv'
  <1> USE DEF InboxInv
  <1> DEFINE e == Message
  <1>1. /\ events # <<>>
        /\ summary' = IF SomeHeld THEN summary ELSE e.summary
        /\ fetching' = IF SomeHeld THEN fetching ELSE [fetching EXCEPT !["summary"] = "none"]
        /\ behind' = (behind \/ SomeHeld)
        /\ events' = Tail(events)
        /\ UNCHANGED <<server, held, changes, unpublished, overtaken, online, answer, undo, view, spent, stamp>>
    BY DEF receiveInboxUpdate, cancelSummary, Message
  <1>2. events \in Seq(Events) /\ \A i \in DOMAIN events : OneWord(events[i])
    BY DEF EventsTyped
  <1>3. e \in Events /\ e = events[1]
    BY ReceivedRows
  <1> HIDE DEF e
  <1>4. cache' \in Caches
    BY ReceivedRows
  <1>5. TabTyped'
    <2>1. summary' \in Counts /\ fetching' \in [Queries -> {"none", "asked", "answered"}]
      BY <1>1, <1>3 DEF TabTyped, Events
    <2>2. behind' \in BOOLEAN
      BY <1>1 DEF TabTyped, SomeHeld
    <2> QED
      BY <1>1, <1>4, <2>1, <2>2 DEF TabTyped
  <1>6. ServerTyped' /\ ChangesTyped'
    BY <1>1 DEF ServerTyped, ChangesTyped
  <1>7. HeldByChanges'
    BY <1>1 DEF HeldByChanges, SomeHeld
  <1>8. /\ events' \in Seq(Events) /\ Len(events') = Len(events) - 1 /\ Len(events) \in Nat /\ Len(events) # 0
        /\ DOMAIN events = 1..Len(events) /\ DOMAIN events' = 1..(Len(events) - 1)
        /\ \A i \in 1..(Len(events) - 1) : events'[i] = events[i + 1]
    BY <1>1, <1>2
  <1>9. EventsTyped'
    <2>1. \A i \in DOMAIN events' : i + 1 \in DOMAIN events /\ events'[i] = events[i + 1]
      BY <1>8
    <2> QED
      BY <1>2, <1>8, <2>1 DEF EventsTyped
  <1>10. LastOnesTrue'
    <2>1. ~online => events' = <<>>
      BY <1>1 DEF LastOnesTrue
    <2>2. ASSUME events' # <<>>
          PROVE  events'[Len(events')] = events[Len(events)]
      <3>1. Len(events) - 1 \in 1..(Len(events) - 1)
        BY <1>8, <2>2
      <3> QED
        BY <1>8, <3>1
    <2> QED
      BY <1>1, <2>1, <2>2 DEF LastOnesTrue
  <1>11. CountsCome'
    <2>1. CASE SomeHeld
      BY <1>1, <2>1 DEF CountsCome
    <2>2. CASE events' # <<>> \/ unpublished # {} \/ overtaken
      BY <1>1, <2>2 DEF CountsCome
    <2>3. CASE ~SomeHeld /\ events' = <<>> /\ unpublished = {} /\ ~overtaken
      <3>1. Len(events) = 1
        <4>1. Len(events') = 0
          BY <2>3
        <4> QED
          BY <1>8, <4>1
      <3>2. e.summary = count_unread(server)
        BY <1>1, <1>3, <2>3, <3>1 DEF LastOnesTrue
      <3>3. "summary" \in Queries
        BY DEF Queries
      <3>4. fetching'["summary"] = "none" /\ summary' = count_unread(server)
        BY <1>1, <2>3, <3>2, <3>3 DEF TabTyped
      <3> QED
        BY <1>1, <3>4 DEF CountsCome
    <2> QED
      BY <2>1, <2>2, <2>3
  <1> QED
    BY <1>5, <1>6, <1>7, <1>9, <1>10, <1>11

\* A connection comes and goes, a tab is opened, the server answers.
LEMMA LinkKeeps ==
    ASSUME InboxInv, Disconnect \/ Rejoin \/ (\E v \in Views : Open(v)) \/ (\E q \in Queries : AnswerFetch(q))
    PROVE  InboxInv'
  <1> USE DEF InboxInv
  <1>1. /\ spent \in [own : Nat, other : Nat, failed : Nat] /\ spent.other + 1 \in Nat
        /\ [spent EXCEPT !.other = @ + 1] \in [own : Nat, other : Nat, failed : Nat]
        /\ [spent EXCEPT !.other = @ + 1].own = spent.own
        /\ [spent EXCEPT !.other = @ + 1].failed = spent.failed
    <2>1. spent \in [own : Nat, other : Nat, failed : Nat]
      BY DEF ChangesTyped
    <2>2. spent.other + 1 \in Nat
      BY <2>1
    <2>3. [spent EXCEPT !.other = @ + 1] = [spent EXCEPT !.other = spent.other + 1]
      BY <2>1
    <2> QED
      BY <2>1, <2>2, <2>3
  <1>2. "summary" \in Queries /\ \A v \in Views : "summary" \notin Active(v)
    BY DEF Queries, Views, Active
  <1>3. ASSUME Disconnect PROVE InboxInv'
    <2>1. /\ spent' = [spent EXCEPT !.other = @ + 1]
          /\ online' = FALSE /\ events' = <<>>
          /\ UNCHANGED <<server, cache, summary, held, behind, changes, unpublished, overtaken, fetching, answer,
                         undo, view, stamp>>
      BY <1>3 DEF Disconnect, Use
    <2>2. ServerTyped' /\ TabTyped' /\ HeldByChanges' /\ LastOnesTrue' /\ CountsCome'
      BY <2>1 DEF ServerTyped, TabTyped, HeldByChanges, SomeHeld, LastOnesTrue, CountsCome
    <2>3. ChangesTyped'
      BY <1>1, <2>1 DEF ChangesTyped
    <2>4. EventsTyped'
      BY <2>1 DEF EventsTyped
    <2> QED
      BY <2>2, <2>3, <2>4
  <1>4. ASSUME Rejoin PROVE InboxInv'
    <2>1. /\ ~online /\ online' = TRUE /\ overtaken' = FALSE
          /\ fetching' = [q \in Queries |-> IF q \in Active(view) \cup {"summary"} THEN "asked" ELSE fetching[q]]
          /\ UNCHANGED <<server, cache, summary, held, behind, changes, unpublished, events, answer,
                         undo, view, spent, stamp>>
      BY <1>4 DEF Rejoin
    <2>2. fetching' \in [Queries -> {"none", "asked", "answered"}] /\ fetching'["summary"] = "asked"
      BY <1>2, <2>1 DEF TabTyped
    <2>3. ServerTyped' /\ EventsTyped' /\ ChangesTyped' /\ HeldByChanges' /\ LastOnesTrue'
      <3>1. events' = <<>>
        BY <2>1 DEF LastOnesTrue
      <3> QED
        BY <2>1, <3>1 DEF ServerTyped, EventsTyped, ChangesTyped, HeldByChanges, SomeHeld, LastOnesTrue
    <2>4. TabTyped' /\ CountsCome'
      BY <2>1, <2>2 DEF TabTyped, CountsCome
    <2> QED
      BY <2>3, <2>4
  <1>5. ASSUME NEW v \in Views, Open(v) PROVE InboxInv'
    <2>1. /\ spent' = [spent EXCEPT !.other = @ + 1]
          /\ view' = v
          /\ fetching' = [q \in Queries |-> IF q \in Active(v) THEN "asked" ELSE
                             IF q \in Active(view) THEN "none" ELSE fetching[q]]
          /\ UNCHANGED <<server, cache, summary, held, behind, changes, unpublished, overtaken, events, online,
                         answer, undo, stamp>>
      BY <1>5 DEF Open, Use
    <2>2. fetching' \in [Queries -> {"none", "asked", "answered"}] /\ fetching'["summary"] = fetching["summary"]
      BY <1>2, <2>1 DEF TabTyped
    <2>3. ServerTyped' /\ EventsTyped' /\ HeldByChanges' /\ LastOnesTrue'
      BY <2>1 DEF ServerTyped, EventsTyped, HeldByChanges, SomeHeld, LastOnesTrue
    <2>4. TabTyped'
      BY <2>1, <2>2 DEF TabTyped
    <2>5. ChangesTyped'
      BY <1>1, <2>1 DEF ChangesTyped
    <2>6. CountsCome'
      BY <1>1, <2>1, <2>2 DEF CountsCome
    <2> QED
      BY <2>3, <2>4, <2>5, <2>6
  <1>6. ASSUME NEW q \in Queries, AnswerFetch(q) PROVE InboxInv'
    <2>1. /\ fetching[q] = "asked"
          /\ fetching' = [fetching EXCEPT ![q] = "answered"]
          /\ answer' = [answer EXCEPT ![q] = server]
          /\ UNCHANGED <<server, cache, summary, held, behind, changes, unpublished, overtaken, events, online,
                         undo, view, spent, stamp>>
      BY <1>6 DEF AnswerFetch
    <2>2. fetching' \in [Queries -> {"none", "asked", "answered"}] /\ answer' \in [Queries -> Servers]
      BY <2>1 DEF TabTyped, ServerTyped
    <2>3. EventsTyped' /\ ChangesTyped' /\ HeldByChanges' /\ LastOnesTrue'
      BY <2>1 DEF EventsTyped, ChangesTyped, HeldByChanges, SomeHeld, LastOnesTrue
    <2>4. ServerTyped' /\ TabTyped'
      BY <2>1, <2>2 DEF ServerTyped, TabTyped
    <2>5. CASE q = "summary"
      <3>1. fetching'["summary"] = "answered" /\ answer'["summary"] = server
        BY <1>2, <2>1, <2>5 DEF TabTyped, ServerTyped
      <3> QED
        BY <2>1, <2>3, <2>4, <3>1 DEF CountsCome
    <2>6. CASE q # "summary"
      <3>1. fetching'["summary"] = fetching["summary"] /\ answer'["summary"] = answer["summary"]
        BY <1>2, <2>1, <2>6 DEF TabTyped, ServerTyped
      <3>2. CountsCome'
        BY <2>1, <3>1 DEF CountsCome
      <3> QED
        BY <2>3, <2>4, <3>2
    <2> QED
      BY <2>5, <2>6
  <1> QED
    BY <1>3, <1>4, <1>5, <1>6

\* An answer replaces what its query had.
LEMMA FetchedKeeps ==
    ASSUME InboxInv, NEW q \in Queries, Fetched(q)
    PROVE  InboxInv'
  <1> USE DEF InboxInv
  <1>1. /\ fetching[q] = "answered"
        /\ fetching' = [fetching EXCEPT ![q] = "none"]
        /\ cache' = IF q \in Places THEN [cache EXCEPT ![q] = list(answer[q], q)] ELSE cache
        /\ summary' = IF q = "summary" THEN count_unread(answer[q]) ELSE summary
        /\ answer' = [answer EXCEPT ![q] = NoAnswer]
        /\ UNCHANGED <<server, held, behind, changes, unpublished, overtaken, events, online, undo, view,
                       spent, stamp>>
    BY DEF Fetched
  <1>2. answer[q] \in Servers /\ NoAnswer \in Servers
    BY DEF ServerTyped, Servers, NoAnswer
  <1>3. cache' \in Caches
    <2>1. CASE q \in Places
      <3>1. list(answer[q], q) \in Lists(q) /\ list(answer[q], q) \in Seq(Copy)
        BY <1>2, <2>1, AnswerIsList DEF Lists
      <3>2. cache \in Caches /\ cache' = [cache EXCEPT ![q] = list(answer[q], q)]
        BY <1>1, <2>1 DEF TabTyped
      <3> DEFINE l == list(answer[q], q)
      <3> HIDE DEF l
      <3>3. l \in Lists(q) /\ l \in Seq(Copy) /\ cache' = [cache EXCEPT ![q] = l]
        BY <3>1, <3>2 DEF l
      <3>4. cache' \in [Places -> Seq(Copy)]
        BY <3>2, <3>3 DEF Caches
      <3>5. \A p \in Places : cache'[p] \in Lists(p)
        BY <2>1, <3>2, <3>3 DEF Caches
      <3> QED
        BY <3>4, <3>5 DEF Caches
    <2> QED
      BY <1>1, <2>1 DEF TabTyped
  <1>4. summary' \in Counts
    BY <1>1, ServerCounts DEF TabTyped
  <1>5. fetching' \in [Queries -> {"none", "asked", "answered"}] /\ answer' \in [Queries -> Servers]
    BY <1>1, <1>2 DEF TabTyped, ServerTyped
  <1>6. TabTyped' /\ ServerTyped'
    BY <1>1, <1>3, <1>4, <1>5 DEF TabTyped, ServerTyped
  <1>7. EventsTyped' /\ ChangesTyped' /\ HeldByChanges' /\ LastOnesTrue'
    BY <1>1 DEF EventsTyped, ChangesTyped, HeldByChanges, SomeHeld, LastOnesTrue
  <1>8. "summary" \in Queries
    BY DEF Queries
  <1>9. CASE q = "summary"
    <2>1. fetching'["summary"] = "none" /\ summary' = count_unread(answer["summary"]) /\ fetching["summary"] = "answered"
      BY <1>1, <1>8, <1>9 DEF TabTyped
    <2>2. CountsCome'
      BY <1>1, <2>1 DEF CountsCome
    <2> QED
      BY <1>6, <1>7, <2>2
  <1>10. CASE q # "summary"
    <2>1. /\ fetching'["summary"] = fetching["summary"] /\ summary' = summary
          /\ answer'["summary"] = answer["summary"]
      BY <1>1, <1>8, <1>10 DEF TabTyped, ServerTyped
    <2>2. CountsCome'
      BY <1>1, <2>1 DEF CountsCome
    <2> QED
      BY <1>6, <1>7, <2>2
  <1> QED
    BY <1>9, <1>10

-----------------------------------------------------------------------------

LEMMA InboxBegins == Init => InboxInv
  <1> SUFFICES ASSUME Init PROVE InboxInv
    OBVIOUS
  <1>1. server \in Servers
    BY DEF Init, Servers
  <1>2. stamp \in Nat
    <2> DEFINE some == Notes \cup {0}
    <2>1. some \in SUBSET Nat /\ IsFiniteSet(some) /\ some # {}
      BY NotesAssumption, FS_AddElement
    <2> HIDE DEF some
    <2>2. \E greatest \in some : \A i \in some : i <= greatest
      BY <2>1, LeastAndGreatest
    <2>3. \E greatest \in some : \A i \in some : greatest >= i
      BY <2>1, <2>2
    <2>4. Max(some) \in some
      BY <2>3 DEF Max
    <2> QED
      BY <2>1, <2>4 DEF Init, some
  <1>3. ServerTyped
    <2>1. answer \in [Queries -> Servers]
      BY DEF Init, Servers, NoAnswer
    <2> QED
      BY <1>1, <1>2, <2>1 DEF Init, ServerTyped
  <1>4. cache \in Caches
    <2>1. \A q \in Places : list(server, q) \in Lists(q) /\ list(server, q) \in Seq(Copy)
      BY <1>1, AnswerIsList DEF Lists
    <2> QED
      BY <2>1 DEF Init, Caches
  <1>5. TabTyped
    <2>1. summary \in Counts
      BY ServerCounts DEF Init
    <2>2. undo \in Undos /\ view \in Views
      BY DEF Init, Undos, Views
    <2> QED
      BY <1>4, <2>1, <2>2 DEF Init, TabTyped
  <1>6. EventsTyped /\ LastOnesTrue /\ CountsCome
    <2>1. fetching["summary"] = "none"
      BY DEF Init, Queries
    <2> QED
      BY <2>1 DEF Init, EventsTyped, LastOnesTrue, CountsCome
  <1>7. ChangesTyped
    BY FS_EmptySet DEF Init, ChangesTyped
  <1>8. HeldByChanges
    <2>1. \A n : Holders(changes, n) = {}
      BY DEF Init, Holders
    <2> QED
      BY <2>1, FS_EmptySet DEF Init, HeldByChanges
  <1> QED
    BY <1>3, <1>5, <1>6, <1>7, <1>8 DEF InboxInv

LEMMA InboxKeeps == InboxInv /\ [Next]_vars => InboxInv'
  <1> SUFFICES ASSUME InboxInv, [Next]_vars PROVE InboxInv'
    OBVIOUS
  <1>1. CASE UNCHANGED vars
    BY <1>1 DEF vars, InboxInv, ServerTyped, TabTyped, EventsTyped, ChangesTyped, HeldByChanges, SomeHeld,
                LastOnesTrue, CountsCome
  <1>2. ASSUME NEW n \in Notes, NEW kind \in {"read", "unread", "archive", "unarchive", "create"},
               ChangeElsewhere(kind, {n})
        PROVE  InboxInv'
    <2>1. kind \in Ways \cup {"create"} /\ {n} \in SUBSET Notes
      BY DEF Ways
    <2> QED
      BY <1>2, <2>1, ElsewhereKeeps
  <1>3. ASSUME ChangeElsewhere("read all", {}) PROVE InboxInv'
    <2>1. "read all" \in Ways \cup {"create"} /\ {} \in SUBSET Notes
      BY DEF Ways
    <2> QED
      BY <1>3, <2>1, ElsewhereKeeps
  <1> QED
    BY <1>1, <1>2, <1>3, ActsKeep, CommitKeeps, SucceedKeeps, FailKeeps, ReadingKeeps, PublishKeeps,
       DropKeeps, ReceiveKeeps, LinkKeeps, FetchedKeeps DEF Next

LEMMA InboxShows == InboxInv => ShownAgrees
  <1> SUFFICES ASSUME InboxInv PROVE ShownAgrees
    OBVIOUS
  <1> USE DEF InboxInv
  <1>1. \A q \in Places : cache[q] \in Lists(q) /\ cache[q] \in Seq(Copy)
    BY DEF TabTyped, Caches
  <1>2. TypeOK
    <2>1. \A q \in Places : Range(cache[q]) \subseteq Copy
      BY <1>1 DEF Range
    <2> QED
      BY <2>1 DEF TabTyped, TypeOK, Counts
  <1>3. ListsInOrder
    BY <1>1 DEF ListsInOrder, Lists, Ordered, Before
  <1>4. CountsAreTrue
    <2>1. changes = {} => ~behind
      <3> SUFFICES ASSUME changes = {}, behind PROVE FALSE
        OBVIOUS
      <3>1. PICK n \in Notes : held[n] > 0
        BY DEF HeldByChanges, SomeHeld
      <3>2. Holders(changes, n) = {}
        BY DEF Holders
      <3>3. held[n] = 0
        BY <3>2, FS_EmptySet DEF HeldByChanges
      <3> QED
        BY <3>1, <3>3
    <2> QED
      BY <2>1 DEF CountsAreTrue, CountsCome
  <1> QED
    BY <1>2, <1>3, <1>4 DEF ShownAgrees

\* Whatever this tab changes, however its changes, what comes from elsewhere and the answers overlap,
\* the tab's lists have each notification once, newest first but in the archive, and with nothing on
\* its way and after no failure its counts are the server's, unless the last update was dropped or
\* counted before another change and sent after it (shared/inbox/cache.ts, notifications/updates.rs).
THEOREM CountsComeTrue == Spec => []ShownAgrees
  <1> QED
    BY InboxBegins, InboxKeeps, InboxShows, PTL DEF Spec

-----------------------------------------------------------------------------
(* What a message does to the rows. *)

\* A copy after a message.
Says(c) == ReadIf(Message.readAll, Said(Staying, c))

LEMMA SaysOfTheSame ==
    ASSUME InboxInv, receiveInboxUpdate, NEW c \in Copy
    PROVE  /\ Says(c) \in Copy /\ Says(c).id = c.id
           /\ held[c.id] # 0 => Says(c) = c
           /\ (\A s \in Staying : s.id # c.id) => Says(c).arch = c.arch
           /\ (\A s \in Staying : s.id # c.id) /\ Message.upserted # {} => Says(c) = c
           /\ \A s \in Staying : s.id = c.id => Says(c) = s
  <1>1. Staying \in SUBSET Copy /\ OneWord(Message)
    BY ReceivedRows
  <1> DEFINE d == Said(Staying, c)
  <1>2. d \in Copy /\ d.id = c.id
    BY <1>1, SaidOfTheSame
  <1>3. Says(c) = ReadIf(Message.readAll, d)
    BY DEF Says
  <1>4. (\A s \in Staying : s.id # c.id) => d = c
    BY DEF Said
  <1>5. Staying \subseteq Arriving /\ Arriving \subseteq Message.upserted /\ \A s \in Staying : held[s.id] = 0
    BY DEF Staying, Arriving
  <1>6. ASSUME NEW s \in Staying, s.id = c.id
        PROVE  d = s /\ held[c.id] = 0 /\ Message.readAll = {}
    <2>1. d \in Staying /\ d.id = s.id
      BY <1>6 DEF Said
    <2> HIDE DEF d
    <2>2. d = s
      BY <1>1, <1>5, <2>1 DEF OneWord
    <2> QED
      BY <1>1, <1>5, <1>6, <2>2 DEF OneWord
  <1> HIDE DEF d
  <1>7. Says(c) \in Copy /\ Says(c).id = c.id /\ Says(c).arch = d.arch
    BY <1>1, <1>2, <1>3, SaidOfTheSame
  <1>8. Message.readAll = {} \/ held[c.id] # 0 => Says(c) = d
    BY <1>2, <1>3 DEF ReadIf
  <1>9. held[c.id] # 0 => Says(c) = c
    BY <1>4, <1>6, <1>8
  <1>10. (\A s \in Staying : s.id # c.id) => Says(c).arch = c.arch
    BY <1>4, <1>7
  <1>11. (\A s \in Staying : s.id # c.id) /\ Message.upserted # {} => Says(c) = c
    BY <1>1, <1>4, <1>8 DEF OneWord
  <1>12. \A s \in Staying : s.id = c.id => Says(c) = s
    BY <1>6, <1>8
  <1> QED
    BY <1>7, <1>9, <1>10, <1>11, <1>12

\* The copies of a notification after a message are what it makes of them once what moves is moved.
LEMMA CopiesSaid ==
    ASSUME InboxInv, receiveInboxUpdate, NEW moved \in Caches, NEW q \in Places, NEW n,
           DOMAIN cache'[q] = DOMAIN moved[q],
           \A i \in DOMAIN moved[q] : cache'[q][i] = Says(moved[q][i])
    PROVE  CopiesAt(cache', q, n) = {Says(x) : x \in CopiesAt(moved, q, n)}
  <1> DEFINE new == cache'[q]
             old == moved[q]
  <1>1. \A i \in DOMAIN old : old[i] \in Copy
    BY DEF Caches
  <1>2. DOMAIN new = DOMAIN old /\ \A i \in DOMAIN old : new[i] = Says(old[i])
    OBVIOUS
  <1>3. CopiesAt(cache', q, n) = {x \in Range(new) : x.id = n} /\ CopiesAt(moved, q, n) = {x \in Range(old) : x.id = n}
    BY DEF CopiesAt
  <1> HIDE DEF new, old
  <1>4. \A i \in DOMAIN old : new[i].id = old[i].id
    BY <1>1, <1>2, SaysOfTheSame
  <1> QED
    BY <1>2, <1>3, <1>4 DEF Range

\* A copy is one of some place's, and of places on its side of the archive.
LEMMA SomewhereInPlace ==
    ASSUME NEW c \in Copy
    PROVE  /\ \E q \in Places : InPlace(q, c)
           /\ \A q \in Places : InPlace(q, c) => ((q = "archived") <=> (c.arch # 0))
  <1>1. CASE c.id \in Account /\ isUnread(c)
    BY <1>1 DEF InPlace, belongsTo, isUnread, Places, Groups, Views
  <1>2. CASE ~(c.id \in Account /\ isUnread(c)) /\ c.arch # 0
    BY <1>2 DEF InPlace, belongsTo, isUnread, Places, Groups, Views
  <1>3. CASE ~(c.id \in Account /\ isUnread(c)) /\ c.arch = 0
    BY <1>3 DEF InPlace, belongsTo, isUnread, Places, Groups, Views
  <1> QED
    BY <1>1, <1>2, <1>3

\* What a change of this tab holds is left as it is.
LEMMA HeldIsLeft ==
    ASSUME InboxInv, receiveInboxUpdate, NEW m \in changes, NEW n \in m.ids, NEW q \in Places
    PROVE  CopiesAt(cache', q, n) = CopiesAt(cache, q, n)
  <1>1. n \in Notes /\ held[n] # 0
    <2>1. m \in Changes /\ ChangesTyped
      BY DEF InboxInv, ChangesTyped
    <2>2. n \in Notes
      BY <2>1 DEF Changes
    <2>3. m.no \in Holders(changes, n)
      BY DEF Holders
    <2>4. IsFiniteSet(Holders(changes, n)) /\ held[n] = Cardinality(Holders(changes, n))
      BY <2>1, <2>2, HoldersFinite DEF InboxInv, HeldByChanges
    <2> QED
      BY <2>2, <2>3, <2>4, FS_EmptySet
  <1>2. PICK moved \in Caches :
            /\ DOMAIN cache'[q] = DOMAIN moved[q]
            /\ \A i \in DOMAIN moved[q] : cache'[q][i] = Says(moved[q][i])
            /\ Range(moved[q]) = {x \in Range(cache[q]) : \A c \in Moving : x.id # c.id}
                                   \cup {c \in Moving : InPlace(q, c)}
    BY ReceivedRows DEF TakenRows, Says
  <1>3. \A c \in Moving : c.id # n
    BY <1>1 DEF Moving, Arriving
  <1>4. CopiesAt(moved, q, n) = CopiesAt(cache, q, n)
    BY <1>2, <1>3 DEF CopiesAt
  <1>5. \A x \in CopiesAt(cache, q, n) : Says(x) = x
    <2>1. \A x \in CopiesAt(cache, q, n) : x \in Copy /\ x.id = n
      BY CopiesFound DEF CopiesAt, InboxInv, TabTyped
    <2> QED
      BY <1>1, <2>1, SaysOfTheSame
  <1>6. CopiesAt(cache', q, n) = {Says(x) : x \in CopiesAt(moved, q, n)}
    BY <1>2, CopiesSaid
  <1> QED
    BY <1>4, <1>5, <1>6

\* What a message tells of a notification no change holds, all its copies say, on their side of the
\* archive, if they agreed before.
LEMMA ToldIsShown ==
    ASSUME InboxInv, receiveInboxUpdate, NEW c \in Message.upserted, held[c.id] = 0, Consistent(cache, c.id)
    PROVE  Consistent(cache', c.id) /\ UNION {CopiesAt(cache', q, c.id) : q \in Places} = {c}
  <1>1. /\ Message \in Events /\ OneWord(Message) /\ cache \in Caches
        /\ Arriving \in SUBSET Copy /\ Staying \in SUBSET Copy /\ Moving \in SUBSET Copy
    BY ReceivedRows DEF InboxInv, TabTyped
  <1>2. PICK moved \in Caches : \A q \in Places :
            /\ DOMAIN cache'[q] = DOMAIN moved[q]
            /\ \A i \in DOMAIN moved[q] : cache'[q][i] = Says(moved[q][i])
            /\ Range(moved[q]) = {x \in Range(cache[q]) : \A d \in Moving : x.id # d.id}
                                   \cup {d \in Moving : InPlace(q, d)}
    BY ReceivedRows DEF TakenRows, Says
  <1>3. \A q \in Places : CopiesAt(cache', q, c.id) = {Says(x) : x \in CopiesAt(moved, q, c.id)}
    BY <1>2, CopiesSaid
  <1>4. \A d \in Message.upserted : d.id = c.id => d = c
    BY <1>1 DEF OneWord
  <1>5. c \in Copy /\ c \in Arriving /\ Arriving \subseteq Message.upserted
    BY <1>1 DEF Events, Arriving
  <1>6. CASE c \in Staying
    <2>1. Known(cache, c.id) /\ cachedNotification(cache, c.id).arch = c.arch
      BY <1>6 DEF Staying
    <2>2. \A d \in Moving : d.id # c.id
      BY <1>4, <1>5, <1>6 DEF Moving
    <2>3. \A q \in Places : CopiesAt(moved, q, c.id) = CopiesAt(cache, q, c.id)
      BY <1>2, <2>2 DEF CopiesAt
    <2>4. \A q \in Places : \A x \in CopiesAt(cache, q, c.id) : x \in Copy /\ Says(x) = c
      <3>1. \A q \in Places : \A x \in CopiesAt(cache, q, c.id) : x \in Copy /\ x.id = c.id
        BY <1>1, CopiesFound DEF CopiesAt
      <3> QED
        BY <1>6, <3>1, SaysOfTheSame
    <2> DEFINE first == cachedNotification(cache, c.id)
    <2>5. PICK p \in Places : first \in CopiesAt(cache, p, c.id)
      BY <1>1, <2>1, CopiesFound DEF CopiesAt
    <2>6. ASSUME NEW q \in Places, NEW x \in CopiesAt(cache, q, c.id)
          PROVE  (q = "archived") <=> (c.arch # 0)
      <3>1. first = x /\ ((q = "archived") <=> (x.arch # 0))
        BY <2>5, <2>6 DEF Consistent
      <3> QED
        BY <2>1, <3>1
    <2> HIDE DEF first
    <2>7. \A q \in Places : /\ CopiesAt(cache', q, c.id) \subseteq {c}
                            /\ CopiesAt(cache', q, c.id) # {} => CopiesAt(cache, q, c.id) # {}
      BY <1>3, <2>3, <2>4
    <2>8. c \in CopiesAt(cache', p, c.id)
      BY <1>3, <2>3, <2>4, <2>5
    <2>9. Consistent(cache', c.id)
      BY <2>6, <2>7 DEF Consistent
    <2> QED
      BY <2>7, <2>8, <2>9
  <1>7. CASE c \notin Staying
    <2>1. c \in Moving /\ \A d \in Moving : d.id = c.id => d = c
      BY <1>4, <1>5, <1>7 DEF Moving
    <2>2. \A q \in Places : CopiesAt(moved, q, c.id) = IF InPlace(q, c) THEN {c} ELSE {}
      BY <1>2, <2>1 DEF CopiesAt
    <2>3. Says(c) = c
      <3>1. \A s \in Staying : s.id # c.id
        BY <1>4, <1>5, <1>7 DEF Staying
      <3> QED
        BY <1>5, <3>1, SaysOfTheSame
    <2>4. \A q \in Places : CopiesAt(cache', q, c.id) = IF InPlace(q, c) THEN {c} ELSE {}
      BY <1>3, <2>2, <2>3
    <2>5. Consistent(cache', c.id)
      BY <1>5, <2>4, SomewhereInPlace DEF Consistent
    <2>6. PICK p \in Places : InPlace(p, c)
      BY <1>5, SomewhereInPlace
    <2> QED
      BY <2>4, <2>5, <2>6
  <1> QED
    BY <1>6, <1>7

\* The archive stays in the order of its dates when the copies of all notifications agree.
LEMMA ArchiveStaysInOrder ==
    ASSUME InboxInv, receiveInboxUpdate, ArchiveInOrder(cache), \A n \in Notes : Consistent(cache, n)
    PROVE  ArchiveInOrder(cache')
  <1>1. /\ cache \in Caches /\ OneWord(Message)
        /\ Arriving \in SUBSET Copy /\ Staying \in SUBSET Copy /\ Moving \in SUBSET Copy
    BY ReceivedRows DEF InboxInv, TabTyped
  <1>2. "archived" \in Places
    BY DEF Places, Views
  <1>3. InDates(cache["archived"])
    BY DEF ArchiveInOrder, InDates
  <1>4. PICK moved \in Caches :
            /\ DOMAIN cache'["archived"] = DOMAIN moved["archived"]
            /\ \A i \in DOMAIN moved["archived"] : cache'["archived"][i] = Says(moved["archived"][i])
            /\ Range(moved["archived"]) = {x \in Range(cache["archived"]) : \A c \in Moving : x.id # c.id}
                                            \cup {c \in Moving : InPlace("archived", c)}
            /\ InDates(moved["archived"])
    BY <1>2, <1>3, ReceivedRows DEF TakenRows, Says
  <1> DEFINE old == moved["archived"]
             new == cache'["archived"]
  <1>5. ASSUME NEW x \in Range(old)
        PROVE  x \in Copy /\ Says(x) \in Copy /\ Says(x).id = x.id /\ Says(x).arch = x.arch
    <2>1. x \in Copy
      BY <1>2, CopiesFound
    <2>2. CASE \A s \in Staying : s.id # x.id
      BY <2>1, <2>2, SaysOfTheSame
    <2>3. ASSUME NEW s \in Staying, s.id = x.id
          PROVE  Says(x).arch = x.arch
      <3>1. Says(x) = s
        BY <2>1, <2>3, SaysOfTheSame
      <3>2. x \notin Moving
        <4>1. s \in Message.upserted /\ (x \in Moving => x \in Message.upserted /\ x \notin Staying)
          BY DEF Staying, Moving, Arriving
        <4> QED
          BY <1>1, <2>3, <4>1 DEF OneWord
      <3>3. x \in CopiesAt(cache, "archived", x.id)
        BY <1>4, <3>2 DEF CopiesAt
      <3>4. /\ Known(cache, x.id) /\ cachedNotification(cache, x.id).arch = s.arch
        BY <2>3 DEF Staying
      <3>5. PICK p \in Places : cachedNotification(cache, x.id) \in CopiesAt(cache, p, x.id)
        BY <1>1, <3>4, CopiesFound DEF CopiesAt
      <3>6. cachedNotification(cache, x.id) = x
        <4>1. Consistent(cache, x.id)
          BY <2>1, CopiesAre
        <4> QED
          BY <1>2, <3>3, <3>5, <4>1 DEF Consistent
      <3> QED
        BY <3>1, <3>4, <3>6
    <2> QED
      BY <2>1, <2>2, <2>3, SaysOfTheSame
  <1>6. ASSUME NEW x \in Range(old), NEW y \in Range(old), comesBefore("archived", x, y)
        PROVE  comesBefore("archived", Says(x), Says(y))
    BY <1>5, <1>6 DEF comesBefore, sortDateOf
  <1>7. ASSUME NEW i \in DOMAIN new, NEW j \in DOMAIN new, i < j
        PROVE  comesBefore("archived", new[i], new[j])
    <2>1. i \in DOMAIN old /\ j \in DOMAIN old /\ new[i] = Says(old[i]) /\ new[j] = Says(old[j])
      BY <1>4
    <2>2. comesBefore("archived", old[i], old[j])
      BY <1>4, <1>7, <2>1 DEF InDates
    <2>3. old[i] \in Range(old) /\ old[j] \in Range(old)
      BY <2>1 DEF Range
    <2> QED
      BY <1>6, <2>1, <2>2, <2>3
  <1> QED
    BY <1>7 DEF ArchiveInOrder

LEMMA MessageIsTaken ==
    ASSUME InboxInv, receiveInboxUpdate
    PROVE  /\ \A m \in changes : \A n \in m.ids, q \in Places : CopiesAt(cache', q, n) = CopiesAt(cache, q, n)
           /\ \A c \in Head(events).upserted : held[c.id] = 0 /\ Consistent(cache, c.id) =>
                Consistent(cache', c.id) /\ UNION {CopiesAt(cache', q, c.id) : q \in Places} = {c}
           /\ ArchiveInOrder(cache) /\ (\A n \in Notes : Consistent(cache, n)) => ArchiveInOrder(cache')
  <1>1. \A m \in changes : \A n \in m.ids, q \in Places : CopiesAt(cache', q, n) = CopiesAt(cache, q, n)
    BY HeldIsLeft
  <1>2. \A c \in Message.upserted : held[c.id] = 0 /\ Consistent(cache, c.id) =>
           Consistent(cache', c.id) /\ UNION {CopiesAt(cache', q, c.id) : q \in Places} = {c}
    BY ToldIsShown
  <1>3. ArchiveInOrder(cache) /\ (\A n \in Notes : Consistent(cache, n)) => ArchiveInOrder(cache')
    BY ArchiveStaysInOrder
  <1> QED
    BY <1>1, <1>2, <1>3 DEF Message

\* However the changes of this tab overlap, a message leaves what they hold as it is; what it says of
\* any other notification all its copies then say, on the right side of the archive, and the archive
\* stays in order, wherever the copies agreed before (receiveInboxUpdate, readAllInPlace, hold, release).
THEOREM MessagesComeTrue == Spec => MessagesAreTaken
  <1>1. InboxInv /\ [Next]_vars =>
          [receiveInboxUpdate =>
            /\ \A m \in changes : \A n \in m.ids, q \in Places : CopiesAt(cache', q, n) = CopiesAt(cache, q, n)
            /\ \A c \in Head(events).upserted : held[c.id] = 0 /\ Consistent(cache, c.id) =>
                   Consistent(cache', c.id) /\ UNION {CopiesAt(cache', q, c.id) : q \in Places} = {c}
            /\ ArchiveInOrder(cache) /\ (\A n \in Notes : Consistent(cache, n)) => ArchiveInOrder(cache')]_vars
    BY MessageIsTaken
  <1> QED
    BY <1>1, InboxBegins, InboxKeeps, PTL DEF Spec, MessagesAreTaken
=============================================================================
