-------------------------- MODULE MotionImportProofs --------------------------
(***************************************************************************)
(* Theorems about MotionImport: reading, building and binding are writes to *)
(* a store; tracks are sampled as the file's records say; only whole        *)
(* sections are read; what is dropped is reported.                          *)
(***************************************************************************)
EXTENDS MotionImport, Induction

-----------------------------------------------------------------------------
(* Keys and lists of them *)

Kinds == Range(Sections) \cup {"visibility"}
KeySet == [kind : Kinds, name : Seq(Nat), frame : Nat, value : Nat]
KeyLists == Seq(KeySet)

LEMMA KeyFields ==
  ASSUME NEW k \in KeySet
  PROVE  k.kind \in Kinds /\ k.name \in Seq(Nat) /\ k.frame \in Nat /\ k.value \in Nat
BY DEF KeySet

LEMMA KeysOfList ==
  ASSUME NEW rs \in KeyLists
  PROVE  /\ Len(rs) \in Nat /\ DOMAIN rs = 1..Len(rs)
         /\ \A i \in 1..Len(rs) : rs[i] \in KeySet /\ rs[i].frame \in Nat
<1>1. Len(rs) \in Nat /\ DOMAIN rs = 1..Len(rs) /\ \A i \in 1..Len(rs) : rs[i] \in KeySet
  BY DEF KeyLists
<1> QED BY <1>1, KeyFields

\* The positions from 1 up as a sequence.
LEMMA Positions ==
  ASSUME NEW n \in Nat
  PROVE  [p \in 1..n |-> p] \in Seq(1..n) /\ [p \in 1..n |-> p] \in Seq(Int) /\ Len([p \in 1..n |-> p]) = n
<1> DEFINE s == [p \in 1..n |-> p]
<1>1. s \in [1..n -> 1..n] /\ s \in [1..n -> Int]
  OBVIOUS
<1>2. s \in Seq(1..n) /\ s \in Seq(Int)
  <2> HIDE DEF s
  <2> QED BY <1>1
<1>3. Len(s) = n
  <2>1. DOMAIN s = 1..n
    OBVIOUS
  <2> HIDE DEF s
  <2> QED BY <1>2, <2>1
<1> QED BY <1>2, <1>3

-----------------------------------------------------------------------------
(* BuildMotion: the keys of a track *)

\* ByFrame has every place once, by frame and then as in the list.
LEMMA ByFrameIs ==
  ASSUME NEW rs \in KeyLists
  PROVE  /\ ByFrame(rs) \in [1..Len(rs) -> 1..Len(rs)]
         /\ \A i, k \in 1..Len(rs) : i < k => Before(rs, ByFrame(rs)[i], ByFrame(rs)[k])
         /\ \A p \in 1..Len(rs) : \E i \in 1..Len(rs) : ByFrame(rs)[i] = p
<1> DEFINE n == Len(rs)
           D == 1..n
           R == {p \in D \X D : Before(rs, p[1], p[2])}
           s == OrderedBy(D, R)
<1>1. n \in Nat /\ DOMAIN rs = D /\ \A i \in D : rs[i].frame \in Nat
  BY KeysOfList
<1>2. ByFrame(rs) = s
  BY <1>1 DEF ByFrame
<1>3. \A i, j \in D : <<i, j>> \in R <=> Before(rs, i, j)
  OBVIOUS
<1>4. IsFiniteSet(D) /\ Cardinality(D) = n /\ \A i \in D : i \in Nat
  <2>1. n \in Int /\ 1 \in Int /\ \A i \in D : i \in Nat
    BY <1>1
  <2>2. IsFiniteSet(D) /\ Cardinality(D) = n
    <3> HIDE DEF n
    <3> QED BY <1>1, FS_Interval
  <2> QED BY <2>1, <2>2
<1> HIDE DEF R, D
<1>5. StrictOrder(D, R)
  <2>1. \A p \in D : ~Before(rs, p, p)
    BY <1>1, <1>4 DEF Before
  <2>2. ASSUME NEW p \in D, NEW q \in D, NEW r \in D, Before(rs, p, q), Before(rs, q, r)
        PROVE  Before(rs, p, r)
    BY <2>2, <1>1, <1>4 DEF Before
  <2>3. \A p, q \in D : p # q => Before(rs, p, q) \/ Before(rs, q, p)
    <3> TAKE p, q \in D
    <3>1. p \in Nat /\ q \in Nat /\ rs[p].frame \in Nat /\ rs[q].frame \in Nat
      BY <1>1, <1>4
    <3> QED BY ONLY <3>1 DEF Before
  <2> QED BY <1>3, <2>1, <2>2, <2>3 DEF StrictOrder
<1>6. /\ s \in [1..n -> D] /\ InOrderOf(R, s, n) /\ \A p \in D : \E i \in 1..n : s[i] = p
  BY <1>4, <1>5, OrderedIs
<1> HIDE DEF s
<1>7. \A i, k \in 1..n : i < k => Before(rs, s[i], s[k])
  BY <1>3, <1>6 DEF InOrderOf
<1> QED BY <1>2, <1>6, <1>7 DEF D

\* The places of the keys that no later one of their frame replaces.
LastOfFrame(rs) ==
  {i \in 1..Len(rs) : \A j \in 1..Len(rs) : i < j => rs[j].frame # rs[i].frame}

\* One key per frame is left, the last, by frame.
LEMMA OnePerFrame ==
  ASSUME NEW rs \in KeyLists
  PROVE  /\ SortAndDeduplicate(rs) \in KeyLists
         /\ Range(SortAndDeduplicate(rs)) = {rs[i] : i \in LastOfFrame(rs)}
         /\ \A i, k \in 1..Len(SortAndDeduplicate(rs)) :
              i < k => SortAndDeduplicate(rs)[i].frame < SortAndDeduplicate(rs)[k].frame
<1> DEFINE n == Len(rs)
           s == ByFrame(rs)
           Latest(p) == p = n \/ rs[s[p + 1]].frame # rs[s[p]].frame
           L == {p \in 1..n : Latest(p)}
           id == [p \in 1..n |-> p]
           kept == Selected(id, L)
           m == Len(kept)
           out == [p \in 1..m |-> rs[s[kept[p]]]]
<1>1. n \in Nat /\ DOMAIN rs = 1..n /\ \A i \in 1..n : rs[i] \in KeySet /\ rs[i].frame \in Nat
  BY KeysOfList
<1>2. /\ s \in [1..n -> 1..n] /\ \A i, k \in 1..n : i < k => Before(rs, s[i], s[k])
      /\ \A p \in 1..n : \E i \in 1..n : s[i] = p
  BY ByFrameIs
<1>3. id \in Seq(1..n) /\ id \in Seq(Int) /\ Len(id) = n /\ \A p \in 1..n : id[p] = p
  <2>1. id \in Seq(1..n) /\ id \in Seq(Int) /\ Len(id) = n
    BY <1>1, Positions
  <2> QED BY <2>1
<1>4. kept \in Seq(1..n) /\ {kept[k] : k \in 1..m} = {id[k] : k \in 1..n} \cap L
  <2> HIDE DEF L, id, n
  <2>1. kept \in Seq(1..n)
    BY <1>3, SelectedPlaces
  <2>2. {Selected(id, L)[k] : k \in 1..Len(Selected(id, L))} = {id[k] : k \in 1..Len(id)} \cap L
    BY <1>3, SelectedMembers
  <2> QED BY <2>1, <2>2, <1>3
<1>5. \A i, k \in 1..m : i < k => kept[i] < kept[k]
  <2> HIDE DEF L
  <2>1. \A i, k \in 1..Len(id) : i < k => id[i] < id[k]
    BY <1>3
  <2> HIDE DEF id
  <2>2. \A i, k \in 1..Len(Selected(id, L)) : i < k => Selected(id, L)[i] < Selected(id, L)[k]
    BY <1>3, <2>1, SelectedAscends
  <2> QED BY <2>2
<1>6. m \in Nat /\ DOMAIN kept = 1..m /\ \A k \in 1..m : kept[k] \in 1..n
  <2> HIDE DEF kept, n
  <2> QED BY <1>4
<1>7. SortAndDeduplicate(rs) = out
  BY DEF SortAndDeduplicate
<1>8. \A k \in 1..m : kept[k] \in L
  <2> HIDE DEF L, kept, id
  <2> QED BY <1>4
<1>9. \A p \in L : \E k \in 1..m : kept[k] = p
  <2> TAKE p \in L
  <2>1. p \in 1..n /\ id[p] = p
    OBVIOUS
  <2>2. p \in {id[k] : k \in 1..n} \cap L
    BY <2>1
  <2> HIDE DEF L, kept, id
  <2> QED BY <1>4, <2>2
<1> DEFINE frame(p) == rs[s[p]].frame
<1>10. \A p \in 1..n : s[p] \in 1..n /\ frame(p) \in Nat
  <2> HIDE DEF s
  <2> QED BY <1>1, <1>2
<1>11. \A i, k \in 1..n : i < k => frame(i) < frame(k) \/ (frame(i) = frame(k) /\ s[i] < s[k])
  <2> SUFFICES ASSUME NEW i \in 1..n, NEW k \in 1..n, i < k
               PROVE  frame(i) < frame(k) \/ (frame(i) = frame(k) /\ s[i] < s[k])
    OBVIOUS
  <2>1. Before(rs, s[i], s[k])
    BY <1>2
  <2> HIDE DEF s
  <2> QED BY ONLY <2>1 DEF Before
<1>12. ASSUME NEW p \in L, NEW q \in 1..n, p < q PROVE frame(p) < frame(q)
  <2>1. p \in 1..n /\ p + 1 \in 1..n /\ p < p + 1 /\ p # n
    <3>1. p \in 1..n
      OBVIOUS
    <3> HIDE DEF L, n
    <3> QED BY <3>1, <1>12, <1>1
  <2>2. frame(p + 1) # frame(p)
    BY <2>1
  <2>3. frame(p) < frame(p + 1)
    BY <1>11, <2>1, <2>2
  <2>4. p + 1 = q \/ p + 1 < q
    BY <1>12, <2>1
  <2>5. frame(p + 1) \in Nat /\ frame(q) \in Nat /\ frame(p) \in Nat
    BY <1>10, <2>1
  <2>6. frame(p + 1) <= frame(q)
    <3>1. CASE p + 1 = q
      BY <3>1, <2>5
    <3>2. CASE p + 1 < q
      BY <3>2, <1>11, <2>1, <2>5
    <3> QED BY <2>4, <3>1, <3>2
  <2> HIDE DEF frame
  <2> QED BY <2>3, <2>5, <2>6
<1>13. ASSUME NEW p \in L PROVE s[p] \in LastOfFrame(rs)
  <2>1. p \in 1..n /\ s[p] \in 1..n
    BY <1>10
  <2>2. ASSUME NEW j \in 1..n, s[p] < j, rs[j].frame = frame(p) PROVE FALSE
    <3>1. PICK q \in 1..n : s[q] = j
      BY <1>2
    <3>2. frame(q) = frame(p)
      BY <2>2, <3>1
    <3>3. ~(p < q)
      <4>1. frame(p) \in Nat /\ (p < q => frame(p) < frame(q))
        BY <1>10, <1>12, <2>1
      <4> HIDE DEF frame
      <4> QED BY <3>2, <4>1
    <3>4. p # q
      BY <2>2, <3>1, <2>1
    <3>5. q < p
      BY <3>3, <3>4, <2>1
    <3>6. s[q] < s[p]
      <4>1. frame(q) < frame(p) \/ s[q] < s[p]
        BY <1>11, <2>1, <3>5
      <4>2. frame(q) \in Nat
        BY <1>10
      <4> HIDE DEF frame
      <4> QED BY <3>2, <4>1, <4>2
    <3>7. s[p] \in Nat /\ j \in Nat
      BY <2>1
    <3> HIDE DEF s
    <3> QED BY <2>2, <3>1, <3>6, <3>7
  <2>3. \A j \in 1..Len(rs) : s[p] < j => rs[j].frame # rs[s[p]].frame
    BY <2>2
  <2> HIDE DEF s
  <2> QED BY <2>1, <2>3 DEF LastOfFrame
<1>14. ASSUME NEW i \in LastOfFrame(rs) PROVE \E p \in L : s[p] = i
  <2>1. i \in 1..n /\ \A j \in 1..n : i < j => rs[j].frame # rs[i].frame
    BY DEF LastOfFrame
  <2>2. PICK p \in 1..n : s[p] = i
    BY <1>2, <2>1
  <2>3. SUFFICES ASSUME p # n, frame(p + 1) = frame(p) PROVE FALSE
    BY <2>2
  <2>4. p + 1 \in 1..n /\ p < p + 1
    <3> HIDE DEF L, n
    <3> QED BY <2>3, <1>1
  <2>5. frame(p) < frame(p + 1) \/ s[p] < s[p + 1]
    BY <1>11, <2>4
  <2>6. frame(p) \in Nat
    BY <1>10
  <2>7. s[p] < s[p + 1] /\ s[p + 1] \in 1..n
    <3>1. s[p + 1] \in 1..n
      BY <1>10, <2>4
    <3> HIDE DEF frame
    <3> QED BY <2>3, <2>5, <2>6, <3>1
  <2>8. rs[s[p + 1]].frame = rs[i].frame
    BY <2>2, <2>3
  <2> HIDE DEF s
  <2> QED BY <2>1, <2>2, <2>7, <2>8
<1>15. \A k \in 1..m : out[k] = rs[s[kept[k]]] /\ out[k] \in KeySet
  <2> TAKE k \in 1..m
  <2>1. s[kept[k]] \in 1..n
    BY <1>6, <1>10
  <2>2. out[k] = rs[s[kept[k]]]
    OBVIOUS
  <2> HIDE DEF out, s, kept
  <2> QED BY SMTT(40), <1>1, <2>1, <2>2
<1>16. out \in KeyLists /\ Len(out) = m
  <2>1. DOMAIN out = 1..m
    OBVIOUS
  <2>2. out \in [1..m -> KeySet]
    <3>1. out = [k \in 1..m |-> out[k]]
      OBVIOUS
    <3> HIDE DEF out, m
    <3> QED BY <1>15, <3>1
  <2> HIDE DEF out, m
  <2>3. out \in Seq(KeySet)
    BY <1>6, <2>2
  <2> QED BY <1>6, <2>1, <2>3 DEF KeyLists
<1>17. Range(out) = {rs[i] : i \in LastOfFrame(rs)}
  <2>1. DOMAIN out = 1..m
    OBVIOUS
  <2> HIDE DEF out, s, kept, L, m
  <2>2. \A x \in Range(out) : x \in {rs[i] : i \in LastOfFrame(rs)}
    <3> TAKE x \in Range(out)
    <3>1. PICK k \in 1..m : x = out[k]
      BY <2>1 DEF Range
    <3>2. kept[k] \in L /\ s[kept[k]] \in LastOfFrame(rs)
      BY <1>8, <1>13
    <3> QED BY <3>1, <3>2, <1>15
  <2>3. \A i \in LastOfFrame(rs) : rs[i] \in Range(out)
    <3> TAKE i \in LastOfFrame(rs)
    <3>1. PICK p \in L : s[p] = i
      BY <1>14
    <3>2. PICK k \in 1..m : kept[k] = p
      BY <1>9
    <3>3. out[k] = rs[i]
      BY <3>1, <3>2, <1>15
    <3> QED BY <3>3, <2>1 DEF Range
  <2> QED BY <2>2, <2>3
<1>18. \A i, k \in 1..m : i < k => out[i].frame < out[k].frame
  <2> SUFFICES ASSUME NEW i \in 1..m, NEW k \in 1..m, i < k PROVE out[i].frame < out[k].frame
    BY ZenonT(60)
  <2>1. kept[i] \in L /\ kept[k] \in 1..n /\ kept[i] < kept[k]
    BY <1>5, <1>6, <1>8
  <2>2. frame(kept[i]) < frame(kept[k])
    <3> HIDE DEF L, kept, frame
    <3> QED BY SMTT(40), <2>1, <1>12
  <2>3. out[i].frame = frame(kept[i]) /\ out[k].frame = frame(kept[k])
    OBVIOUS
  <2> HIDE DEF out, frame, kept
  <2> QED BY SMTT(40), <2>2, <2>3
<1> HIDE DEF out
<1> QED BY <1>7, <1>16, <1>17, <1>18

-----------------------------------------------------------------------------
(* BuildMotion: the tracks *)

\* The places of the keys that no later one of their name and frame replaces.
Lasting(rs) ==
  {i \in 1..Len(rs) : \A j \in 1..Len(rs) :
     i < j => ~(rs[j].name = rs[i].name /\ rs[j].frame = rs[i].frame)}
NamesIn(rs) == {rs[i].name : i \in 1..Len(rs)}

\* The keys of a name are those of the list, and what is left of them what lasts.
LEMMA NamedKeys ==
  ASSUME NEW rs \in KeyLists, NEW n
  PROVE  /\ OfName(rs, n) \in KeyLists
         /\ SortAndDeduplicate(OfName(rs, n)) \in KeyLists
         /\ Range(SortAndDeduplicate(OfName(rs, n))) = {rs[i] : i \in {j \in Lasting(rs) : rs[j].name = n}}
<1> DEFINE S == {r \in Range(rs) : r.name = n}
           q == OfName(rs, n)
           N == Len(rs)
           M == Len(q)
<1>1. N \in Nat /\ DOMAIN rs = 1..N /\ \A i \in 1..N : rs[i] \in KeySet /\ rs[i].frame \in Nat
  BY KeysOfList
<1>2. \A i \in 1..N : rs[i] \in S <=> rs[i].name = n
  BY <1>1 DEF Range
<1>3. q = Selected(rs, S)
  BY DEF OfName
<1>4. q \in KeyLists /\ \E e \in [1..M -> 1..N] : PlacesOf(rs, S, q, e)
  <2> HIDE DEF S, q
  <2>1. rs \in Seq(KeySet)
    BY DEF KeyLists
  <2> QED BY <1>3, <2>1, SelectedPlaces DEF KeyLists
<1>5. PICK e \in [1..M -> 1..N] : PlacesOf(rs, S, q, e)
  BY <1>4
<1> HIDE DEF q
<1>6. /\ \A i, k \in 1..M : i < k => e[i] < e[k]
      /\ \A i \in 1..M : q[i] = rs[e[i]] /\ rs[e[i]].name = n /\ e[i] \in 1..N
      /\ \A l \in 1..N : rs[l].name = n => \E i \in 1..M : e[i] = l
  <2> HIDE DEF S
  <2> QED BY <1>2, <1>5 DEF PlacesOf
<1>7. M \in Nat
  BY <1>4, KeysOfList
<1> DEFINE J == {j \in Lasting(rs) : rs[j].name = n}
<1>8. ASSUME NEW i \in LastOfFrame(q) PROVE e[i] \in J /\ q[i] = rs[e[i]]
  <2>1. i \in 1..M /\ \A k \in 1..M : i < k => q[k].frame # q[i].frame
    BY DEF LastOfFrame
  <2>2. e[i] \in 1..N /\ rs[e[i]].name = n /\ q[i] = rs[e[i]]
    BY <1>6, <2>1
  <2>3. ASSUME NEW j \in 1..N, e[i] < j, rs[j].name = n, rs[j].frame = rs[e[i]].frame PROVE FALSE
    <3>1. PICK k \in 1..M : e[k] = j
      BY <1>6, <2>3
    <3>2. ~(k < i) /\ k # i
      BY <1>6, <2>1, <2>2, <2>3, <3>1
    <3>3. i < k
      BY <1>7, <2>1, <3>2
    <3> QED BY <1>6, <2>1, <2>2, <2>3, <3>1, <3>3
  <2> QED BY <2>2, <2>3 DEF Lasting
<1>9. ASSUME NEW j \in J PROVE \E i \in LastOfFrame(q) : q[i] = rs[j]
  <2>1. /\ j \in 1..N /\ rs[j].name = n
        /\ \A k \in 1..N : j < k => ~(rs[k].name = rs[j].name /\ rs[k].frame = rs[j].frame)
    BY DEF Lasting
  <2>2. PICK i \in 1..M : e[i] = j
    BY <1>6, <2>1
  <2>3. \A k \in 1..M : i < k => q[k].frame # q[i].frame
    BY <1>6, <2>1, <2>2
  <2> QED BY <1>6, <2>2, <2>3 DEF LastOfFrame
<1>10. /\ SortAndDeduplicate(q) \in KeyLists
       /\ Range(SortAndDeduplicate(q)) = {q[i] : i \in LastOfFrame(q)}
  BY <1>4, OnePerFrame
<1>11. {q[i] : i \in LastOfFrame(q)} = {rs[j] : j \in J}
  <2> HIDE DEF J
  <2> QED BY <1>8, <1>9
<1> QED BY <1>4, <1>10, <1>11 DEF q

\* There is one track for each name, and it has the keys of that name.
LEMMA TracksAre ==
  ASSUME NEW rs \in KeyLists
  PROVE  /\ Len(Tracks(rs)) \in Nat
         /\ \A t \in 1..Len(Tracks(rs)) :
              Tracks(rs)[t].name \in NamesIn(rs) /\ Tracks(rs)[t].records = OfName(rs, Tracks(rs)[t].name)
         /\ \A t, u \in 1..Len(Tracks(rs)) : Tracks(rs)[t].name = Tracks(rs)[u].name => t = u
         /\ \A n \in NamesIn(rs) : \E t \in 1..Len(Tracks(rs)) : Tracks(rs)[t].name = n
<1> DEFINE n == Len(rs)
           First(i) == \A j \in 1..i - 1 : rs[j].name # rs[i].name
           L == {i \in 1..n : First(i)}
           id == [p \in 1..n |-> p]
           heads == Selected(id, L)
           m == Len(heads)
           T(t) == [name |-> rs[heads[t]].name, records |-> OfName(rs, rs[heads[t]].name)]
           ts == [t \in 1..m |-> T(t)]
<1>1. n \in Nat
  BY KeysOfList
<1>2. id \in Seq(1..n) /\ id \in Seq(Int) /\ Len(id) = n /\ \A p \in 1..n : id[p] = p
  <2>1. id \in Seq(1..n) /\ id \in Seq(Int) /\ Len(id) = n
    BY <1>1, Positions
  <2> QED BY <2>1
<1>3. heads \in Seq(1..n) /\ {heads[k] : k \in 1..m} = {id[k] : k \in 1..n} \cap L
  <2> HIDE DEF L, id, n
  <2>1. heads \in Seq(1..n)
    BY <1>2, SelectedPlaces
  <2>2. {Selected(id, L)[k] : k \in 1..Len(Selected(id, L))} = {id[k] : k \in 1..Len(id)} \cap L
    BY <1>2, SelectedMembers
  <2> QED BY <2>1, <2>2, <1>2
<1>4. \A i, k \in 1..m : i < k => heads[i] < heads[k]
  <2> HIDE DEF L
  <2>1. \A i, k \in 1..Len(id) : i < k => id[i] < id[k]
    BY <1>2
  <2> HIDE DEF id
  <2>2. \A i, k \in 1..Len(Selected(id, L)) : i < k => Selected(id, L)[i] < Selected(id, L)[k]
    BY <1>2, <2>1, SelectedAscends
  <2> QED BY <2>2
<1>5. m \in Nat /\ \A k \in 1..m : heads[k] \in 1..n /\ heads[k] \in L
  <2>1. Len(heads) \in Nat /\ \A k \in 1..Len(heads) : heads[k] \in 1..n
    <3> DEFINE D == 1..n
    <3>1. heads \in Seq(D)
      BY <1>3
    <3> HIDE DEF heads, D
    <3>2. Len(heads) \in Nat /\ \A k \in 1..Len(heads) : heads[k] \in D
      BY <3>1, SequenceShape
    <3> QED BY <3>2 DEF D
  <2>2. \A k \in 1..Len(heads) : heads[k] \in {heads[j] : j \in 1..Len(heads)}
    <3> HIDE DEF heads
    <3> QED OBVIOUS
  <2>3. \A k \in 1..Len(heads) : heads[k] \in L
    <3> HIDE DEF heads, n, L, id
    <3> QED BY <1>3, <2>2
  <2> QED BY <2>1, <2>3
<1>6. \A p \in L : \E k \in 1..m : heads[k] = p
  <2> TAKE p \in L
  <2>1. p \in 1..n /\ id[p] = p
    OBVIOUS
  <2>2. p \in {id[k] : k \in 1..n} \cap L
    BY <2>1
  <2> HIDE DEF L, heads, id
  <2> QED BY <1>3, <2>2
<1>7. Tracks(rs) = ts
  BY DEF Tracks
<1>8. Len(ts) = m /\ \A t \in 1..m : ts[t] = T(t)
  <2>1. \A t \in 1..m : ts[t] = T(t)
    OBVIOUS
  <2>2. ts \in [1..m -> {ts[t] : t \in 1..m}]
    <3>1. ts = [t \in 1..m |-> ts[t]]
      OBVIOUS
    <3> HIDE DEF ts, m
    <3> QED BY <3>1
  <2>3. ts \in Seq({ts[t] : t \in 1..m}) /\ DOMAIN ts = 1..m
    <3> HIDE DEF ts, m
    <3> QED BY <1>5, <2>2
  <2>4. Len(ts) = m
    <3> HIDE DEF ts, m
    <3> QED BY <1>5, <2>3
  <2> QED BY <2>1, <2>4
<1> HIDE DEF ts
<1>9. \A t \in 1..m : /\ ts[t].name = rs[heads[t]].name /\ ts[t].name \in NamesIn(rs)
                      /\ ts[t].records = OfName(rs, ts[t].name)
  <2> TAKE t \in 1..m
  <2>1. heads[t] \in 1..n
    BY <1>5
  <2>2. ts[t] = [name |-> rs[heads[t]].name, records |-> OfName(rs, rs[heads[t]].name)]
    BY <1>8
  <2> HIDE DEF heads
  <2>3. rs[heads[t]].name \in NamesIn(rs)
    BY <2>1 DEF NamesIn
  <2> QED BY ONLY <2>2, <2>3
<1>10. ASSUME NEW t \in 1..m, NEW u \in 1..m, t < u PROVE ts[t].name # ts[u].name
  <2>1. heads[t] < heads[u] /\ heads[t] \in 1..n /\ heads[u] \in 1..n /\ heads[u] \in L
    BY <1>4, <1>5, <1>10
  <2>2. heads[t] \in 1..(heads[u] - 1)
    <3> HIDE DEF heads
    <3> QED BY <1>1, <2>1
  <2>3. rs[heads[t]].name # rs[heads[u]].name
    <3> HIDE DEF heads
    <3> QED BY <2>1, <2>2
  <2> HIDE DEF heads
  <2> QED BY <1>9, <2>3
<1>11. \A t, u \in 1..m : ts[t].name = ts[u].name => t = u
  <2> TAKE t, u \in 1..m
  <2>1. t = u \/ t < u \/ u < t
    BY <1>5
  <2> QED BY <1>10, <2>1
<1>12. ASSUME NEW i \in 1..n PROVE \E t \in 1..m : ts[t].name = rs[i].name
  <2> DEFINE same == {j \in 1..n : rs[j].name = rs[i].name}
  <2>1. same \in SUBSET Int /\ IsFiniteSet(same) /\ same # {}
    <3>1. IsFiniteSet(1..n) /\ same \in SUBSET (1..n)
      BY <1>1, FS_Interval
    <3> QED BY <3>1, FS_Subset
  <2>2. PICK j \in same : \A k \in same : j <= k
    <3> HIDE DEF same
    <3> QED BY <2>1, LeastElement
  <2>3. j \in 1..n /\ rs[j].name = rs[i].name
    OBVIOUS
  <2>4. ASSUME NEW k \in 1..j - 1, rs[k].name = rs[j].name PROVE FALSE
    <3>1. k \in 1..n /\ k < j
      BY <1>1, <2>3
    <3>2. k \in same
      BY <2>3, <2>4, <3>1
    <3>3. j <= k
      BY <2>2, <3>2
    <3> HIDE DEF same
    <3> QED BY <2>3, <3>1, <3>3
  <2>5. j \in L
    BY <2>3, <2>4
  <2>6. PICK t \in 1..m : heads[t] = j
    BY <1>6, <2>5
  <2> HIDE DEF heads
  <2> QED BY <1>9, <2>3, <2>6
<1>13. \A x \in NamesIn(rs) : \E t \in 1..m : ts[t].name = x
  BY <1>12 DEF NamesIn
<1> HIDE DEF heads
<1> QED BY <1>5, <1>7, <1>8, <1>9, <1>11, <1>13

-----------------------------------------------------------------------------
(* Bind: what a name means *)

\* r is what precedes the first NUL of b.
IsUpToNul(b, r) ==
  /\ r \in Seq(Nat) /\ Len(r) <= Len(b)
  /\ \A i \in 1..Len(r) : r[i] = b[i] /\ b[i] # 0
  /\ Len(r) = Len(b) \/ b[Len(r) + 1] = 0

LEMMA UpToNulIs ==
  ASSUME NEW b \in Seq(Nat)
  PROVE  UpToNul(b) \in Seq(Nat) /\ IsUpToNul(b, UpToNul(b))
<1> DEFINE n == Len(b)
           nuls == {i \in DOMAIN b : b[i] = 0}
<1>1. n \in Nat /\ DOMAIN b = 1..n /\ \A i \in 1..n : b[i] \in Nat
  OBVIOUS
<1>2. CASE nuls = {}
  <2>1. UpToNul(b) = b
    BY <1>2 DEF UpToNul
  <2>2. \A i \in 1..n : b[i] # 0
    BY <1>1, <1>2
  <2> QED BY <1>1, <2>1, <2>2 DEF IsUpToNul
<1>3. CASE nuls # {}
  <2> DEFINE m == Min(nuls)
             r == SubSeq(b, 1, m - 1)
  <2>1. nuls \in SUBSET Int /\ IsFiniteSet(nuls)
    <3>1. IsFiniteSet(1..n) /\ nuls \in SUBSET (1..n)
      BY <1>1, FS_Interval
    <3> QED BY <3>1, FS_Subset
  <2>2. \E x \in nuls : \A y \in nuls : x <= y
    <3> HIDE DEF nuls
    <3> QED BY <1>3, <2>1, LeastElement
  <2>3. m \in nuls /\ \A y \in nuls : m <= y
    <3> HIDE DEF nuls
    <3> QED BY <2>2 DEF Min
  <2> HIDE DEF m
  <2>4. m \in 1..n /\ b[m] = 0 /\ m - 1 \in 0..n /\ m - 1 \in Nat
    BY <1>1, <2>3
  <2>5. \A i \in 1..(m - 1) : i \in 1..n /\ b[i] # 0
    BY <1>1, <2>3, <2>4
  <2>6. r \in Seq(Nat) /\ Len(r) = m - 1 /\ \A i \in 1..(m - 1) : r[i] = b[i]
    BY <2>4
  <2>7. UpToNul(b) = r
    BY <1>3 DEF UpToNul, m
  <2> HIDE DEF r, nuls
  <2> QED BY <1>1, <2>4, <2>5, <2>6, <2>7 DEF IsUpToNul
<1> QED BY <1>2, <1>3

\* Where two fields agree up to the end of the first, and the second goes on
\* with a NUL if it does, they hold the same name.
LEMMA SameName ==
  ASSUME NEW b \in Seq(Nat), NEW c \in Seq(Nat), Len(b) <= Len(c),
         \A i \in 1..Len(b) : b[i] = c[i], Len(b) = Len(c) \/ c[Len(b) + 1] = 0
  PROVE  UpToNul(b) = UpToNul(c)
<1> DEFINE r == UpToNul(b)
           s == UpToNul(c)
<1>1. IsUpToNul(b, r) /\ IsUpToNul(c, s)
  BY UpToNulIs
<1> HIDE DEF r, s
<1>2. /\ r \in Seq(Nat) /\ Len(r) <= Len(b) /\ \A i \in 1..Len(r) : r[i] = b[i] /\ b[i] # 0
      /\ Len(r) = Len(b) \/ b[Len(r) + 1] = 0
  BY <1>1 DEF IsUpToNul
<1>3. /\ s \in Seq(Nat) /\ Len(s) <= Len(c) /\ \A i \in 1..Len(s) : s[i] = c[i] /\ c[i] # 0
      /\ Len(s) = Len(c) \/ c[Len(s) + 1] = 0
  BY <1>1 DEF IsUpToNul
<1>4. Len(b) \in Nat /\ Len(c) \in Nat /\ Len(r) \in Nat /\ Len(s) \in Nat
  BY <1>2, <1>3
<1>5. ~(Len(r) < Len(s))
  <2> SUFFICES ASSUME Len(r) < Len(s) PROVE FALSE
    OBVIOUS
  <2>1. Len(r) + 1 \in 1..Len(s) /\ c[Len(r) + 1] # 0
    BY <1>3, <1>4
  <2>2. CASE Len(r) = Len(b)
    BY <1>3, <1>4, <2>1, <2>2
  <2>3. CASE Len(r) # Len(b)
    <3>1. Len(r) + 1 \in 1..Len(b) /\ b[Len(r) + 1] = 0
      BY <1>2, <1>4, <2>3
    <3>2. b[Len(r) + 1] = c[Len(r) + 1]
      BY <3>1
    <3> QED BY <2>1, <3>1, <3>2
  <2> QED BY <2>2, <2>3
<1>6. ~(Len(s) < Len(r))
  <2> SUFFICES ASSUME Len(s) < Len(r) PROVE FALSE
    OBVIOUS
  <2>1. Len(s) + 1 \in 1..Len(r) /\ Len(s) + 1 \in 1..Len(b) /\ b[Len(s) + 1] # 0
    BY <1>2, <1>4
  <2>2. Len(s) # Len(c)
    BY <1>2, <1>4
  <2> QED BY <1>3, <2>1, <2>2
<1>7. Len(r) = Len(s)
  BY <1>4, <1>5, <1>6
<1>8. \A i \in 1..Len(r) : r[i] = s[i]
  BY <1>2, <1>3, <1>4, <1>7
<1>9. r = s
  <2>1. r \in Seq(Nat) /\ s \in Seq(Nat)
    BY <1>2, <1>3
  <2> QED BY ONLY <1>7, <1>8, <2>1, SeqEqual
<1> QED BY <1>9 DEF r, s

\* The bytes of a field that is written whole, with its padding, and those of
\* the encoding that is cut, hold the same name.
LEMMA FieldsAgree ==
  ASSUME NEW e \in Seq(Nat), NEW w \in Nat
  PROVE  UpToNul(SubSeq(e, 1, Min({Len(e), w}))) = UpToNul(SubSeq(e \o [n \in 1..w |-> 0], 1, w))
<1> DEFINE n == Len(e)
           z == [k \in 1..w |-> 0]
           q == e \o z
           m == Min({n, w})
           b == SubSeq(e, 1, m)
           c == SubSeq(q, 1, w)
<1>1. n \in Nat /\ \A i \in 1..n : e[i] \in Nat
  OBVIOUS
<1>2. z \in Seq(Nat) /\ Len(z) = w /\ \A i \in 1..w : z[i] = 0
  <2>1. z \in [1..w -> Nat] /\ DOMAIN z = 1..w /\ \A i \in 1..w : z[i] = 0
    OBVIOUS
  <2> HIDE DEF z
  <2>2. z \in Seq(Nat)
    BY <2>1
  <2> QED BY <2>1, <2>2
<1>3. /\ q \in Seq(Nat) /\ Len(q) = n + w
      /\ \A i \in 1..(n + w) : q[i] = IF i <= n THEN e[i] ELSE z[i - n]
  <2> HIDE DEF z
  <2> QED BY <1>2, ConcatProperties
<1>4. m \in {n, w} /\ m <= n /\ m <= w
  <2>1. \E x \in {n, w} : \A y \in {n, w} : x <= y
    BY <1>1
  <2> HIDE DEF n
  <2>2. m \in {n, w} /\ \A y \in {n, w} : m <= y
    BY <2>1 DEF Min
  <2> QED BY <2>2
<1> HIDE DEF q, z, m
<1>5. b \in Seq(Nat) /\ Len(b) = m /\ \A i \in 1..m : b[i] = e[i]
  BY <1>1, <1>4
<1>6. c \in Seq(Nat) /\ Len(c) = w /\ \A i \in 1..w : c[i] = q[i]
  BY <1>1, <1>3
<1> HIDE DEF b, c
<1>7. \A i \in 1..m : b[i] = c[i]
  <2> TAKE i \in 1..m
  <2>1. i \in 1..w /\ i \in 1..(n + w) /\ i <= n
    <3> HIDE DEF n
    <3> QED BY <1>1, <1>4
  <2> QED BY <1>3, <1>5, <1>6, <2>1
<1>8. m = w \/ c[m + 1] = 0
  <2> SUFFICES ASSUME m # w PROVE c[m + 1] = 0
    OBVIOUS
  <2>1. m = n /\ n + 1 \in 1..w /\ n + 1 \in 1..(n + w) /\ ~(n + 1 <= n) /\ (n + 1) - n = 1 /\ 1 \in 1..w
    BY <1>1, <1>4
  <2> HIDE DEF n
  <2> QED BY <1>2, <1>3, <1>6, <2>1
<1>9. UpToNul(b) = UpToNul(c)
  BY <1>1, <1>4, <1>5, <1>6, <1>7, <1>8, SameName
<1> QED BY <1>9 DEF b, c, m, n, q, z

Tables == {Bones, Morphs}

LEMMA TableIs ==
  ASSUME NEW t \in Tables
  PROVE  /\ Len(t) \in Nat /\ DOMAIN t = 1..Len(t)
         /\ \A i \in 1..Len(t) : t[i].sourceIndex \in Nat /\ EncodeCp932(t[i].name) \in Seq(Nat)
         /\ \A i, j \in 1..Len(t) : t[i].sourceIndex = t[j].sourceIndex => i = j
<1>1. /\ t \in Seq(Range(t))
      /\ \A i \in DOMAIN t : /\ t[i].sourceIndex \in Nat /\ t[i].name \in Seq(Range(t[i].name))
                             /\ \A c \in Range(t[i].name) : Encoded(c) \in Seq(Nat)
      /\ \A i, j \in DOMAIN t : t[i].sourceIndex = t[j].sourceIndex => i = j
  BY ElementsAssumption DEF Tables
<1>2. Len(t) \in Nat /\ DOMAIN t = 1..Len(t)
  BY <1>1
<1>3. ASSUME NEW i \in 1..Len(t) PROVE EncodeCp932(t[i].name) \in Seq(Nat)
  <2> DEFINE nm == t[i].name
             q == [k \in DOMAIN nm |-> Encoded(nm[k])]
  <2>1. nm \in Seq(Range(nm)) /\ \A c \in Range(nm) : Encoded(c) \in Seq(Nat)
    BY <1>1, <1>2
  <2> HIDE DEF nm
  <2>2. Len(nm) \in Nat /\ DOMAIN nm = 1..Len(nm)
    BY <2>1
  <2>3. \A k \in 1..Len(nm) : Encoded(nm[k]) \in Seq(Nat)
    BY <2>1, <2>2 DEF Range
  <2>4. q \in [1..Len(nm) -> Seq(Nat)]
    BY <2>2, <2>3
  <2>5. q \in Seq(Seq(Nat))
    <3> HIDE DEF q
    <3> QED BY <2>2, <2>4
  <2>6. EncodeCp932(nm) = Chained(q)
    BY DEF EncodeCp932
  <2> HIDE DEF q
  <2>7. Chained(q) \in Seq(Nat)
    BY <2>5, ChainedType
  <2> QED BY <2>6, <2>7 DEF nm
<1> QED BY <1>1, <1>2, <1>3

\* A name means the elements that Match looks it up among.
LEMMA MeansAre ==
  ASSUME NEW t \in Tables, NEW w \in Nat, NEW bytes
  PROVE  Means(t, w, bytes) = IF bytes = <<>> THEN {} ELSE Elements(t, w, bytes)
<1>1. ASSUME NEW i \in DOMAIN t
      PROVE  FieldBytes(t[i].name, w)
               = UpToNul(SubSeq(EncodeCp932(t[i].name) \o [n \in 1..w |-> 0], 1, w))
  <2> DEFINE e == EncodeCp932(t[i].name)
  <2>1. e \in Seq(Nat)
    BY TableIs
  <2>2. FieldBytes(t[i].name, w) = UpToNul(SubSeq(e, 1, Min({Len(e), w})))
    BY DEF FieldBytes
  <2> HIDE DEF e
  <2>3. UpToNul(SubSeq(e, 1, Min({Len(e), w}))) = UpToNul(SubSeq(e \o [n \in 1..w |-> 0], 1, w))
    BY <2>1, FieldsAgree
  <2> QED BY <2>2, <2>3 DEF e
<1>2. CASE bytes = <<>>
  BY <1>2 DEF Means
<1>3. CASE bytes # <<>>
  BY <1>1, <1>3 DEF Means, Elements
<1> QED BY <1>2, <1>3

\* Match is what a name means.
LEMMA MatchIs ==
  ASSUME NEW t \in Tables, NEW w \in Nat, NEW bytes
  PROVE  /\ Match(t, w, bytes) = Unbound => Meant(t, w, bytes) = {}
         /\ Match(t, w, bytes) # Unbound =>
              /\ Match(t, w, bytes) \in Elements(t, w, bytes) /\ Match(t, w, bytes) \in 1..Len(t)
              /\ Meant(t, w, bytes) = {Match(t, w, bytes)}
<1> DEFINE E == Elements(t, w, bytes)
           M == Means(t, w, bytes)
           at(i) == t[i].sourceIndex
           x == CHOOSE i \in E : \A j \in E : t[i].sourceIndex <= t[j].sourceIndex
<1>1. /\ Len(t) \in Nat /\ DOMAIN t = 1..Len(t) /\ \A i \in 1..Len(t) : at(i) \in Nat
      /\ \A i, j \in 1..Len(t) : at(i) = at(j) => i = j
  BY TableIs
<1>2. E \subseteq 1..Len(t)
  BY <1>1 DEF Elements
<1>3. Match(t, w, bytes) = IF bytes = <<>> \/ E = {} THEN Unbound ELSE x
  BY DEF Match
<1>4. M = IF bytes = <<>> THEN {} ELSE E
  BY MeansAre
<1>5. Meant(t, w, bytes) = {i \in M : \A j \in M : at(i) <= at(j)}
  BY DEF Meant
<1> HIDE DEF E, M
<1>6. CASE bytes = <<>> \/ E = {}
  BY <1>3, <1>4, <1>5, <1>6
<1>7. CASE ~(bytes = <<>> \/ E = {})
  <2> DEFINE A == {at(i) : i \in E}
  <2>1. A \in SUBSET Int /\ IsFiniteSet(A) /\ A # {}
    <3>1. A \in SUBSET Int /\ A # {}
      BY <1>1, <1>2, <1>7
    <3>2. IsFiniteSet(E)
      <4>1. ASSUME NEW n \in Nat, E \subseteq 1..n PROVE IsFiniteSet(E)
        <5>1. IsFiniteSet(1..n) /\ E \in SUBSET (1..n)
          BY <4>1, FS_Interval
        <5> QED BY <5>1, FS_Subset
      <4> QED BY <1>1, <1>2, <4>1
    <3>3. [i \in E |-> at(i)] \in Surjection(E, A)
      BY DEF Surjection
    <3>4. IsFiniteSet(A)
      <4> HIDE DEF A
      <4> QED BY <3>2, <3>3, FS_Surjection
    <3> QED BY <3>1, <3>4
  <2>2. PICK a \in A : \A b \in A : a <= b
    <3> HIDE DEF A
    <3> QED BY <2>1, LeastElement
  <2>3. \E i \in E : \A j \in E : at(i) <= at(j)
    BY <2>2
  <2>4. x \in E /\ \A j \in E : at(x) <= at(j)
    BY <2>3
  <2> HIDE DEF x
  <2>5. ASSUME NEW i \in E, \A j \in E : at(i) <= at(j) PROVE i = x
    <3>1. at(i) <= at(x) /\ at(x) <= at(i) /\ i \in 1..Len(t) /\ x \in 1..Len(t)
      BY <1>2, <2>4, <2>5
    <3>2. at(i) \in Nat /\ at(x) \in Nat
      BY <1>1, <3>1
    <3>3. at(i) = at(x)
      <4> HIDE DEF at
      <4> QED BY <3>1, <3>2
    <3> QED BY <1>1, <3>1, <3>3
  <2>6. Match(t, w, bytes) = x /\ M = E
    BY <1>3, <1>4, <1>7
  <2>7. {i \in E : \A j \in E : at(i) <= at(j)} = {x}
    BY <2>4, <2>5
  <2>8. x \in 1..Len(t) /\ x # Unbound
    BY <1>1, <1>2, <2>4 DEF Unbound
  <2>9. Meant(t, w, bytes) = {x}
    <3> HIDE DEF at
    <3> QED BY <1>5, <2>6, <2>7
  <2> QED BY <2>4, <2>6, <2>8, <2>9 DEF E
<1> QED BY <1>6, <1>7

\* Two names do not mean the same element.
LEMMA MatchesDiffer ==
  ASSUME NEW t \in Tables, NEW w \in Nat, NEW b, NEW c,
         Match(t, w, b) # Unbound, Match(t, w, b) = Match(t, w, c)
  PROVE  b = c
<1>1. Match(t, w, b) \in Elements(t, w, b) /\ Match(t, w, c) \in Elements(t, w, c)
  BY MatchIs
<1> QED BY <1>1 DEF Elements

-----------------------------------------------------------------------------
(* Bind: what is stored *)

LEMMA ListOf ==
  ASSUME NEW n \in Nat, NEW S, NEW f \in [1..n -> S]
  PROVE  f \in Seq(S) /\ Len(f) = n /\ DOMAIN f = 1..n /\ \A i \in 1..n : f[i] \in S
<1>1. f \in Seq(S) /\ DOMAIN f = 1..n
  OBVIOUS
<1>2. Len(f) = n
  BY <1>1
<1> QED BY <1>1, <1>2

\* The tracks of a list once they are sorted.
LEMMA SortedTracks ==
  ASSUME NEW rs \in KeyLists
  PROVE  /\ Len(Sorted(Tracks(rs))) \in Nat
         /\ \A k \in 1..Len(Sorted(Tracks(rs))) :
              /\ Sorted(Tracks(rs))[k].name \in NamesIn(rs)
              /\ Sorted(Tracks(rs))[k].keys = SortAndDeduplicate(OfName(rs, Sorted(Tracks(rs))[k].name))
         /\ \A k, l \in 1..Len(Sorted(Tracks(rs))) :
              Sorted(Tracks(rs))[k].name = Sorted(Tracks(rs))[l].name => k = l
         /\ \A n \in NamesIn(rs) : \E k \in 1..Len(Sorted(Tracks(rs))) : Sorted(Tracks(rs))[k].name = n
<1> DEFINE ts == Tracks(rs)
           m == Len(ts)
           T(k) == [name |-> ts[k].name, keys |-> SortAndDeduplicate(ts[k].records)]
           q == [k \in 1..m |-> T(k)]
<1>1. /\ m \in Nat
      /\ \A k \in 1..m : ts[k].name \in NamesIn(rs) /\ ts[k].records = OfName(rs, ts[k].name)
      /\ \A k, l \in 1..m : ts[k].name = ts[l].name => k = l
      /\ \A n \in NamesIn(rs) : \E k \in 1..m : ts[k].name = n
  BY TracksAre
<1>2. Sorted(ts) = q
  BY DEF Sorted
<1> HIDE DEF ts
<1>3. Len(q) = m /\ \A k \in 1..m : q[k] = T(k)
  <2>1. q \in [1..m -> {T(k) : k \in 1..m}] /\ \A k \in 1..m : q[k] = T(k)
    OBVIOUS
  <2> HIDE DEF q
  <2> QED BY <1>1, <2>1, ListOf
<1> HIDE DEF q, m
<1>4. \A k \in 1..m : q[k].name = ts[k].name /\ q[k].keys = SortAndDeduplicate(ts[k].records)
  BY <1>3
<1>5. \A k \in 1..m : q[k].name \in NamesIn(rs) /\ q[k].keys = SortAndDeduplicate(OfName(rs, q[k].name))
  BY <1>1, <1>4
<1>6. \A k, l \in 1..m : q[k].name = q[l].name => k = l
  BY <1>1, <1>4
<1>7. \A n \in NamesIn(rs) : \E k \in 1..m : q[k].name = n
  BY <1>1, <1>4
<1>8. Sorted(Tracks(rs)) = q
  BY <1>2 DEF ts
<1> QED BY <1>1, <1>3, <1>5, <1>6, <1>7, <1>8

\* The names of a list that bind, and what is bound.
BindingNames(rs, t, w) == {n \in NamesIn(rs) : Match(t, w, n) # Unbound}
BoundTrack(rs, t, w, n) == [element |-> Match(t, w, n), keys |-> SortAndDeduplicate(OfName(rs, n))]

LEMMA BoundIs ==
  ASSUME NEW rs \in KeyLists, NEW t \in Tables, NEW w \in Nat
  PROVE  /\ Range(Bound(Sorted(Tracks(rs)), t, w)) = {BoundTrack(rs, t, w, n) : n \in BindingNames(rs, t, w)}
         /\ Ascends(Bound(Sorted(Tracks(rs)), t, w))
<1> DEFINE ts == Sorted(Tracks(rs))
           m == Len(ts)
           P(k) == [element |-> Match(t, w, ts[k].name), keys |-> ts[k].keys]
           all == [k \in 1..m |-> P(k)]
           S == {o \in Range(all) : o.element # Unbound}
           out == Selected(all, S)
           M == Len(out)
           D == 1..M
           R == {p \in D \X D : out[p[1]].element < out[p[2]].element}
           place == OrderedBy(D, R)
           B == [i \in D |-> out[place[i]]]
<1>1. /\ m \in Nat
      /\ \A k \in 1..m : ts[k].name \in NamesIn(rs) /\ ts[k].keys = SortAndDeduplicate(OfName(rs, ts[k].name))
      /\ \A k, l \in 1..m : ts[k].name = ts[l].name => k = l
      /\ \A n \in NamesIn(rs) : \E k \in 1..m : ts[k].name = n
  BY SortedTracks
<1>2. Bound(ts, t, w) = B
  BY DEF Bound
<1> HIDE DEF ts
<1> DEFINE V == {P(k) : k \in 1..m}
<1>3. all \in Seq(V) /\ Len(all) = m /\ \A k \in 1..m : all[k] = P(k)
  <2>1. all \in [1..m -> V] /\ \A k \in 1..m : all[k] = P(k)
    OBVIOUS
  <2> HIDE DEF all, V
  <2> QED BY <1>1, <2>1, ListOf
<1>4. \A k \in 1..m : all[k] \in S <=> Match(t, w, ts[k].name) # Unbound
  <2> TAKE k \in 1..m
  <2>1. all[k] \in Range(all)
    <3>1. DOMAIN all = 1..m
      OBVIOUS
    <3> HIDE DEF all
    <3> QED BY <3>1 DEF Range
  <2>2. all[k].element = Match(t, w, ts[k].name)
    OBVIOUS
  <2> HIDE DEF all
  <2> QED BY <2>1, <2>2
<1>5. out \in Seq(V) /\ \E e \in [1..M -> 1..m] : PlacesOf(all, S, out, e)
  <2> HIDE DEF all, S, V, out
  <2>1. \A z \in Seq(V) : /\ Selected(z, S) \in Seq(V)
                          /\ \E e \in [1..Len(Selected(z, S)) -> 1..Len(z)] : PlacesOf(z, S, Selected(z, S), e)
    BY SelectedPlaces
  <2> QED BY <1>3, <2>1 DEF out
<1>6. PICK e \in [1..M -> 1..m] : PlacesOf(all, S, out, e)
  BY <1>5
<1>7. M \in Nat
  <2> HIDE DEF out, V
  <2> QED BY <1>5
<1> HIDE DEF out, all, S
<1>8. /\ \A i, k \in 1..M : i < k => e[i] < e[k]
      /\ \A i \in 1..M : out[i] = P(e[i]) /\ Match(t, w, ts[e[i]].name) # Unbound /\ e[i] \in 1..m
      /\ \A l \in 1..m : Match(t, w, ts[l].name) # Unbound => \E i \in 1..M : e[i] = l
  <2>1. \A i \in 1..M : e[i] \in 1..m
    OBVIOUS
  <2>2. /\ \A i, k \in 1..M : i < k => e[i] < e[k]
        /\ \A i \in 1..M : out[i] = all[e[i]] /\ all[e[i]] \in S
        /\ \A l \in 1..m : all[l] \in S => \E i \in 1..M : e[i] = l
    BY <1>3, <1>6 DEF PlacesOf
  <2> HIDE DEF P
  <2> QED BY <1>3, <1>4, <2>1, <2>2
<1> DEFINE nm(i) == ts[e[i]].name
<1>9. \A i \in D : out[i].element = Match(t, w, nm(i)) /\ out[i].element \in Nat
  <2> TAKE i \in D
  <2>1. out[i] = P(e[i]) /\ Match(t, w, nm(i)) # Unbound
    BY <1>8
  <2>2. out[i].element = Match(t, w, nm(i))
    BY ONLY <2>1
  <2> HIDE DEF nm
  <2>3. Match(t, w, nm(i)) \in 1..Len(t)
    BY <2>1, MatchIs
  <2>4. Len(t) \in Nat
    BY TableIs
  <2> QED BY <2>2, <2>3, <2>4
<1>10. ASSUME NEW i \in D, NEW k \in D, out[i].element = out[k].element PROVE i = k
  <2>1. Match(t, w, nm(i)) # Unbound /\ Match(t, w, nm(i)) = Match(t, w, nm(k))
    BY ZenonT(60), <1>8, <1>9, <1>10
  <2>2. nm(i) = nm(k)
    <3> HIDE DEF nm
    <3> QED BY <2>1, MatchesDiffer
  <2>3. e[i] \in 1..m /\ e[k] \in 1..m
    BY <1>8
  <2>4. e[i] = e[k]
    BY <1>1, <2>2, <2>3
  <2>5. i \in Nat /\ k \in Nat /\ e[i] \in Nat
    BY <1>1, <1>7, <2>3
  <2>6. ~(i < k) /\ ~(k < i)
    BY <1>8, <2>4, <2>5
  <2> QED BY <2>5, <2>6
<1>11. IsFiniteSet(D) /\ Cardinality(D) = M
  <2> HIDE DEF M
  <2> QED BY <1>7, FS_Interval
<1>12. \A i, j \in D : <<i, j>> \in R <=> out[i].element < out[j].element
  OBVIOUS
<1> HIDE DEF R, D
<1>13. StrictOrder(D, R)
  <2>1. \A i \in D : ~(out[i].element < out[i].element)
    BY <1>9
  <2>2. ASSUME NEW p \in D, NEW q \in D, NEW r \in D,
               out[p].element < out[q].element, out[q].element < out[r].element
        PROVE  out[p].element < out[r].element
    BY <2>2, <1>9
  <2>3. ASSUME NEW p \in D, NEW q \in D, p # q
        PROVE  out[p].element < out[q].element \/ out[q].element < out[p].element
    BY <2>3, <1>9, <1>10
  <2> QED BY <1>12, <2>1, <2>2, <2>3 DEF StrictOrder
<1>14. /\ place \in [D -> D] /\ \A p \in D : \E i \in D : place[i] = p
       /\ \A i, k \in D : i < k => <<place[i], place[k]>> \in R
  <2>1. /\ place \in [1..M -> D] /\ \A p \in D : \E i \in 1..M : place[i] = p
        /\ InOrderOf(R, place, M)
    BY <1>11, <1>13, OrderedIs
  <2> HIDE DEF place
  <2> QED BY <2>1 DEF D, InOrderOf
<1> HIDE DEF place
<1>15. Range(B) = {out[i] : i \in D}
  <2>1. DOMAIN B = D /\ \A i \in D : B[i] = out[place[i]]
    OBVIOUS
  <2> HIDE DEF B
  <2> QED BY <1>14, <2>1 DEF Range
<1>19. Ascends(B)
  <2>1. DOMAIN B = D /\ \A i \in D : B[i] = out[place[i]]
    OBVIOUS
  <2> HIDE DEF B
  <2>2. ASSUME NEW i \in D, NEW k \in D, i < k PROVE B[i].element < B[k].element
    <3>1. place[i] \in D /\ place[k] \in D /\ <<place[i], place[k]>> \in R
      BY <1>14, <2>2
    <3>2. out[place[i]].element < out[place[k]].element
      BY <1>12, <3>1
    <3> QED BY <2>1, <3>2
  <2> QED BY <2>1, <2>2 DEF Ascends
<1>16. ASSUME NEW i \in D
       PROVE  ts[e[i]].name \in BindingNames(rs, t, w) /\ out[i] = BoundTrack(rs, t, w, ts[e[i]].name)
  <2>1. i \in 1..M
    BY DEF D
  <2>2. ts[e[i]].name \in NamesIn(rs) /\ ts[e[i]].keys = SortAndDeduplicate(OfName(rs, ts[e[i]].name))
    BY <1>1, <1>8, <2>1
  <2>3. out[i] = [element |-> Match(t, w, ts[e[i]].name), keys |-> ts[e[i]].keys]
        /\ Match(t, w, ts[e[i]].name) # Unbound
    BY <1>8, <2>1
  <2> QED BY <2>2, <2>3 DEF BindingNames, BoundTrack
<1>17. ASSUME NEW n \in BindingNames(rs, t, w) PROVE \E i \in D : ts[e[i]].name = n
  <2>1. n \in NamesIn(rs) /\ Match(t, w, n) # Unbound
    BY DEF BindingNames
  <2>2. PICK l \in 1..m : ts[l].name = n
    BY <1>1, <2>1
  <2>3. \E i \in 1..M : e[i] = l
    BY <1>8, <2>1, <2>2
  <2> QED BY <2>2, <2>3 DEF D
<1>18. {out[i] : i \in D} = {BoundTrack(rs, t, w, n) : n \in BindingNames(rs, t, w)}
  BY <1>16, <1>17
<1> QED BY <1>2, <1>15, <1>18, <1>19 DEF ts

-----------------------------------------------------------------------------
(* The store of one kind of key *)

NamedKinds == {"bones", "morphs", "ik"}
StageKinds == {"cameras", "lights", "shadows", "visibility"}
TableOf(kind) == IF kind = "morphs" THEN Morphs ELSE Bones
WidthOf(kind) == IF kind = "ik" THEN IkField ELSE BoneField

LEMMA TableOfKind ==
  ASSUME NEW kind PROVE TableOf(kind) \in Tables /\ WidthOf(kind) \in Nat
BY FieldAssumption DEF TableOf, WidthOf, Tables

\* k is a key of this kind; those of the stage have no name.
IsKey(k, kind) == k \in KeySet /\ k.kind = kind /\ (kind \in StageKinds => k.name = <<>>)
KeysOf(kind) == {k \in KeySet : IsKey(k, kind)}

LEMMA ElementIs ==
  ASSUME NEW kind, NEW k \in KeysOf(kind)
  PROVE  /\ kind \in NamedKinds =>
              ElementOf(k) = [kind |-> kind, element |-> Meant(TableOf(kind), WidthOf(kind), k.name)]
         /\ kind \in StageKinds => ElementOf(k) = [kind |-> kind, element |-> {None}]
         /\ kind \in NamedKinds \cup StageKinds
<1>1. k.kind = kind /\ kind \in Kinds
  BY KeyFields DEF KeysOf, IsKey
<1>2. kind \in NamedKinds \cup StageKinds
  BY <1>1 DEF Kinds, NamedKinds, StageKinds, Sections, Range
<1>3. ASSUME kind \in NamedKinds PROVE ByName(k, Meant) = Meant(TableOf(kind), WidthOf(kind), k.name)
  <2>1. CASE kind = "bones"
    BY <1>1, <2>1 DEF ByName, TableOf, WidthOf
  <2>2. CASE kind = "morphs"
    BY <1>1, <2>2 DEF ByName, TableOf, WidthOf
  <2>3. CASE kind = "ik"
    BY <1>1, <2>3 DEF ByName, TableOf, WidthOf
  <2> QED BY <1>3, <2>1, <2>2, <2>3 DEF NamedKinds
<1>4. ASSUME kind \in StageKinds PROVE ByName(k, Meant) = {None}
  <2>1. k.kind # "bones" /\ k.kind # "morphs" /\ k.kind # "ik"
    BY <1>1, <1>4 DEF StageKinds
  <2> QED BY <2>1 DEF ByName
<1> QED BY <1>1, <1>2, <1>3, <1>4 DEF ElementOf

\* Two names do not mean the same element.
LEMMA ElementsDiffer ==
  ASSUME NEW kind, NEW k \in KeysOf(kind), NEW l \in KeysOf(kind),
         ElementOf(k) = ElementOf(l), ElementOf(k).element # {}
  PROVE  k.name = l.name
<1> DEFINE T == TableOf(kind)
           W == WidthOf(kind)
<1>1. kind \in NamedKinds \cup StageKinds
  BY ElementIs
<1>2. CASE kind \in StageKinds
  BY <1>2 DEF KeysOf, IsKey
<1>3. CASE kind \in NamedKinds
  <2>1. ElementOf(k).element = Meant(T, W, k.name) /\ ElementOf(l).element = Meant(T, W, l.name)
    BY <1>3, ElementIs
  <2>2. T \in Tables /\ W \in Nat
    BY TableOfKind
  <2> HIDE DEF T, W
  <2>3. /\ Match(T, W, k.name) # Unbound /\ Meant(T, W, k.name) = {Match(T, W, k.name)}
        /\ Match(T, W, l.name) # Unbound /\ Meant(T, W, l.name) = {Match(T, W, l.name)}
    BY <2>1, <2>2, MatchIs
  <2>4. Match(T, W, k.name) = Match(T, W, l.name)
    BY <2>1, <2>3
  <2> QED BY <2>2, <2>3, <2>4, MatchesDiffer
<1> QED BY <1>1, <1>2, <1>3

SlotOf(k) == [at |-> <<ElementOf(k), k.frame>>, value |-> k.value]
Placed(rs) == {i \in Lasting(rs) : ElementOf(rs[i]).element # {}}
\* What is stored of a list of keys.
KindStore(rs) == {SlotOf(rs[i]) : i \in Placed(rs)}

LEMMA KeysOfKind ==
  ASSUME NEW kind, NEW rs \in Seq(KeysOf(kind))
  PROVE  /\ rs \in KeyLists /\ Len(rs) \in Nat /\ DOMAIN rs = 1..Len(rs)
         /\ \A i \in 1..Len(rs) : rs[i] \in KeysOf(kind) /\ rs[i].frame \in Nat
         /\ \A k \in KeysOf(kind) : k.kind = kind
<1>1. KeysOf(kind) \subseteq KeySet
  BY DEF KeysOf
<1>2. rs \in KeyLists
  BY <1>1 DEF KeyLists
<1>3. \A i \in 1..Len(rs) : rs[i] \in KeysOf(kind)
  OBVIOUS
<1> QED BY <1>2, <1>3, KeysOfList DEF KeysOf, IsKey

\* Bound tracks are what is stored of their records.
LEMMA NamedStore ==
  ASSUME NEW kind \in NamedKinds, NEW rs \in Seq(KeysOf(kind))
  PROVE  UNION {Slots(kind, {b.element}, b.keys) :
                  b \in Range(Bound(Sorted(Tracks(rs)), TableOf(kind), WidthOf(kind)))} = KindStore(rs)
<1> DEFINE T == TableOf(kind)
           W == WidthOf(kind)
           N == BindingNames(rs, T, W)
           B(n) == BoundTrack(rs, T, W, n)
           S(n) == Slots(kind, {B(n).element}, B(n).keys)
           J(n) == {j \in Lasting(rs) : rs[j].name = n}
<1>1. T \in Tables /\ W \in Nat
  BY TableOfKind
<1>2. rs \in KeyLists /\ \A i \in 1..Len(rs) : rs[i] \in KeysOf(kind)
  BY KeysOfKind
<1>3. Range(Bound(Sorted(Tracks(rs)), T, W)) = {B(n) : n \in N}
  <2> HIDE DEF T, W
  <2> QED BY <1>1, <1>2, BoundIs
<1> HIDE DEF T, W
<1>4. Lasting(rs) \subseteq 1..Len(rs)
  BY DEF Lasting
<1>5. ASSUME NEW i \in 1..Len(rs)
      PROVE  /\ ElementOf(rs[i]) = [kind |-> kind, element |-> Meant(T, W, rs[i].name)]
             /\ rs[i].name \in NamesIn(rs)
             /\ rs[i].name \in N => Meant(T, W, rs[i].name) = {Match(T, W, rs[i].name)}
             /\ rs[i].name \notin N => Meant(T, W, rs[i].name) = {}
  <2>1. ElementOf(rs[i]) = [kind |-> kind, element |-> Meant(T, W, rs[i].name)]
    BY <1>2, ElementIs DEF T, W
  <2>2. rs[i].name \in NamesIn(rs)
    BY DEF NamesIn
  <2> QED BY <1>1, <2>1, <2>2, MatchIs DEF BindingNames
<1>6. ASSUME NEW n \in N PROVE S(n) = {SlotOf(rs[i]) : i \in J(n)}
  <2> DEFINE q == SortAndDeduplicate(OfName(rs, n))
             E == [kind |-> kind, element |-> {Match(T, W, n)}]
             at(k) == [at |-> <<E, k.frame>>, value |-> k.value]
  <2>1. B(n).element = Match(T, W, n) /\ B(n).keys = q
    BY DEF BoundTrack
  <2>2. q \in KeyLists /\ Range(q) = {rs[i] : i \in J(n)}
    BY <1>2, NamedKeys
  <2>3. Slots(kind, {Match(T, W, n)}, q) = {at(q[i]) : i \in DOMAIN q}
    BY DEF Slots
  <2> HIDE DEF q
  <2>4. {at(q[i]) : i \in DOMAIN q} = {at(k) : k \in Range(q)}
    <3> HIDE DEF at
    <3> QED BY DEF Range
  <2>5. {at(k) : k \in Range(q)} = {at(rs[i]) : i \in J(n)}
    <3> HIDE DEF at, J
    <3> QED BY <2>2
  <2>6. \A i \in J(n) : at(rs[i]) = SlotOf(rs[i])
    <3> TAKE i \in J(n)
    <3>1. i \in 1..Len(rs) /\ rs[i].name = n
      BY <1>4
    <3>2. ElementOf(rs[i]) = E
      BY <1>5, <3>1
    <3> HIDE DEF E
    <3> QED BY <3>2 DEF SlotOf
  <2>7. {at(rs[i]) : i \in J(n)} = {SlotOf(rs[i]) : i \in J(n)}
    <3> HIDE DEF at, J
    <3> QED BY <2>6
  <2>8. S(n) = Slots(kind, {Match(T, W, n)}, q)
    BY <2>1
  <2> HIDE DEF at, J, S
  <2> QED BY <2>3, <2>4, <2>5, <2>7, <2>8
<1>7. UNION {Slots(kind, {b.element}, b.keys) : b \in {B(n) : n \in N}} = UNION {S(n) : n \in N}
  OBVIOUS
<1>8. UNION {S(n) : n \in N} = KindStore(rs)
  <2>1. ASSUME NEW x, NEW n \in N, x \in S(n) PROVE x \in KindStore(rs)
    <3>1. PICK i \in J(n) : x = SlotOf(rs[i])
      <4> HIDE DEF S, J
      <4> QED BY <1>6, <2>1
    <3>2. i \in Lasting(rs) /\ i \in 1..Len(rs) /\ rs[i].name = n
      BY <1>4
    <3>3. ElementOf(rs[i]).element # {}
      <4>1. rs[i].name \in N
        BY <3>2
      <4> HIDE DEF N
      <4>2. ElementOf(rs[i]) = [kind |-> kind, element |-> {Match(T, W, rs[i].name)}]
        BY <1>5, <3>2, <4>1
      <4>3. ElementOf(rs[i]).element = {Match(T, W, rs[i].name)}
        BY ONLY <4>2
      <4> QED BY ONLY <4>3
    <3> QED BY <3>1, <3>2, <3>3 DEF KindStore, Placed
  <2>2. ASSUME NEW x \in KindStore(rs) PROVE \E n \in N : x \in S(n)
    <3>1. PICK i \in Lasting(rs) : x = SlotOf(rs[i]) /\ ElementOf(rs[i]).element # {}
      BY DEF KindStore, Placed
    <3>2. i \in 1..Len(rs) /\ rs[i].name \in N
      <4>1. i \in 1..Len(rs)
        BY <1>4
      <4> HIDE DEF N
      <4>2. /\ ElementOf(rs[i]) = [kind |-> kind, element |-> Meant(T, W, rs[i].name)]
            /\ rs[i].name \notin N => Meant(T, W, rs[i].name) = {}
        BY <1>5, <4>1
      <4>3. ElementOf(rs[i]).element = Meant(T, W, rs[i].name)
        BY ONLY <4>2
      <4> QED BY <3>1, <4>1, <4>2, <4>3
    <3>3. i \in J(rs[i].name)
      OBVIOUS
    <3>4. x \in S(rs[i].name)
      <4> DEFINE n == rs[i].name
      <4>1. n \in N /\ i \in J(n)
        BY <3>2, <3>3
      <4> HIDE DEF n, J, S, N
      <4>2. x \in S(n)
        BY <1>6, <3>1, <4>1
      <4> QED BY <4>2 DEF n
    <3> HIDE DEF S, N
    <3> QED BY <3>2, <3>4
  <2> HIDE DEF S, N
  <2> QED BY <2>1, <2>2
<1> QED BY <1>3, <1>7, <1>8 DEF T, W

\* What the stage has one of is stored whole.
LEMMA StageStore ==
  ASSUME NEW kind \in StageKinds, NEW rs \in Seq(KeysOf(kind))
  PROVE  Slots(kind, {None}, SortAndDeduplicate(rs)) = KindStore(rs)
<1> DEFINE q == SortAndDeduplicate(rs)
           E == [kind |-> kind, element |-> {None}]
           at(k) == [at |-> <<E, k.frame>>, value |-> k.value]
<1>1. rs \in KeyLists /\ \A i \in 1..Len(rs) : rs[i] \in KeysOf(kind)
  BY KeysOfKind
<1>2. q \in KeyLists /\ Range(q) = {rs[i] : i \in LastOfFrame(rs)}
  BY <1>1, OnePerFrame
<1>3. \A i \in 1..Len(rs) : rs[i].name = <<>> /\ ElementOf(rs[i]) = E
  BY <1>1, ElementIs DEF KeysOf, IsKey
<1>4. LastOfFrame(rs) = Lasting(rs) /\ Placed(rs) = Lasting(rs) /\ Lasting(rs) \subseteq 1..Len(rs)
  <2>1. LastOfFrame(rs) = Lasting(rs) /\ Lasting(rs) \subseteq 1..Len(rs)
    BY <1>3 DEF LastOfFrame, Lasting
  <2>2. ASSUME NEW i \in Lasting(rs) PROVE ElementOf(rs[i]).element # {}
    <3>1. ElementOf(rs[i]) = [kind |-> kind, element |-> {None}]
      BY <1>3, <2>1
    <3>2. ElementOf(rs[i]).element = {None}
      BY ONLY <3>1
    <3> QED BY ONLY <3>2
  <2> QED BY <2>1, <2>2 DEF Placed
<1>5. Slots(kind, {None}, q) = {at(q[i]) : i \in DOMAIN q}
  BY DEF Slots
<1> HIDE DEF q
<1>6. {at(q[i]) : i \in DOMAIN q} = {at(k) : k \in Range(q)}
  <2> HIDE DEF at
  <2> QED BY DEF Range
<1>7. {at(k) : k \in Range(q)} = {at(rs[i]) : i \in Lasting(rs)}
  <2> HIDE DEF at
  <2> QED BY <1>2, <1>4
<1>8. \A i \in Lasting(rs) : at(rs[i]) = SlotOf(rs[i])
  <2> TAKE i \in Lasting(rs)
  <2>1. ElementOf(rs[i]) = E
    BY <1>3, <1>4
  <2> HIDE DEF E
  <2> QED BY <2>1 DEF SlotOf
<1>9. {at(rs[i]) : i \in Lasting(rs)} = {SlotOf(rs[i]) : i \in Lasting(rs)}
  <2> HIDE DEF at
  <2> QED BY <1>8
<1> HIDE DEF at
<1> QED BY <1>4, <1>5, <1>6, <1>7, <1>9 DEF KindStore, q

\* One more key is one more write.
Written(st, k) ==
  IF ElementOf(k).element = {} THEN st
  ELSE {s \in st : s.at # <<ElementOf(k), k.frame>>} \cup {SlotOf(k)}

LEMMA StoreOfMore ==
  ASSUME NEW kind, NEW rs \in Seq(KeysOf(kind)), NEW k \in KeysOf(kind)
  PROVE  KindStore(Append(rs, k)) = Written(KindStore(rs), k)
<1> DEFINE n == Len(rs)
           q == Append(rs, k)
           same(r) == r.name = k.name /\ r.frame = k.frame
<1>1. n \in Nat /\ \A i \in 1..n : rs[i] \in KeysOf(kind)
  BY KeysOfKind
<1>2. Len(q) = n + 1 /\ q[n + 1] = k /\ \A i \in 1..n : q[i] = rs[i]
  BY OneMore
<1> HIDE DEF q, n
<1>3. \A i \in 1..(n + 1) : i \in 1..n \/ i = n + 1
  BY <1>1
<1>4. \A i \in 1..n : i \in 1..(n + 1) /\ i < n + 1
  BY <1>1
<1>5. n + 1 \in 1..(n + 1) /\ \A j \in 1..(n + 1) : ~(n + 1 < j)
  BY <1>1
<1>6. \A i \in 1..n : i \in Lasting(q) <=> i \in Lasting(rs) /\ ~same(rs[i])
  <2> TAKE i \in 1..n
  <2>1. ASSUME i \in Lasting(q) PROVE i \in Lasting(rs) /\ ~same(rs[i])
    <3>1. \A j \in 1..(n + 1) : i < j => ~(q[j].name = q[i].name /\ q[j].frame = q[i].frame)
      BY <1>2, <2>1 DEF Lasting
    <3>2. \A j \in 1..n : i < j => ~(rs[j].name = rs[i].name /\ rs[j].frame = rs[i].frame)
      BY <1>2, <1>4, <3>1
    <3>3. ~same(rs[i])
      BY <1>2, <1>4, <1>5, <3>1
    <3> QED BY <3>2, <3>3 DEF Lasting, n
  <2>2. ASSUME i \in Lasting(rs), ~same(rs[i]) PROVE i \in Lasting(q)
    <3>1. \A j \in 1..n : i < j => ~(rs[j].name = rs[i].name /\ rs[j].frame = rs[i].frame)
      BY <2>2 DEF Lasting, n
    <3>2. ASSUME NEW j \in 1..(n + 1), i < j PROVE ~(q[j].name = q[i].name /\ q[j].frame = q[i].frame)
      <4>1. CASE j \in 1..n
        BY <1>2, <3>1, <3>2, <4>1
      <4>2. CASE j = n + 1
        BY <1>2, <2>2, <4>2
      <4> QED BY <1>3, <4>1, <4>2
    <3> QED BY <1>2, <1>4, <3>2 DEF Lasting
  <2> QED BY <2>1, <2>2
<1>7. n + 1 \in Lasting(q)
  BY <1>2, <1>5 DEF Lasting
<1>8. Lasting(q) \subseteq 1..(n + 1) /\ Lasting(rs) \subseteq 1..n
  BY <1>2 DEF Lasting, n
<1>9. ASSUME NEW i \in 1..n, ElementOf(rs[i]).element # {}
      PROVE  same(rs[i]) <=> SlotOf(rs[i]).at = <<ElementOf(k), k.frame>>
  <2>1. rs[i] \in KeysOf(kind)
    BY <1>1
  <2>2. SlotOf(rs[i]).at = <<ElementOf(rs[i]), rs[i].frame>>
    BY DEF SlotOf
  <2>3. ASSUME same(rs[i]) PROVE ElementOf(rs[i]) = ElementOf(k)
    BY <2>1, <2>3, ElementIs
  <2>4. ASSUME ElementOf(rs[i]) = ElementOf(k) PROVE rs[i].name = k.name
    BY <1>9, <2>1, <2>4, ElementsDiffer
  <2> QED BY <2>2, <2>3, <2>4
<1>10. CASE ElementOf(k).element = {}
  <2>1. \A i \in 1..n : ElementOf(rs[i]).element # {} => ~same(rs[i])
    <3> SUFFICES ASSUME NEW i \in 1..n, same(rs[i]) PROVE ElementOf(rs[i]).element = {}
      OBVIOUS
    <3>1. rs[i] \in KeysOf(kind)
      BY <1>1
    <3>2. ElementOf(rs[i]) = ElementOf(k)
      BY <3>1, ElementIs
    <3> QED BY <1>10, <3>2
  <2>2. Placed(q) = Placed(rs)
    <3>1. \A i \in Placed(q) : i \in 1..n /\ i \in Placed(rs)
      <4> TAKE i \in Placed(q)
      <4>1. i \in Lasting(q) /\ ElementOf(q[i]).element # {}
        BY DEF Placed
      <4>2. i \in 1..n
        BY <1>2, <1>3, <1>8, <1>10, <4>1
      <4> QED BY <1>2, <1>6, <4>1, <4>2 DEF Placed
    <3>2. \A i \in Placed(rs) : i \in Placed(q)
      <4> TAKE i \in Placed(rs)
      <4>1. i \in 1..n /\ i \in Lasting(rs) /\ ElementOf(rs[i]).element # {}
        BY <1>8 DEF Placed
      <4> QED BY <1>2, <1>6, <2>1, <4>1 DEF Placed
    <3> QED BY <3>1, <3>2
  <2>3. \A i \in Placed(rs) : q[i] = rs[i]
    BY <1>2, <1>8 DEF Placed
  <2>4. KindStore(q) = KindStore(rs)
    BY <2>2, <2>3 DEF KindStore
  <2> QED BY <1>10, <2>4 DEF Written, q
<1>11. CASE ElementOf(k).element # {}
  <2> DEFINE left0 == {s \in KindStore(rs) : s.at # <<ElementOf(k), k.frame>>}
  <2>1. \A i \in Placed(q) : i = n + 1 \/ (i \in Placed(rs) /\ ~same(rs[i]) /\ i \in 1..n)
    <3> TAKE i \in Placed(q)
    <3>1. i \in Lasting(q) /\ ElementOf(q[i]).element # {}
      BY DEF Placed
    <3>2. ASSUME i \in 1..n PROVE i \in Placed(rs) /\ ~same(rs[i])
      BY <1>2, <1>6, <3>1, <3>2 DEF Placed
    <3> QED BY <1>3, <1>8, <3>1, <3>2
  <2>2. n + 1 \in Placed(q)
    BY <1>2, <1>7, <1>11 DEF Placed
  <2>3. \A i \in Placed(rs) : i \in 1..n /\ ElementOf(rs[i]).element # {} /\ (~same(rs[i]) => i \in Placed(q))
    BY <1>2, <1>6, <1>8 DEF Placed
  <2>4. ASSUME NEW x \in KindStore(q) PROVE x \in left0 \cup {SlotOf(k)}
    <3>1. PICK i \in Placed(q) : x = SlotOf(q[i])
      BY DEF KindStore
    <3>2. CASE i = n + 1
      BY <1>2, <3>1, <3>2
    <3>3. CASE i \in Placed(rs) /\ ~same(rs[i]) /\ i \in 1..n
      <4>1. q[i] = rs[i] /\ SlotOf(rs[i]).at # <<ElementOf(k), k.frame>>
        BY <1>2, <1>9, <2>3, <3>3
      <4> QED BY <3>1, <3>3, <4>1 DEF KindStore
    <3> QED BY <2>1, <3>2, <3>3
  <2>5. ASSUME NEW x \in left0 PROVE x \in KindStore(q)
    <3>1. PICK i \in Placed(rs) : x = SlotOf(rs[i])
      BY DEF KindStore
    <3>2. i \in 1..n /\ ~same(rs[i]) /\ i \in Placed(q) /\ q[i] = rs[i]
      BY <1>2, <1>9, <2>3, <2>5, <3>1
    <3> QED BY <3>1, <3>2 DEF KindStore
  <2>6. SlotOf(k) \in KindStore(q)
    BY <1>2, <2>2 DEF KindStore
  <2>7. KindStore(q) = left0 \cup {SlotOf(k)}
    <3> HIDE DEF left0
    <3> QED BY <2>4, <2>5, <2>6
  <2> QED BY <1>11, <2>7 DEF Written, q
<1> QED BY <1>10, <1>11

-----------------------------------------------------------------------------
(* The store of a document *)

IkRecords == [key : KeysOf("visibility"), states : Seq(KeysOf("ik"))]
SectionRecords(s) == IF s = "ik" THEN Seq(IkRecords) ELSE Seq(KeysOf(s))
IsDoc(d) ==
  /\ d = [s \in Range(Sections) |-> d[s]]
  /\ \A s \in Range(Sections) : d[s] \in SectionRecords(s)

\* The keys of one kind, in file order.
Records(d, kind) ==
  CASE kind = "visibility" -> Visibility(d["ik"])
    [] kind = "ik" -> States(d["ik"])
    [] OTHER -> d[kind]

LEMMA SectionNames ==
  /\ Range(Sections) = {"bones", "morphs", "cameras", "lights", "shadows", "ik"}
  /\ Kinds = {"bones", "morphs", "cameras", "lights", "shadows", "ik", "visibility"}
  /\ Len(Sections) = 6 /\ DOMAIN Sections = 1..6
<1>1. Len(Sections) = 6 /\ DOMAIN Sections = 1..6
  BY DEF Sections
<1>2. Range(Sections) = {"bones", "morphs", "cameras", "lights", "shadows", "ik"}
  <2>1. \A x : x \in Range(Sections) <=> \E i \in 1..6 : x = Sections[i]
    BY <1>1 DEF Range
  <2>2. /\ Sections[1] = "bones" /\ Sections[2] = "morphs" /\ Sections[3] = "cameras"
        /\ Sections[4] = "lights" /\ Sections[5] = "shadows" /\ Sections[6] = "ik"
    BY DEF Sections
  <2>3. \A i \in 1..6 : i = 1 \/ i = 2 \/ i = 3 \/ i = 4 \/ i = 5 \/ i = 6
    OBVIOUS
  <2>4. 1 \in 1..6 /\ 2 \in 1..6 /\ 3 \in 1..6 /\ 4 \in 1..6 /\ 5 \in 1..6 /\ 6 \in 1..6
    OBVIOUS
  <2> QED BY <2>1, <2>2, <2>3, <2>4
<1> QED BY <1>1, <1>2 DEF Kinds

\* The IK states of the records one after the other.
StateLists(ik) == [i \in DOMAIN ik |-> ik[i].states]

LEMMA IkIs ==
  ASSUME NEW ik \in Seq(IkRecords)
  PROVE  /\ Len(ik) \in Nat /\ DOMAIN ik = 1..Len(ik)
         /\ \A i \in 1..Len(ik) : ik[i].key \in KeysOf("visibility") /\ ik[i].states \in Seq(KeysOf("ik"))
         /\ Visibility(ik) \in Seq(KeysOf("visibility")) /\ Len(Visibility(ik)) = Len(ik)
         /\ \A i \in 1..Len(ik) : Visibility(ik)[i] = ik[i].key
         /\ StateLists(ik) \in Seq(Seq(KeysOf("ik"))) /\ Len(StateLists(ik)) = Len(ik)
         /\ \A i \in 1..Len(ik) : StateLists(ik)[i] = ik[i].states
         /\ States(ik) = Chained(StateLists(ik)) /\ States(ik) \in Seq(KeysOf("ik"))
<1>1. Len(ik) \in Nat /\ DOMAIN ik = 1..Len(ik) /\ \A i \in 1..Len(ik) : ik[i] \in IkRecords
  OBVIOUS
<1>2. \A i \in 1..Len(ik) : ik[i].key \in KeysOf("visibility") /\ ik[i].states \in Seq(KeysOf("ik"))
  BY <1>1 DEF IkRecords
<1>3. /\ Visibility(ik) \in [1..Len(ik) -> KeysOf("visibility")]
      /\ \A i \in 1..Len(ik) : Visibility(ik)[i] = ik[i].key
  BY <1>1, <1>2 DEF Visibility
<1>4. /\ StateLists(ik) \in [1..Len(ik) -> Seq(KeysOf("ik"))]
      /\ \A i \in 1..Len(ik) : StateLists(ik)[i] = ik[i].states
  BY <1>1, <1>2 DEF StateLists
<1>5. Visibility(ik) \in Seq(KeysOf("visibility")) /\ Len(Visibility(ik)) = Len(ik)
  BY <1>1, <1>3, ListOf
<1>6. StateLists(ik) \in Seq(Seq(KeysOf("ik"))) /\ Len(StateLists(ik)) = Len(ik)
  BY <1>1, <1>4, ListOf
<1>7. States(ik) = Chained(StateLists(ik))
  BY DEF States, StateLists
<1>8. States(ik) \in Seq(KeysOf("ik"))
  BY <1>6, <1>7, ChainedType
<1> QED BY <1>1, <1>2, <1>3, <1>4, <1>5, <1>6, <1>7, <1>8

LEMMA RecordsAre ==
  ASSUME NEW d, IsDoc(d), NEW kind \in Kinds
  PROVE  Records(d, kind) \in Seq(KeysOf(kind))
<1>1. d["ik"] \in Seq(IkRecords)
  BY SectionNames DEF IsDoc, SectionRecords
<1>2. ASSUME kind \notin {"ik", "visibility"} PROVE d[kind] \in Seq(KeysOf(kind))
  <2>1. kind \in Range(Sections)
    BY <1>2, SectionNames
  <2> QED BY <1>2, <2>1 DEF IsDoc, SectionRecords
<1> QED BY <1>1, <1>2, IkIs DEF Records

\* What BuildMotion and Bind make of a document.
LEMMA BuildIs ==
  ASSUME NEW d
  PROVE  /\ BuildMotion(d).bones = Sorted(Tracks(d.bones))
         /\ BuildMotion(d).morphs = Sorted(Tracks(d.morphs))
         /\ BuildMotion(d).ik = Sorted(Tracks(States(d.ik)))
         /\ BuildMotion(d).stage = [cameras |-> SortAndDeduplicate(d.cameras),
                                    lights |-> SortAndDeduplicate(d.lights),
                                    shadows |-> SortAndDeduplicate(d.shadows),
                                    visibility |-> SortAndDeduplicate(Visibility(d.ik))]
BY DEF BuildMotion

LEMMA BindIs ==
  ASSUME NEW m
  PROVE  /\ Bind(m).bones = Bound(m.bones, Bones, BoneField)
         /\ Bind(m).morphs = Bound(m.morphs, Morphs, BoneField)
         /\ Bind(m).ik = Bound(m.ik, Bones, IkField)
         /\ Bind(m).visibility = m.stage.visibility
BY DEF Bind

\* A document's store is the stores of its kinds of keys.
LEMMA StoreIs ==
  ASSUME NEW d, IsDoc(d)
  PROVE  StoreOf(d) = UNION {KindStore(Records(d, kind)) : kind \in Kinds}
<1> DEFINE m == BuildMotion(d)
           b == Bind(m)
           named == UNION {{<<k, {t.element}, t.keys>> : t \in Range(b[k])} : k \in {"bones", "morphs", "ik"}}
           stage == {<<k, {None}, Whole(m, b)[k]>> : k \in DOMAIN m.stage}
           Sl(t) == Slots(t[1], t[2], t[3])
           NS(k) == UNION {Slots(k, {t.element}, t.keys) : t \in Range(b[k])}
           WS(k) == Slots(k, {None}, Whole(m, b)[k])
<1>1. StoreOf(d) = UNION {Sl(t) : t \in named \cup stage}
  BY DEF StoreOf, StoredOf, Stored
<1>2. \A kind \in Kinds : Records(d, kind) \in Seq(KeysOf(kind))
  BY RecordsAre
<1>3. /\ m.bones = Sorted(Tracks(d.bones)) /\ m.morphs = Sorted(Tracks(d.morphs))
      /\ m.ik = Sorted(Tracks(States(d.ik)))
      /\ m.stage = [cameras |-> SortAndDeduplicate(d.cameras), lights |-> SortAndDeduplicate(d.lights),
                    shadows |-> SortAndDeduplicate(d.shadows),
                    visibility |-> SortAndDeduplicate(Visibility(d.ik))]
  BY BuildIs
<1>4. /\ b.bones = Bound(m.bones, Bones, BoneField) /\ b.morphs = Bound(m.morphs, Morphs, BoneField)
      /\ b.ik = Bound(m.ik, Bones, IkField) /\ b.visibility = m.stage.visibility
  BY BindIs
<1> HIDE DEF m, b
<1>5. DOMAIN m.stage = StageKinds
  BY <1>3 DEF StageKinds
<1>6. ASSUME NEW kind \in StageKinds
      PROVE  Whole(m, b)[kind] = m.stage[kind] /\ m.stage[kind] = SortAndDeduplicate(Records(d, kind))
  <2>1. Whole(m, b) = [m.stage EXCEPT !["visibility"] = b.visibility]
    BY DEF Whole
  <2>2. Whole(m, b)[kind] = m.stage[kind]
    BY <1>3, <1>4, <1>5, <2>1
  <2>3. ASSUME kind = "visibility" PROVE m.stage[kind] = SortAndDeduplicate(Records(d, kind))
    <3>1. m.stage["visibility"] = SortAndDeduplicate(Visibility(d.ik))
      BY <1>3
    <3>2. Records(d, "visibility") = Visibility(d.ik)
      BY DEF Records
    <3> QED BY <2>3, <3>1, <3>2
  <2>4. ASSUME kind = "cameras" PROVE m.stage[kind] = SortAndDeduplicate(Records(d, kind))
    <3>1. m.stage["cameras"] = SortAndDeduplicate(d.cameras)
      BY <1>3
    <3>2. Records(d, "cameras") = d.cameras
      BY DEF Records
    <3> QED BY <2>4, <3>1, <3>2
  <2>5. ASSUME kind = "lights" PROVE m.stage[kind] = SortAndDeduplicate(Records(d, kind))
    <3>1. m.stage["lights"] = SortAndDeduplicate(d.lights)
      BY <1>3
    <3>2. Records(d, "lights") = d.lights
      BY DEF Records
    <3> QED BY <2>5, <3>1, <3>2
  <2>6. ASSUME kind = "shadows" PROVE m.stage[kind] = SortAndDeduplicate(Records(d, kind))
    <3>1. m.stage["shadows"] = SortAndDeduplicate(d.shadows)
      BY <1>3
    <3>2. Records(d, "shadows") = d.shadows
      BY DEF Records
    <3> QED BY <2>6, <3>1, <3>2
  <2> QED BY <2>2, <2>3, <2>4, <2>5, <2>6 DEF StageKinds
<1>7. ASSUME NEW kind \in NamedKinds
      PROVE  b[kind] = Bound(Sorted(Tracks(Records(d, kind))), TableOf(kind), WidthOf(kind))
  <2>1. CASE kind = "bones"
    BY <1>3, <1>4, <2>1 DEF Records, TableOf, WidthOf
  <2>2. CASE kind = "morphs"
    BY <1>3, <1>4, <2>2 DEF Records, TableOf, WidthOf
  <2>3. CASE kind = "ik"
    BY <1>3, <1>4, <2>3 DEF Records, TableOf, WidthOf
  <2> QED BY <2>1, <2>2, <2>3 DEF NamedKinds
<1>8. Kinds = NamedKinds \cup StageKinds
  BY SectionNames DEF NamedKinds, StageKinds
<1>9. ASSUME NEW kind \in NamedKinds PROVE NS(kind) = KindStore(Records(d, kind))
  <2>1. Records(d, kind) \in Seq(KeysOf(kind))
    BY <1>2, <1>8
  <2> QED BY <1>7, <2>1, NamedStore
<1>10. ASSUME NEW kind \in StageKinds PROVE WS(kind) = KindStore(Records(d, kind))
  <2>1. Records(d, kind) \in Seq(KeysOf(kind))
    BY <1>2, <1>8
  <2> QED BY <1>6, <2>1, StageStore
<1>11. UNION {Sl(t) : t \in named} = UNION {NS(k) : k \in NamedKinds}
  <2>1. ASSUME NEW t \in named PROVE \E k \in NamedKinds : Sl(t) \subseteq NS(k)
    <3>1. PICK k \in NamedKinds : t \in {<<k, {u.element}, u.keys>> : u \in Range(b[k])}
      BY DEF NamedKinds
    <3>2. PICK u \in Range(b[k]) : t = <<k, {u.element}, u.keys>>
      BY <3>1
    <3>3. Sl(t) = Slots(k, {u.element}, u.keys)
      BY <3>2
    <3>4. Sl(t) \subseteq NS(k)
      <4> HIDE DEF Sl
      <4> QED BY <3>3
    <3> HIDE DEF Sl, NS
    <3> QED BY <3>4
  <2>2. ASSUME NEW k \in NamedKinds, NEW x \in NS(k) PROVE \E t \in named : x \in Sl(t)
    <3>1. PICK u \in Range(b[k]) : x \in Slots(k, {u.element}, u.keys)
      OBVIOUS
    <3>2. <<k, {u.element}, u.keys>> \in named
      BY DEF NamedKinds
    <3>3. Sl(<<k, {u.element}, u.keys>>) = Slots(k, {u.element}, u.keys)
      OBVIOUS
    <3> HIDE DEF Sl, named
    <3> QED BY <3>1, <3>2, <3>3
  <2> HIDE DEF named, Sl, NS
  <2> QED BY <2>1, <2>2
<1>12. UNION {Sl(t) : t \in stage} = UNION {WS(k) : k \in StageKinds}
  <2>1. stage = {<<k, {None}, Whole(m, b)[k]>> : k \in StageKinds}
    BY <1>5
  <2> DEFINE T(k) == <<k, {None}, Whole(m, b)[k]>>
  <2>2. \A k \in StageKinds : Sl(T(k)) = WS(k)
    OBVIOUS
  <2>3. stage = {T(k) : k \in StageKinds}
    BY <2>1
  <2> HIDE DEF stage, Sl, WS, T
  <2> QED BY <2>2, <2>3
<1> HIDE DEF named, stage, Sl, NS, WS
<1>13. UNION {Sl(t) : t \in named \cup stage}
         = (UNION {KindStore(Records(d, kind)) : kind \in NamedKinds}) \cup (UNION {KindStore(Records(d, kind)) : kind \in StageKinds})
  <2>1. UNION {Sl(t) : t \in named \cup stage} = (UNION {Sl(t) : t \in named}) \cup (UNION {Sl(t) : t \in stage})
    <3>1. \A A : \A x : x \in UNION {Sl(t) : t \in A} <=> \E t \in A : x \in Sl(t)
      OBVIOUS
    <3>2. \A x : (\E t \in named \cup stage : x \in Sl(t)) <=> (\E t \in named : x \in Sl(t)) \/ (\E t \in stage : x \in Sl(t))
      OBVIOUS
    <3> QED BY <3>1, <3>2
  <2>2. UNION {NS(k) : k \in NamedKinds} = UNION {KindStore(Records(d, kind)) : kind \in NamedKinds}
    BY <1>9
  <2>3. UNION {WS(k) : k \in StageKinds} = UNION {KindStore(Records(d, kind)) : kind \in StageKinds}
    BY <1>10
  <2> QED BY <1>11, <1>12, <2>1, <2>2, <2>3
<1>14. UNION {KindStore(Records(d, kind)) : kind \in NamedKinds \cup StageKinds}
         = (UNION {KindStore(Records(d, kind)) : kind \in NamedKinds}) \cup (UNION {KindStore(Records(d, kind)) : kind \in StageKinds})
  <2> DEFINE f(kind) == KindStore(Records(d, kind))
  <2> HIDE DEF f
  <2>1. UNION {f(k) : k \in NamedKinds \cup StageKinds} = (UNION {f(k) : k \in NamedKinds}) \cup (UNION {f(k) : k \in StageKinds})
    <3>1. \A A : \A x : x \in UNION {f(k) : k \in A} <=> \E k \in A : x \in f(k)
      OBVIOUS
    <3>2. \A x : (\E k \in NamedKinds \cup StageKinds : x \in f(k))
                   <=> (\E k \in NamedKinds : x \in f(k)) \/ (\E k \in StageKinds : x \in f(k))
      OBVIOUS
    <3> QED BY <3>1, <3>2
  <2> QED BY <2>1 DEF f
<1> QED BY <1>1, <1>8, <1>13, <1>14

\* e is d with the key k more.
OneMoreKey(d, e, kind, k) ==
  /\ IsDoc(e) /\ kind \in Kinds /\ k \in KeysOf(kind)
  /\ Records(e, kind) = Append(Records(d, kind), k)
  /\ \A other \in Kinds \ {kind} : Records(e, other) = Records(d, other)

\* A slot says what kind of key it is of.
LEMMA SlotKinds ==
  ASSUME NEW kind, NEW rs \in Seq(KeysOf(kind)), NEW s \in KindStore(rs)
  PROVE  s.at[1].kind = kind
<1>1. PICK i \in Placed(rs) : s = SlotOf(rs[i])
  BY DEF KindStore
<1>2. i \in 1..Len(rs)
  BY DEF Placed, Lasting
<1>3. rs[i].kind = kind
  BY <1>2, KeysOfKind
<1>4. s.at[1] = ElementOf(rs[i])
  BY <1>1 DEF SlotOf
<1>5. ElementOf(rs[i]).kind = rs[i].kind
  BY DEF ElementOf
<1> QED BY <1>3, <1>4, <1>5

\* One key more is one write to the document's store.
LEMMA StoreOfOneMore ==
  ASSUME NEW d, NEW e, NEW kind, NEW k, IsDoc(d), OneMoreKey(d, e, kind, k)
  PROVE  StoreOf(e) = Written(StoreOf(d), k)
<1> DEFINE A(o) == KindStore(Records(d, o))
           B(o) == KindStore(Records(e, o))
           at == <<ElementOf(k), k.frame>>
           Kept(st) == {s \in st : s.at # at}
           Others == UNION {A(o) : o \in Kinds \ {kind}}
<1>1. /\ IsDoc(e) /\ kind \in Kinds /\ k \in KeysOf(kind)
      /\ Records(e, kind) = Append(Records(d, kind), k)
      /\ \A other \in Kinds \ {kind} : Records(e, other) = Records(d, other)
  BY DEF OneMoreKey
<1>2. \A o \in Kinds : Records(d, o) \in Seq(KeysOf(o))
  BY RecordsAre
<1>3. StoreOf(d) = UNION {A(o) : o \in Kinds} /\ StoreOf(e) = UNION {B(o) : o \in Kinds}
  BY <1>1, StoreIs
<1>4. B(kind) = Written(A(kind), k) /\ \A o \in Kinds \ {kind} : B(o) = A(o)
  <2>1. Records(d, kind) \in Seq(KeysOf(kind))
    BY <1>1, <1>2
  <2> QED BY <1>1, <2>1, StoreOfMore
<1>5. \A s \in Others : s.at # at
  <2> SUFFICES ASSUME NEW o \in Kinds \ {kind}, NEW s \in A(o), s.at = at PROVE FALSE
    OBVIOUS
  <2>1. s.at[1].kind = o
    BY <1>2, SlotKinds
  <2>2. at[1] = ElementOf(k) /\ ElementOf(k).kind = k.kind
    BY DEF ElementOf
  <2>3. k.kind = kind
    BY <1>1 DEF KeysOf, IsKey
  <2> HIDE DEF at
  <2> QED BY <2>1, <2>2, <2>3
<1>6. StoreOf(d) = A(kind) \cup Others /\ StoreOf(e) = B(kind) \cup Others
  <2> HIDE DEF A, B
  <2>1. UNION {A(o) : o \in Kinds} = A(kind) \cup (UNION {A(o) : o \in Kinds \ {kind}})
    BY <1>1
  <2>2. UNION {B(o) : o \in Kinds} = B(kind) \cup (UNION {B(o) : o \in Kinds \ {kind}})
    BY <1>1
  <2>3. UNION {B(o) : o \in Kinds \ {kind}} = UNION {A(o) : o \in Kinds \ {kind}}
    BY <1>4
  <2> QED BY <1>3, <2>1, <2>2, <2>3
<1> HIDE DEF A, B, Others, at
<1>7. CASE ElementOf(k).element = {}
  BY <1>4, <1>6, <1>7 DEF Written
<1>8. CASE ElementOf(k).element # {}
  <2>1. B(kind) = Kept(A(kind)) \cup {SlotOf(k)} /\ Written(StoreOf(d), k) = Kept(StoreOf(d)) \cup {SlotOf(k)}
    BY <1>4, <1>8 DEF Written, at
  <2>2. Kept(StoreOf(d)) = Kept(A(kind)) \cup Others
    BY <1>5, <1>6
  <2> HIDE DEF Kept
  <2> QED BY <1>6, <2>1, <2>2
<1> QED BY <1>7, <1>8

-----------------------------------------------------------------------------
(* What a read record adds to the document *)

LEMMA NamedAdded ==
  ASSUME NEW d, IsDoc(d), NEW s \in Range(Sections) \ {"ik"}, NEW k \in KeysOf(s)
  PROVE  OneMoreKey(d, [d EXCEPT ![s] = Append(@, k)], s, k)
<1> DEFINE e == [d EXCEPT ![s] = Append(@, k)]
<1>1. /\ d = [t \in Range(Sections) |-> d[t]]
      /\ \A t \in Range(Sections) : d[t] \in SectionRecords(t)
  BY DEF IsDoc
<1>2. e[s] = Append(d[s], k) /\ \A t \in Range(Sections) : t # s => e[t] = d[t]
  BY <1>1
<1>3. e = [t \in Range(Sections) |-> e[t]]
  BY <1>1
<1> HIDE DEF e
<1>4. e[s] \in SectionRecords(s)
  <2>1. d[s] \in Seq(KeysOf(s))
    BY <1>1 DEF SectionRecords
  <2> QED BY <1>2, <2>1 DEF SectionRecords
<1>5. IsDoc(e)
  BY <1>1, <1>2, <1>3, <1>4 DEF IsDoc
<1>6. s \in Kinds /\ s # "ik" /\ s # "visibility" /\ "ik" \in Range(Sections)
  BY SectionNames
<1>7. Records(e, s) = Append(Records(d, s), k)
  BY <1>2, <1>6 DEF Records
<1>8. ASSUME NEW o \in Kinds \ {s} PROVE Records(e, o) = Records(d, o)
  <2>1. e["ik"] = d["ik"]
    BY <1>2, <1>6
  <2>2. ASSUME o # "ik", o # "visibility" PROVE e[o] = d[o]
    BY <1>2, <2>2 DEF Kinds
  <2> QED BY <2>1, <2>2 DEF Records
<1> QED BY <1>5, <1>6, <1>7, <1>8 DEF OneMoreKey, e

\* A document with other IK records.
WithIk(d, q) == [d EXCEPT !["ik"] = q]

LEMMA OtherIk ==
  ASSUME NEW d, IsDoc(d), NEW q \in Seq(IkRecords)
  PROVE  /\ IsDoc(WithIk(d, q)) /\ WithIk(d, q)["ik"] = q
         /\ \A o \in Kinds \ {"ik", "visibility"} : Records(WithIk(d, q), o) = Records(d, o)
<1> DEFINE e == WithIk(d, q)
<1>1. /\ d = [t \in Range(Sections) |-> d[t]]
      /\ \A t \in Range(Sections) : d[t] \in SectionRecords(t)
  BY DEF IsDoc
<1>2. "ik" \in Range(Sections)
  BY SectionNames
<1>3. e["ik"] = q /\ (\A t \in Range(Sections) : t # "ik" => e[t] = d[t]) /\ e = [t \in Range(Sections) |-> e[t]]
  BY <1>1, <1>2 DEF WithIk
<1> HIDE DEF e
<1>4. \A t \in Range(Sections) : e[t] \in SectionRecords(t)
  BY <1>1, <1>3 DEF SectionRecords
<1>5. ASSUME NEW o \in Kinds \ {"ik", "visibility"} PROVE Records(e, o) = Records(d, o)
  BY <1>3, <1>5 DEF Records, Kinds
<1>6. IsDoc(e)
  BY <1>3, <1>4 DEF IsDoc
<1> QED BY <1>3, <1>5, <1>6 DEF e

LEMMA IkAdded ==
  ASSUME NEW d, IsDoc(d), NEW k \in KeysOf("visibility")
  PROVE  OneMoreKey(d, [d EXCEPT !["ik"] = Append(@, [key |-> k, states |-> <<>>])], "visibility", k)
<1> DEFINE r == [key |-> k, states |-> <<>>]
           ik == d["ik"]
           q == Append(ik, r)
           e == WithIk(d, q)
           V == KeysOf("visibility")
           I == KeysOf("ik")
<1>1. ik \in Seq(IkRecords)
  BY SectionNames DEF IsDoc, SectionRecords
<1>2. r \in IkRecords /\ r.key = k /\ r.states = <<>>
  <2>1. <<>> \in Seq(KeysOf("ik"))
    OBVIOUS
  <2> QED BY <2>1 DEF IkRecords
<1> HIDE DEF r, ik
<1>3. /\ q \in Seq(IkRecords) /\ Len(q) = Len(ik) + 1 /\ q[Len(ik) + 1] = r
      /\ \A i \in 1..Len(ik) : q[i] = ik[i]
  BY <1>1, <1>2, OneMore
<1> HIDE DEF q
<1>4. /\ IsDoc(e) /\ e["ik"] = q
      /\ \A o \in Kinds \ {"ik", "visibility"} : Records(e, o) = Records(d, o)
  BY <1>3, OtherIk
<1> HIDE DEF e
<1>5. /\ Len(ik) \in Nat
      /\ Visibility(ik) \in Seq(V) /\ Len(Visibility(ik)) = Len(ik)
      /\ \A i \in 1..Len(ik) : Visibility(ik)[i] = ik[i].key
      /\ StateLists(ik) \in Seq(Seq(I)) /\ Len(StateLists(ik)) = Len(ik)
      /\ \A i \in 1..Len(ik) : StateLists(ik)[i] = ik[i].states
      /\ States(ik) = Chained(StateLists(ik)) /\ States(ik) \in Seq(I)
  BY <1>1, IkIs
<1>6. /\ Visibility(q) \in Seq(V) /\ Len(Visibility(q)) = Len(q)
      /\ \A i \in 1..Len(q) : Visibility(q)[i] = q[i].key
      /\ StateLists(q) \in Seq(Seq(I)) /\ Len(StateLists(q)) = Len(q)
      /\ \A i \in 1..Len(q) : StateLists(q)[i] = q[i].states
      /\ States(q) = Chained(StateLists(q))
  BY <1>3, IkIs
<1> DEFINE n == Len(ik)
<1>7. \A i \in 1..(n + 1) : i \in 1..n \/ i = n + 1
  BY <1>5
<1>8. \A i \in 1..n : i \in 1..(n + 1)
  BY <1>5
<1>9. n + 1 \in 1..(n + 1)
  BY <1>5
<1>10. Visibility(q) = Append(Visibility(ik), k)
  <2> DEFINE a == Append(Visibility(ik), k)
  <2>1. /\ a \in Seq(V) /\ Len(a) = n + 1 /\ a[n + 1] = k
        /\ \A i \in 1..n : a[i] = Visibility(ik)[i]
    BY <1>5, OneMore
  <2> HIDE DEF a, n
  <2>2. \A i \in 1..(n + 1) : Visibility(q)[i] = a[i]
    <3> TAKE i \in 1..(n + 1)
    <3>1. CASE i \in 1..n
      BY ZenonT(60), <1>3, <1>5, <1>6, <1>8, <2>1, <3>1 DEF n
    <3>2. CASE i = n + 1
      BY <1>2, <1>3, <1>6, <1>9, <2>1, <3>2 DEF n
    <3> QED BY <1>7, <3>1, <3>2
  <2>3. Visibility(q) \in Seq(V) /\ Len(Visibility(q)) = Len(a)
    BY <1>3, <1>6, <2>1 DEF n
  <2> QED BY <2>1, <2>2, <2>3, SeqEqual DEF a
<1>11. StateLists(q) = Append(StateLists(ik), <<>>)
  <2> DEFINE a == Append(StateLists(ik), <<>>)
  <2>0. <<>> \in Seq(I)
    OBVIOUS
  <2>1. /\ a \in Seq(Seq(I)) /\ Len(a) = n + 1 /\ a[n + 1] = <<>>
        /\ \A i \in 1..n : a[i] = StateLists(ik)[i]
    BY <1>5, <2>0, OneMore
  <2> HIDE DEF a, n
  <2>2. \A i \in 1..(n + 1) : StateLists(q)[i] = a[i]
    <3> TAKE i \in 1..(n + 1)
    <3>1. CASE i \in 1..n
      BY <1>3, <1>5, <1>6, <1>8, <2>1, <3>1 DEF n
    <3>2. CASE i = n + 1
      BY <1>2, <1>3, <1>6, <1>9, <2>1, <3>2 DEF n
    <3> QED BY <1>7, <3>1, <3>2
  <2>3. StateLists(q) \in Seq(Seq(I)) /\ Len(StateLists(q)) = Len(a)
    BY <1>3, <1>6, <2>1 DEF n
  <2> QED BY <2>1, <2>2, <2>3, SeqEqual DEF a
<1>12. States(q) = States(ik)
  <2> DEFINE x == <<>>
             sl == StateLists(ik)
             st == States(ik)
  <2>1. x \in Seq(I)
    OBVIOUS
  <2>2. st \o x = st
    BY <1>5
  <2> HIDE DEF x, sl, st
  <2>3. Chained(Append(sl, x)) = Chained(sl) \o x
    BY <1>5, <2>1, ChainedMore DEF sl
  <2>4. StateLists(q) = Append(sl, x) /\ States(q) = Chained(StateLists(q)) /\ st = Chained(sl)
    BY <1>5, <1>6, <1>11 DEF sl, x, st
  <2> QED BY <2>2, <2>3, <2>4 DEF st
<1>13. /\ Records(e, "visibility") = Visibility(q) /\ Records(e, "ik") = States(q)
       /\ Records(d, "visibility") = Visibility(ik) /\ Records(d, "ik") = States(ik)
  BY <1>4 DEF Records, ik
<1>14. "visibility" \in Kinds
  BY SectionNames
<1>15. \A o \in Kinds \ {"visibility"} : Records(e, o) = Records(d, o)
  BY <1>4, <1>12, <1>13
<1>16. OneMoreKey(d, e, "visibility", k)
  BY <1>4, <1>10, <1>13, <1>14, <1>15 DEF OneMoreKey
<1>17. e = [d EXCEPT !["ik"] = Append(@, [key |-> k, states |-> <<>>])]
  BY DEF e, q, ik, r, WithIk
<1> QED BY <1>16, <1>17

LEMMA StateAdded ==
  ASSUME NEW d, IsDoc(d), d["ik"] # <<>>, NEW k \in KeysOf("ik")
  PROVE  OneMoreKey(d, [d EXCEPT !["ik"][Len(d["ik"])].states = Append(@, k)], "ik", k)
<1> DEFINE ik == d["ik"]
           n == Len(ik)
           q == [ik EXCEPT ![n].states = Append(@, k)]
           e == WithIk(d, q)
           V == KeysOf("visibility")
           I == KeysOf("ik")
<1>1. ik \in Seq(IkRecords) /\ ik # <<>>
  BY SectionNames DEF IsDoc, SectionRecords
<1>2. e = [d EXCEPT !["ik"][Len(d["ik"])].states = Append(@, k)]
  BY DEF WithIk
<1> HIDE DEF ik
<1>3. n \in Nat /\ n \in 1..n /\ DOMAIN ik = 1..n /\ \A i \in 1..n : ik[i] \in IkRecords
  BY <1>1
<1>4. /\ Visibility(ik) \in Seq(V) /\ Len(Visibility(ik)) = n
      /\ \A i \in 1..n : Visibility(ik)[i] = ik[i].key
      /\ StateLists(ik) \in Seq(Seq(I)) /\ Len(StateLists(ik)) = n
      /\ \A i \in 1..n : StateLists(ik)[i] = ik[i].states
      /\ States(ik) = Chained(StateLists(ik)) /\ States(ik) \in Seq(I)
      /\ \A i \in 1..n : ik[i].key \in V /\ ik[i].states \in Seq(I)
  BY <1>1, IkIs
<1>5. /\ q[n] = [ik[n] EXCEPT !.states = Append(@, k)] /\ \A i \in 1..n : i # n => q[i] = ik[i]
      /\ DOMAIN q = 1..n /\ q = [i \in 1..n |-> q[i]]
  BY <1>3
<1> HIDE DEF q
<1>6. q[n].key = ik[n].key /\ q[n].states = Append(ik[n].states, k) /\ q[n] \in IkRecords
  <2>1. ik[n] = [key |-> ik[n].key, states |-> ik[n].states] /\ ik[n].key \in V /\ ik[n].states \in Seq(I)
    BY <1>3 DEF IkRecords
  <2>2. Append(ik[n].states, k) \in Seq(I)
    BY <2>1
  <2>3. q[n] = [key |-> ik[n].key, states |-> Append(ik[n].states, k)]
    <3> DEFINE u == ik[n]
               a == u.key
               b == u.states
    <3>1. q[n] = [u EXCEPT !.states = Append(@, k)] /\ u = [key |-> a, states |-> b]
      BY <1>5, <2>1
    <3> HIDE DEF u, a, b
    <3>2. u.states = b
      BY <3>1
    <3>3. q[n] = [key |-> a, states |-> Append(b, k)]
      BY <3>1, <3>2
    <3> QED BY <3>3 DEF a, b, u
  <2> QED BY <2>1, <2>2, <2>3 DEF IkRecords
<1>7. q \in Seq(IkRecords) /\ Len(q) = n
  <2>1. \A i \in 1..n : q[i] \in IkRecords
    BY <1>3, <1>5, <1>6
  <2>2. q \in [1..n -> IkRecords]
    BY <1>5, <2>1
  <2> HIDE DEF n
  <2> QED BY <1>3, <2>2, ListOf
<1>8. /\ IsDoc(e) /\ e["ik"] = q
      /\ \A o \in Kinds \ {"ik", "visibility"} : Records(e, o) = Records(d, o)
  BY <1>7, OtherIk
<1> HIDE DEF e
<1>9. /\ Visibility(q) \in Seq(V) /\ Len(Visibility(q)) = n
      /\ \A i \in 1..n : Visibility(q)[i] = q[i].key
      /\ StateLists(q) \in Seq(Seq(I)) /\ Len(StateLists(q)) = n
      /\ \A i \in 1..n : StateLists(q)[i] = q[i].states
      /\ States(q) = Chained(StateLists(q))
  <2>1. /\ Visibility(q) \in Seq(V) /\ Len(Visibility(q)) = Len(q)
        /\ \A i \in 1..Len(q) : Visibility(q)[i] = q[i].key
        /\ StateLists(q) \in Seq(Seq(I)) /\ Len(StateLists(q)) = Len(q)
        /\ \A i \in 1..Len(q) : StateLists(q)[i] = q[i].states
        /\ States(q) = Chained(StateLists(q))
    BY <1>7, IkIs
  <2> QED BY <1>7, <2>1
<1>10. Visibility(q) = Visibility(ik)
  <2>1. \A i \in 1..n : Visibility(q)[i] = Visibility(ik)[i]
    <3> TAKE i \in 1..n
    <3>1. q[i].key = ik[i].key
      BY <1>5, <1>6
    <3>2. Visibility(q)[i] = q[i].key /\ Visibility(ik)[i] = ik[i].key
      BY <1>4, <1>9
    <3> QED BY <3>1, <3>2
  <2> QED BY <1>4, <1>9, <2>1, SeqEqual
<1>11. States(q) = States(ik) \o <<k>>
  <2> DEFINE x == <<k>>
             sl == StateLists(ik)
             tl == StateLists(q)
  <2>1. x \in Seq(I)
    OBVIOUS
  <2>2. sl # <<>> /\ Len(sl) = n /\ Len(tl) = n
    BY <1>3, <1>4, <1>9
  <2>3. \A i \in 1..(n - 1) : tl[i] = sl[i]
    <3> TAKE i \in 1..(n - 1)
    <3>1. i \in 1..n /\ i # n
      <4> HIDE DEF n
      <4> QED BY <1>3
    <3>2. tl[i] = q[i].states /\ sl[i] = ik[i].states
      BY <1>4, <1>9, <3>1
    <3>3. q[i] = ik[i]
      BY <1>5, <3>1
    <3> HIDE DEF tl, sl
    <3> QED BY <3>2, <3>3
  <2>4. tl[n] = sl[n] \o x
    <3> DEFINE b == ik[n].states
    <3>1. b \in Seq(I) /\ tl[n] = Append(b, k) /\ sl[n] = b
      BY <1>3, <1>4, <1>6, <1>9
    <3> HIDE DEF b, tl, sl, n
    <3>2. Append(b, k) = b \o <<k>>
      BY <3>1
    <3> QED BY <3>1, <3>2 DEF x
  <2>5. sl \in Seq(Seq(I)) /\ tl \in Seq(Seq(I))
    BY <1>4, <1>9
  <2> HIDE DEF x, sl, tl
  <2>6. Chained(tl) = Chained(sl) \o x
    BY <2>1, <2>2, <2>3, <2>4, <2>5, ChainedLast
  <2> QED BY <1>4, <1>9, <2>6 DEF sl, tl, x
<1>12. States(ik) \o <<k>> = Append(States(ik), k)
  BY <1>4
<1>13. /\ Records(e, "visibility") = Visibility(q) /\ Records(e, "ik") = States(q)
       /\ Records(d, "visibility") = Visibility(ik) /\ Records(d, "ik") = States(ik)
  BY <1>8 DEF Records, ik
<1>14. "ik" \in Kinds
  BY SectionNames
<1>15. \A o \in Kinds \ {"ik"} : Records(e, o) = Records(d, o)
  BY <1>8, <1>10, <1>13
<1>16. OneMoreKey(d, e, "ik", k)
  BY <1>8, <1>11, <1>12, <1>13, <1>14, <1>15 DEF OneMoreKey
<1> QED BY <1>2, <1>16 DEF e

-----------------------------------------------------------------------------
(* The store follows the document *)

\* What the reader keeps true of what it has read.
Reading ==
  /\ file \in Files /\ IsDoc(doc) /\ keys \in KeyLists
  /\ states = 0 \/ doc["ik"] # <<>>

\* The step reads the key k of this kind.
Reads1(kind, k) ==
  OneMoreKey(doc, doc', kind, k) /\ keys' = Append(keys, k) /\ k.value = Len(keys) + 1

LEMMA KeyIs ==
  ASSUME keys \in KeyLists, NEW kind \in Kinds, NEW name \in Seq(Nat), NEW frame \in Frames,
         kind \in StageKinds => name = <<>>
  PROVE  Key(kind, name, frame) \in KeysOf(kind)
<1>1. frame \in Nat /\ Len(keys) + 1 \in Nat
  BY FramesAssumption, KeysOfList
<1>2. Key(kind, name, frame) \in KeySet
  BY <1>1 DEF Key, KeySet
<1> QED BY <1>2 DEF KeysOf, IsKey, Key

LEMMA FieldName ==
  ASSUME NEW w \in {BoneName, IkName, 10, 20}, NEW field \in Fields(w)
  PROVE  field \in Seq(Nat) /\ UpToNul(field) \in Seq(Nat)
<1>1. w \in Nat /\ field \in [1..w -> Nat]
  <2>1. w \in Nat
    BY NamesAssumption
  <2>2. \A x \in {BoneName, IkName, 10, 20} : Fields(x) \subseteq [1..x -> Nat]
    BY FieldsAssumption
  <2>3. Fields(w) \subseteq [1..w -> Nat]
    BY ONLY <2>2
  <2> QED BY <2>1, <2>3
<1>2. field \in Seq(Nat)
  BY <1>1
<1> QED BY <1>2, UpToNulIs

\* Every step reads one key, or none.
LEMMA StepShape ==
  ASSUME Reading, [Next]_vars
  PROVE  /\ \/ UNCHANGED <<doc, keys>>
            \/ \E kind \in Kinds : \E k \in KeysOf(kind) : Reads1(kind, k)
         /\ Reading'
<1>0. /\ file \in Files /\ IsDoc(doc) /\ keys \in KeyLists
      /\ states = 0 \/ doc["ik"] # <<>>
  BY DEF Reading
<1>1. SUFFICES /\ file' = file /\ (states' = 0 \/ doc'["ik"] # <<>>)
               /\ UNCHANGED <<doc, keys>> \/ \E kind \in Kinds : \E k \in KeysOf(kind) : Reads1(kind, k)
  <2>1. ASSUME NEW kind \in Kinds, NEW k \in KeysOf(kind), Reads1(kind, k)
        PROVE  IsDoc(doc') /\ keys' \in KeyLists
    <3>1. k \in KeySet
      BY DEF KeysOf
    <3> QED BY <1>0, <2>1, <3>1 DEF Reads1, OneMoreKey, KeyLists
  <2>2. ASSUME UNCHANGED <<doc, keys>> PROVE IsDoc(doc') /\ keys' \in KeyLists
    BY <1>0, <2>2
  <2> QED BY <1>0, <2>1, <2>2 DEF Reading
<1>2. ASSUME UNCHANGED vars PROVE UNCHANGED <<file, doc, keys, states>>
  BY <1>2 DEF vars
<1>3. ASSUME Unreadable PROVE UNCHANGED <<file, doc, keys, states>>
  BY <1>3 DEF Unreadable, Fatal
<1>4. ASSUME RefuseHeader PROVE UNCHANGED <<file, doc, keys, states>>
  BY <1>4 DEF RefuseHeader, Truncated, Fatal
<1>5. ASSUME NEW field \in Fields(file.nameSize), ReadHeader(field) PROVE UNCHANGED <<file, doc, keys, states>>
  BY <1>5 DEF ReadHeader
<1>6. ASSUME BeginSection PROVE UNCHANGED <<file, doc, keys, states>>
  BY <1>6 DEF BeginSection, Truncated, Fatal
<1>7. ASSUME Succeed PROVE UNCHANGED <<file, doc, keys, states>>
  BY <1>7 DEF Succeed
<1>8. ASSUME NEW s \in {"bones", "morphs"}, NEW field \in Fields(BoneName), NEW frame \in Frames,
             ReadNamed(s, field, frame)
      PROVE  /\ file' = file /\ states' = states /\ states' = 0
             /\ \E k \in KeysOf(s) : s \in Kinds /\ Reads1(s, k)
  <2> DEFINE k == Key(s, UpToNul(field), frame)
  <2>1. /\ doc' = [doc EXCEPT ![s] = Append(@, k)] /\ keys' = Append(keys, k)
        /\ file' = file /\ states' = states /\ states = 0
    BY <1>8 DEF ReadNamed, Reads
  <2>2. UpToNul(field) \in Seq(Nat)
    BY FieldName
  <2>3. s \in Kinds /\ s \notin StageKinds /\ s \in Range(Sections) \ {"ik"}
    BY SectionNames DEF StageKinds
  <2>4. k \in KeysOf(s) /\ k.value = Len(keys) + 1
    BY <1>0, <2>2, <2>3, KeyIs DEF Key
  <2> HIDE DEF k
  <2>5. OneMoreKey(doc, doc', s, k)
    BY <1>0, <2>1, <2>3, <2>4, NamedAdded
  <2>6. Reads1(s, k)
    BY <2>1, <2>4, <2>5 DEF Reads1
  <2> QED BY <2>1, <2>3, <2>4, <2>6
<1>9. ASSUME NEW s \in {"cameras", "lights", "shadows"}, NEW frame \in Frames, ReadStage(s, frame)
      PROVE  /\ file' = file /\ states' = states /\ states' = 0
             /\ \E k \in KeysOf(s) : s \in Kinds /\ Reads1(s, k)
  <2> DEFINE k == Key(s, <<>>, frame)
  <2>1. /\ doc' = [doc EXCEPT ![s] = Append(@, k)] /\ keys' = Append(keys, k)
        /\ file' = file /\ states' = states /\ states = 0
    BY <1>9 DEF ReadStage, Reads
  <2>2. <<>> \in Seq(Nat)
    OBVIOUS
  <2>3. s \in Kinds /\ s \in Range(Sections) \ {"ik"}
    BY SectionNames
  <2>4. k \in KeysOf(s) /\ k.value = Len(keys) + 1
    BY <1>0, <2>2, <2>3, KeyIs DEF Key
  <2> HIDE DEF k
  <2>5. OneMoreKey(doc, doc', s, k)
    BY <1>0, <2>1, <2>3, <2>4, NamedAdded
  <2>6. Reads1(s, k)
    BY <2>1, <2>4, <2>5 DEF Reads1
  <2> QED BY <2>1, <2>3, <2>4, <2>6
<1>10. ASSUME NEW frame \in Frames, ReadIk(frame)
       PROVE  \/ UNCHANGED <<file, doc, keys, states>>
              \/ /\ file' = file /\ doc'["ik"] # <<>>
                 /\ \E k \in KeysOf("visibility") : Reads1("visibility", k)
  <2> DEFINE k == Key("visibility", <<>>, frame)
             r == [key |-> k, states |-> <<>>]
  <2>1. \/ UNCHANGED <<file, doc, keys, states>>
        \/ /\ doc' = [doc EXCEPT !["ik"] = Append(@, [key |-> k, states |-> <<>>])]
           /\ keys' = Append(keys, k) /\ file' = file
    BY <1>10 DEF ReadIk, Truncated, Fatal
  <2>2. CASE UNCHANGED <<file, doc, keys, states>>
    BY <2>2
  <2>3. CASE /\ doc' = [doc EXCEPT !["ik"] = Append(@, [key |-> k, states |-> <<>>])]
             /\ keys' = Append(keys, k) /\ file' = file
    <3>1. <<>> \in Seq(Nat) /\ "visibility" \in Kinds
      BY SectionNames
    <3>2. k \in KeysOf("visibility") /\ k.value = Len(keys) + 1
      BY <1>0, <3>1, KeyIs DEF Key
    <3> HIDE DEF k
    <3>3. OneMoreKey(doc, doc', "visibility", k)
      BY <1>0, <2>3, <3>2, IkAdded
    <3>4. doc'["ik"] # <<>>
      <4>1. doc["ik"] \in Seq(IkRecords) /\ doc = [s \in Range(Sections) |-> doc[s]] /\ "ik" \in Range(Sections)
        BY <1>0, SectionNames DEF IsDoc, SectionRecords
      <4>2. doc'["ik"] = Append(doc["ik"], r)
        BY <2>3, <4>1
      <4>3. r \in IkRecords
        <5>1. <<>> \in Seq(KeysOf("ik"))
          OBVIOUS
        <5> QED BY <3>2, <5>1 DEF IkRecords
      <4> HIDE DEF r
      <4> QED BY <4>1, <4>2, <4>3
    <3> QED BY <2>3, <3>2, <3>3, <3>4 DEF Reads1
  <2> QED BY <2>1, <2>2, <2>3
<1>11. ASSUME NEW field \in Fields(IkName), ReadIkState(field)
       PROVE  file' = file /\ doc'["ik"] # <<>> /\ \E k \in KeysOf("ik") : Reads1("ik", k)
  <2> DEFINE record == Last(doc.ik)
             k == Key("ik", UpToNul(field), record.key.frame)
             n == Len(doc["ik"])
  <2>1. /\ doc' = [doc EXCEPT !["ik"][n].states = Append(@, k)]
        /\ keys' = Append(keys, k) /\ file' = file /\ states > 0
    BY <1>11 DEF ReadIkState
  <2>2. doc["ik"] # <<>>
    BY <1>0, <2>1
  <2>3. doc["ik"] \in Seq(IkRecords) /\ doc = [s \in Range(Sections) |-> doc[s]] /\ "ik" \in Range(Sections)
    BY <1>0, SectionNames DEF IsDoc, SectionRecords
  <2>4. record \in IkRecords
    <3>1. record = doc["ik"][n]
      BY DEF Last
    <3>2. n \in 1..n
      BY <2>2, <2>3
    <3> QED BY <2>3, <3>1, <3>2
  <2>5. record.key.frame \in Nat
    <3>1. record.key \in KeySet
      BY <2>4 DEF IkRecords, KeysOf
    <3> QED BY <3>1, KeyFields
  <2>6. UpToNul(field) \in Seq(Nat) /\ "ik" \in Kinds /\ "ik" \notin StageKinds /\ Len(keys) + 1 \in Nat
    BY <1>0, FieldName, SectionNames, KeysOfList DEF StageKinds
  <2>7. k \in KeysOf("ik") /\ k.value = Len(keys) + 1
    <3> HIDE DEF record
    <3>1. k \in KeySet
      BY <2>5, <2>6 DEF Key, KeySet
    <3> QED BY <2>6, <3>1 DEF KeysOf, IsKey, Key
  <2> HIDE DEF k
  <2>8. OneMoreKey(doc, doc', "ik", k)
    BY <1>0, <2>1, <2>2, <2>7, StateAdded
  <2>9. doc'["ik"] # <<>>
    <3>1. doc'["ik"] = [doc["ik"] EXCEPT ![n].states = Append(@, k)]
      BY <2>1, <2>3
    <3>2. DOMAIN doc'["ik"] = DOMAIN doc["ik"] /\ DOMAIN doc["ik"] # {}
      BY <2>2, <2>3, <3>1
    <3> QED BY <3>2
  <2> QED BY <2>1, <2>7, <2>8, <2>9 DEF Reads1
<1>12. CASE UNCHANGED <<file, doc, keys, states>>
  BY <1>0, <1>12
<1>13. ASSUME Next
       PROVE  /\ file' = file /\ (states' = 0 \/ doc'["ik"] # <<>>)
              /\ UNCHANGED <<doc, keys>> \/ \E kind \in Kinds : \E k \in KeysOf(kind) : Reads1(kind, k)
  <2>1. "visibility" \in Kinds /\ "ik" \in Kinds
    BY SectionNames
  <2> QED BY <1>3, <1>4, <1>5, <1>6, <1>7, <1>8, <1>9, <1>10, <1>11, <1>12, <1>13, <2>1 DEF Next
<1> QED BY <1>2, <1>12, <1>13

-----------------------------------------------------------------------------
(* Reading is writing *)

StoreInv == Reading /\ store = StoreOf(doc)

LEMMA NothingRead ==
  ASSUME doc = [s \in Range(Sections) |-> <<>>], NEW kind \in Kinds
  PROVE  Records(doc, kind) = <<>>
<1>1. doc["ik"] = <<>> /\ <<>> \in Seq(IkRecords)
  BY SectionNames
<1>2. Visibility(<<>>) = <<>> /\ States(<<>>) = <<>>
  <2>1. /\ Visibility(<<>>) \in Seq(KeysOf("visibility")) /\ Len(Visibility(<<>>)) = Len(<<>>)
        /\ StateLists(<<>>) \in Seq(Seq(KeysOf("ik"))) /\ Len(StateLists(<<>>)) = Len(<<>>)
        /\ States(<<>>) = Chained(StateLists(<<>>))
    BY <1>1, IkIs
  <2>2. Visibility(<<>>) = <<>> /\ StateLists(<<>>) = <<>>
    BY <2>1
  <2>3. Chained(<<>>) = <<>>
    BY <2>1, ChainedType
  <2> QED BY <2>1, <2>2, <2>3
<1>3. ASSUME kind \notin {"ik", "visibility"} PROVE doc[kind] = <<>>
  BY <1>3 DEF Kinds
<1> QED BY <1>1, <1>2, <1>3 DEF Records

LEMMA ReadingInit == Init => Reading /\ StoreOf(doc) = {}
<1> SUFFICES ASSUME Init PROVE Reading /\ StoreOf(doc) = {}
  OBVIOUS
<1>1. /\ file \in Files /\ keys = <<>> /\ states = 0 /\ doc = [s \in Range(Sections) |-> <<>>]
  BY DEF Init
<1>2. IsDoc(doc) /\ \A s \in Range(Sections) : doc[s] = <<>>
  <2>1. \A s \in Range(Sections) : doc[s] = <<>> /\ doc[s] \in SectionRecords(s)
    BY <1>1 DEF SectionRecords
  <2> QED BY <1>1, <2>1 DEF IsDoc
<1>3. Reading
  <2>1. keys \in KeyLists
    BY <1>1 DEF KeyLists
  <2> QED BY <1>1, <1>2, <2>1 DEF Reading
<1>4. ASSUME NEW kind \in Kinds PROVE Records(doc, kind) = <<>>
  BY <1>1, NothingRead
<1>5. KindStore(<<>>) = {}
  BY DEF KindStore, Placed, Lasting
<1>6. StoreOf(doc) = {}
  <2>1. \A kind \in Kinds : KindStore(Records(doc, kind)) = {}
    BY <1>4, <1>5
  <2> QED BY <1>2, <2>1, StoreIs
<1> QED BY <1>3, <1>6

LEMMA StoreInvHolds == ImportSpec => []StoreInv
<1>1. ImportInit => StoreInv
  BY ReadingInit DEF ImportInit, StoreInv
<1>2. StoreInv /\ [ImportNext]_<<vars, store>> => StoreInv'
  <2> SUFFICES ASSUME StoreInv, [ImportNext]_<<vars, store>> PROVE StoreInv'
    OBVIOUS
  <2>1. Reading'
    BY StepShape DEF StoreInv, ImportNext
  <2>2. store' = StoreOf(doc')
    BY DEF StoreInv, ImportNext, vars
  <2>3. StoreOf(doc') = StoreOf(doc)'
    BY DEF StoreOf, StoredOf, Stored
  <2> QED BY <2>1, <2>2 DEF StoreInv
<1> QED BY <1>1, <1>2, PTL DEF ImportSpec

\* Reading a motion, building its tracks and binding them implements writes to
\* a store: whatever the order of the records, the last one of a frame is what
\* its element keeps, and an element keeps nothing else.
THEOREM RecordsAreWrites == ImportSpec => TracksAreStored
<1>1. ImportInit => Store!Init
  BY DEF ImportInit, Init, Store!Init
<1>2. StoreInv /\ [ImportNext]_<<vars, store>> => [Store!Next]_<<keys, store>>
  <2> SUFFICES ASSUME StoreInv, [ImportNext]_<<vars, store>> PROVE [Store!Next]_<<keys, store>>
    OBVIOUS
  <2>1. Reading /\ store = StoreOf(doc) /\ store' = StoreOf(doc')
    BY DEF StoreInv, ImportNext, vars
  <2>2. [Next]_vars
    BY DEF ImportNext
  <2>3. UNCHANGED <<doc, keys>> \/ \E kind \in Kinds : \E k \in KeysOf(kind) : Reads1(kind, k)
    BY <2>1, <2>2, StepShape
  <2>4. CASE UNCHANGED <<doc, keys>>
    BY <2>1, <2>4
  <2>5. ASSUME NEW kind \in Kinds, NEW k \in KeysOf(kind), Reads1(kind, k) PROVE Store!Next
    <3>1. IsDoc(doc) /\ keys \in Seq(KeySet) /\ k \in KeySet
      BY <2>1 DEF Reading, KeyLists, KeysOf
    <3>2. store' = Written(store, k) /\ keys' = Append(keys, k)
      BY <2>1, <2>5, <3>1, StoreOfOneMore DEF Reads1
    <3>3. k \in Range(keys')
      <4>1. /\ Append(keys, k) \in Seq(KeySet) /\ Len(Append(keys, k)) = Len(keys) + 1
            /\ Append(keys, k)[Len(keys) + 1] = k
        BY <3>1, OneMore
      <4>2. Len(keys) + 1 \in 1..(Len(keys) + 1)
        BY <3>1
      <4>3. Len(keys) + 1 \in DOMAIN keys'
        BY <3>2, <4>1, <4>2
      <4> QED BY <3>2, <4>1, <4>3 DEF Range
    <3>4. Store!Write(k)
      BY <3>2 DEF Written, Store!Write, SlotOf
    <3> QED BY <3>3, <3>4 DEF Store!Next, Store!Range, Range
  <2> QED BY <2>3, <2>4, <2>5
<1> QED BY <1>1, <1>2, StoreInvHolds, PTL DEF ImportSpec, TracksAreStored, Store!Spec

-----------------------------------------------------------------------------
(* Diagnostics of codes that were not added, and of one that was *)

Tallies(C, P) == [code : C, table : P, seen : Nat]
Notes(C, P) == [code : C, table : P, more : Int]
Lists(C, P) == [tallies : Seq(Tallies(C, P)), list : Seq(Notes(C, P))]

LEMMA ListFields ==
  ASSUME NEW C, NEW P, NEW d \in Lists(C, P)
  PROVE  /\ d.tallies \in Seq(Tallies(C, P)) /\ d.list \in Seq(Notes(C, P))
         /\ Len(d.tallies) \in Nat /\ DOMAIN d.tallies = 1..Len(d.tallies)
         /\ \A i \in 1..Len(d.tallies) :
              /\ d.tallies[i] \in Tallies(C, P) /\ d.tallies[i].code \in C
              /\ d.tallies[i].table \in P /\ d.tallies[i].seen \in Nat
<1>1. d.tallies \in Seq(Tallies(C, P)) /\ d.list \in Seq(Notes(C, P))
  BY DEF Lists
<1>2. \A t \in Tallies(C, P) : t.code \in C /\ t.table \in P /\ t.seen \in Nat
  BY DEF Tallies
<1> QED BY <1>1, <1>2

LEMMA ListOfFields ==
  ASSUME NEW C, NEW P, NEW t \in Seq(Tallies(C, P)), NEW l \in Seq(Notes(C, P))
  PROVE  [tallies |-> t, list |-> l] \in Lists(C, P)
BY DEF Lists

\* What is added is in a tally and, as long as there is room, in the list.
LEMMA AddedIs ==
  ASSUME NEW C, NEW P, NEW d \in Lists(C, P), NEW code \in C, NEW where \in P
  PROVE  /\ Added(d, code, where) \in Lists(C, P)
         /\ TallyAt(d, code, where) = {} =>
              Added(d, code, where).list = Append(d.list, Diagnostic(code, where, 0))
<1> DEFINE s == d.tallies
           n == Len(s)
           new == [code |-> code, table |-> where, seen |-> 0]
           f == Found(d, code, where)
           q == f.tallies
           i == CHOOSE k \in TallyAt(f, code, where) : TRUE
           seen == q[i].seen + 1
           e == Added(d, code, where)
           T == Tallies(C, P)
           note == Diagnostic(code, where, 0)
<1>1. /\ s \in Seq(T) /\ d.list \in Seq(Notes(C, P)) /\ n \in Nat /\ DOMAIN s = 1..n
      /\ \A k \in 1..n : s[k] \in T /\ s[k].seen \in Nat
  BY ListFields
<1>2. d = [tallies |-> s, list |-> d.list]
  BY DEF Lists
<1>3. new \in T /\ note \in Notes(C, P)
  BY DEF Tallies, Notes, Diagnostic
<1>4. /\ q \in Seq(T) /\ f.list = d.list /\ i \in 1..Len(q) /\ q[i].seen \in Nat
      /\ TallyAt(d, code, where) = {} => q[i].seen = 0
  <2>1. CASE TallyAt(d, code, where) # {}
    <3>1. f = d
      BY <2>1 DEF Found
    <3>2. i \in TallyAt(d, code, where)
      BY <2>1, <3>1
    <3>3. i \in 1..n
      BY <1>1, <3>2 DEF TallyAt
    <3> QED BY <1>1, <2>1, <3>1, <3>3
  <2>2. CASE TallyAt(d, code, where) = {}
    <3>1. f = [tallies |-> Append(s, new), list |-> d.list]
      <4>1. f = [d EXCEPT !.tallies = Append(@, new)]
        BY <2>2 DEF Found
      <4> HIDE DEF f, new, s
      <4> QED BY SMTT(40), <1>2, <4>1
    <3>2. q = Append(s, new) /\ f.list = d.list
      BY <3>1
    <3> HIDE DEF f, new
    <3>3. q \in Seq(T) /\ Len(q) = n + 1 /\ q[n + 1] = new /\ \A k \in 1..n : q[k] = s[k]
      BY <1>1, <1>3, <3>2, OneMore
    <3>4. DOMAIN q = 1..(n + 1)
      BY <1>1, <3>3
    <3>5. TallyAt(f, code, where) = {n + 1}
      <4>1. \A k \in 1..n : ~SameTally(q[k], code, where)
        BY <1>1, <2>2, <3>3 DEF TallyAt
      <4>2. SameTally(q[n + 1], code, where)
        BY <3>3 DEF SameTally, new
      <4>3. \A k \in 1..(n + 1) : k \in 1..n \/ k = n + 1
        BY <1>1
      <4>4. n + 1 \in 1..(n + 1)
        BY <1>1
      <4> QED BY <3>4, <4>1, <4>2, <4>3, <4>4 DEF TallyAt
    <3>6. i = n + 1
      BY <3>5
    <3>7. q[i].seen = 0 /\ i \in 1..Len(q)
      <4>1. n + 1 \in 1..(n + 1)
        BY <1>1
      <4>2. new.seen = 0
        BY DEF new
      <4> HIDE DEF i, q, n
      <4> QED BY <3>3, <3>6, <4>1, <4>2
    <3> QED BY <3>2, <3>3, <3>7
  <2> QED BY <2>1, <2>2
<1>5. e = [tallies |-> [q EXCEPT ![i].seen = seen],
           list |-> IF seen <= Limit THEN Append(f.list, note) ELSE f.list]
  BY DEF Added
<1> DEFINE u == [q EXCEPT ![i].seen = seen]
           l == IF seen <= Limit THEN Append(f.list, note) ELSE f.list
<1>6. u \in Seq(T)
  <2>0. q[i] \in T /\ seen \in Nat
    BY <1>4
  <2>1. [q[i] EXCEPT !.seen = seen] \in T
    <3> HIDE DEF seen, q, i
    <3> QED BY <2>0 DEF Tallies
  <2> HIDE DEF seen, q, i
  <2> QED BY <1>4, <2>1
<1>7. l \in Seq(Notes(C, P))
  BY <1>1, <1>3, <1>4
<1>8. e = [tallies |-> u, list |-> l]
  BY <1>5
<1>9. ASSUME TallyAt(d, code, where) = {} PROVE l = Append(d.list, note)
  <2>1. seen = 1
    BY <1>4, <1>9
  <2>2. seen <= Limit
    BY <2>1, LimitAssumption
  <2> QED BY <1>4, <2>2
<1> HIDE DEF e, u, l
<1>10. e \in Lists(C, P) /\ e.list = l
  BY <1>6, <1>7, <1>8, ListOfFields
<1> QED BY <1>9, <1>10 DEF e

\* What is taken is what was recorded and summaries of the same codes.
LEMMA TakenIs ==
  ASSUME NEW C, NEW P, NEW d \in Lists(C, P)
  PROVE  /\ Taken(d) \in Seq(Notes(C, P)) /\ DOMAIN Taken(d) = 1..Len(Taken(d))
         /\ Len(d.list) <= Len(Taken(d)) /\ \A i \in 1..Len(d.list) : Taken(d)[i] = d.list[i]
         /\ \A i \in DOMAIN Taken(d) : Taken(d)[i].code \in C
<1> DEFINE T == Tallies(C, P)
           N == Notes(C, P)
           S == {t \in Range(d.tallies) : Over(t)}
           over == Selected(d.tallies, S)
           more == [i \in DOMAIN over |-> Summary(over[i])]
           r == d.list \o more
<1>1. d.tallies \in Seq(T) /\ d.list \in Seq(N)
  BY ListFields
<1>2. over \in Seq(T)
  <2> HIDE DEF S, T
  <2> QED BY <1>1, SelectedPlaces
<1>3. Taken(d) = r
  BY DEF Taken
<1> HIDE DEF over, S
<1>4. \A t \in T : Summary(t) \in N
  <2> TAKE t \in T
  <2>1. t.code \in C /\ t.table \in P /\ t.seen - Limit \in Int
    BY LimitAssumption DEF Tallies
  <2> QED BY <2>1 DEF Summary, Diagnostic, Notes
<1>5. more \in Seq(N)
  <2>1. Len(over) \in Nat /\ DOMAIN over = 1..Len(over) /\ \A i \in 1..Len(over) : over[i] \in T
    BY <1>2
  <2> HIDE DEF T, N
  <2>2. more \in [1..Len(over) -> N]
    BY <1>4, <2>1
  <2> HIDE DEF more
  <2> QED BY <2>1, <2>2, ListOf
<1> HIDE DEF more
<1>6. /\ r \in Seq(N) /\ Len(r) = Len(d.list) + Len(more)
      /\ \A i \in 1..(Len(d.list) + Len(more)) : r[i] = IF i <= Len(d.list) THEN d.list[i] ELSE more[i - Len(d.list)]
  BY <1>1, <1>5, ConcatProperties
<1>7. Len(d.list) \in Nat /\ Len(more) \in Nat
  BY <1>1, <1>5
<1> HIDE DEF r
<1>8. \A i \in 1..Len(d.list) : r[i] = d.list[i]
  <2> TAKE i \in 1..Len(d.list)
  <2>1. i \in 1..(Len(d.list) + Len(more)) /\ i <= Len(d.list)
    BY <1>7
  <2> QED BY <1>6, <2>1
<1>9. Len(d.list) <= Len(r) /\ DOMAIN r = 1..Len(r)
  BY <1>6, <1>7
<1>10. \A i \in DOMAIN r : r[i].code \in C
  <2> TAKE i \in DOMAIN r
  <2>1. r[i] \in N
    BY <1>6
  <2> QED BY <2>1 DEF Notes
<1> QED BY <1>3, <1>6, <1>8, <1>9, <1>10

\* A diagnostic of this code is in the list.
Listed(l, code) == \E i \in DOMAIN l : l[i].code = code

\* A code that was never added is in what is taken once it is.
LEMMA AddedOnce ==
  ASSUME NEW C, NEW P, NEW d \in Lists(C, P), NEW code, code \notin C, NEW where
  PROVE  Listed(Taken(Added(d, code, where)), code)
<1> DEFINE C2 == C \cup {code}
           P2 == P \cup {where}
           e == Added(d, code, where)
           t == Taken(e)
           n == Len(d.list)
           note == Diagnostic(code, where, 0)
<1>1. d \in Lists(C2, P2)
  <2>1. Tallies(C, P) \subseteq Tallies(C2, P2) /\ Notes(C, P) \subseteq Notes(C2, P2)
    BY DEF Tallies, Notes
  <2>2. d.tallies \in Seq(Tallies(C2, P2)) /\ d.list \in Seq(Notes(C2, P2))
    <3>1. d.tallies \in Seq(Tallies(C, P)) /\ d.list \in Seq(Notes(C, P))
      BY ListFields
    <3>2. ASSUME NEW A, NEW B, A \subseteq B, NEW s \in Seq(A) PROVE s \in Seq(B)
      BY <3>2
    <3> HIDE DEF C2, P2
    <3> QED BY ONLY <2>1, <3>1, <3>2
  <2>3. d = [tallies |-> d.tallies, list |-> d.list]
    BY DEF Lists
  <2> HIDE DEF C2, P2
  <2>4. [tallies |-> d.tallies, list |-> d.list] \in Lists(C2, P2)
    BY <2>2, ListOfFields
  <2> QED BY <2>3, <2>4
<1>2. TallyAt(d, code, where) = {}
  BY ListFields DEF TallyAt, SameTally
<1>3. code \in C2 /\ where \in P2
  OBVIOUS
<1> HIDE DEF C2, P2
<1>4. e \in Lists(C2, P2) /\ e.list = Append(d.list, note)
  BY <1>1, <1>2, <1>3, AddedIs
<1> HIDE DEF e
<1>5. /\ t \in Seq(Notes(C2, P2)) /\ DOMAIN t = 1..Len(t) /\ Len(e.list) <= Len(t)
      /\ \A i \in 1..Len(e.list) : t[i] = e.list[i]
  <2>1. e \in Lists(C2, P2)
    BY <1>4
  <2> QED BY ONLY <2>1, TakenIs
<1>6. d.list \in Seq(Notes(C2, P2)) /\ note \in Notes(C2, P2) /\ note.code = code
  <2>1. d.list \in Seq(Notes(C2, P2))
    BY <1>1, ListFields
  <2> QED BY <1>3, <2>1 DEF Notes, Diagnostic
<1> HIDE DEF note, t
<1>7. Len(e.list) = n + 1 /\ e.list[n + 1] = note /\ n \in Nat
  BY <1>4, <1>6, OneMore
<1>8. Len(t) \in Nat
  BY <1>5
<1>9. n + 1 \in 1..Len(e.list) /\ n + 1 \in 1..Len(t)
  BY <1>5, <1>7, <1>8
<1>10. t[n + 1].code = code
  BY <1>5, <1>6, <1>7, <1>9
<1>11. n + 1 \in DOMAIN t
  BY <1>5, <1>9
<1>12. \E i \in DOMAIN t : t[i].code = code
  BY <1>10, <1>11
<1> QED BY <1>12 DEF t, e, Listed

-----------------------------------------------------------------------------
(* Where the sections of a file end *)

BytesOf(f) ==
  [s \in DOMAIN Sections |->
     4 + f.stored[s] * RecordSize(Sections[s])
     + (IF Sections[s] = "ik" THEN IkStateRecord * Total(f.states) ELSE 0)]
EndOf(f, n) == SignatureSize + f.nameSize + SumTo(BytesOf(f))[n]
SizeOf(s) == RecordSize(Sections[s])

LEMMA EndIs == \A n : SectionEnd(n) = EndOf(file, n)
BY DEF SectionEnd, SectionBytes, EndOf, BytesOf

LEMMA SizeTypes ==
  /\ \A s \in 1..6 : SizeOf(s) \in Nat /\ SizeOf(s) >= 1
  /\ SizeOf(6) = 9 /\ IkRecordMinimum = 9 /\ IkStateRecord \in Nat /\ IkStateRecord >= 1
  /\ Sections[6] = "ik" /\ \A s \in 1..5 : Sections[s] # "ik"
<1>1. /\ Sections[1] = "bones" /\ Sections[2] = "morphs" /\ Sections[3] = "cameras"
      /\ Sections[4] = "lights" /\ Sections[5] = "shadows" /\ Sections[6] = "ik"
  BY DEF Sections
<1>2. BoneRecord \in Nat /\ BoneRecord >= 1 /\ MorphRecord \in Nat /\ MorphRecord >= 1
  BY NamesAssumption DEF BoneRecord, MorphRecord
<1>3. IkRecordMinimum = 9 /\ IkStateRecord \in Nat /\ IkStateRecord >= 1
  BY NamesAssumption DEF IkRecordMinimum, IkStateRecord
<1>4. /\ SizeOf(1) = BoneRecord /\ SizeOf(2) = MorphRecord /\ SizeOf(3) = 61 /\ SizeOf(4) = 28
      /\ SizeOf(5) = 9 /\ SizeOf(6) = 9
  BY <1>1, <1>3 DEF SizeOf, RecordSize, StageRecord
<1>5. \A s \in 1..6 : s = 1 \/ s = 2 \/ s = 3 \/ s = 4 \/ s = 5 \/ s = 6
  OBVIOUS
<1>6. \A s \in 1..5 : s = 1 \/ s = 2 \/ s = 3 \/ s = 4 \/ s = 5
  OBVIOUS
<1>7. \A s \in 1..6 : SizeOf(s) \in Nat /\ SizeOf(s) >= 1
  BY <1>2, <1>4, <1>5
<1>8. \A s \in 1..5 : Sections[s] # "ik"
  BY <1>1, <1>6
<1> QED BY <1>1, <1>3, <1>4, <1>7, <1>8

LEMMA ProductType == ASSUME NEW a \in Nat, NEW b \in Nat PROVE a * b \in Nat
OBVIOUS

LEMMA FileIs ==
  ASSUME NEW f \in Files
  PROVE  /\ f.size \in Nat /\ f.nameSize \in {10, 20} /\ f.states \in Seq(Nat)
         /\ \A s \in 1..6 : f.stored[s] \in Nat
         /\ Len(f.states) = f.stored[6]
BY FilesAssumption, SectionNames

LEMMA BytesAre ==
  ASSUME NEW f \in Files
  PROVE  /\ \A n \in 1..6 : f.stored[n] * SizeOf(n) \in Nat
         /\ f.stored[6] * 9 \in Nat /\ IkStateRecord * Total(f.states) \in Nat
<1>1. ASSUME NEW n \in 1..6 PROVE f.stored[n] * SizeOf(n) \in Nat
  <2> DEFINE a == f.stored[n]
             b == SizeOf(n)
  <2>1. a \in Nat /\ b \in Nat
    BY FileIs, SizeTypes
  <2> HIDE DEF a, b
  <2>2. a * b \in Nat
    BY <2>1, ProductType
  <2> QED BY <2>2 DEF a, b
<1>2. f.stored[6] * 9 \in Nat
  BY <1>1, SizeTypes
<1>3. IkStateRecord * Total(f.states) \in Nat
  <2> DEFINE b == Total(f.states)
  <2>1. IkStateRecord \in Nat /\ b \in Nat
    BY FileIs, SizeTypes, TotalType
  <2> HIDE DEF b
  <2>2. IkStateRecord * b \in Nat
    BY <2>1, ProductType
  <2> QED BY <2>2 DEF b
<1> QED BY <1>1, <1>2, <1>3

\* Each section takes its count, its records and, where it is the last, the
\* states of those.
LEMMA Ends ==
  ASSUME NEW f \in Files
  PROVE  /\ \A n \in 0..6 : EndOf(f, n) \in Nat
         /\ EndOf(f, 0) = SignatureSize + f.nameSize
         /\ \A n \in 1..5 : EndOf(f, n) = EndOf(f, n - 1) + 4 + f.stored[n] * SizeOf(n)
         /\ EndOf(f, 6) = EndOf(f, 5) + 4 + f.stored[6] * 9 + IkStateRecord * Total(f.states)
<1> DEFINE b == BytesOf(f)
           A == SumTo(b)
           base == SignatureSize + f.nameSize
           T == Total(f.states)
<1>1. /\ f.nameSize \in {10, 20} /\ f.states \in Seq(Nat) /\ \A s \in 1..6 : f.stored[s] \in Nat
  BY FileIs
<1>2. T \in Nat /\ base \in Nat
  BY <1>1, TotalType DEF SignatureSize
<1> HIDE DEF T
<1>3. /\ \A n \in 1..5 : b[n] = 4 + f.stored[n] * SizeOf(n)
      /\ b[6] = 4 + f.stored[6] * 9 + IkStateRecord * T
      /\ DOMAIN b = 1..6
  <2>1. \A n \in 1..6 : b[n] = 4 + f.stored[n] * SizeOf(n) + (IF Sections[n] = "ik" THEN IkStateRecord * T ELSE 0)
    BY SectionNames DEF BytesOf, SizeOf, T
  <2>2. \A n \in 1..5 : n \in 1..6 /\ f.stored[n] * SizeOf(n) \in Nat
    BY BytesAre
  <2>3. \A n \in 1..5 : b[n] = 4 + f.stored[n] * SizeOf(n)
    BY <2>1, <2>2, SizeTypes
  <2>4. b[6] = 4 + f.stored[6] * 9 + IkStateRecord * T
    BY <2>1, SizeTypes
  <2>5. DOMAIN b = 1..6
    BY SectionNames DEF BytesOf
  <2> QED BY <2>3, <2>4, <2>5
<1>4. b \in [1..6 -> Nat]
  <2>1. b = [s \in 1..6 |-> b[s]]
    BY SectionNames DEF BytesOf
  <2>2. ASSUME NEW s \in 1..6 PROVE b[s] \in Nat
    <3>1. CASE s = 6
      <4>1. f.stored[6] * 9 \in Nat /\ IkStateRecord * T \in Nat
        BY BytesAre DEF T
      <4> HIDE DEF b
      <4> QED BY <1>3, <3>1, <4>1
    <3>2. CASE s # 6
      <4>1. s \in 1..5 /\ f.stored[s] * SizeOf(s) \in Nat
        BY <3>2, BytesAre
      <4> HIDE DEF b
      <4> QED BY <1>3, <4>1
    <3> QED BY <3>1, <3>2
  <2> HIDE DEF b
  <2> QED BY <2>1, <2>2
<1> HIDE DEF b
<1>5. b \in Seq(Nat) /\ Len(b) = 6
  BY <1>4, ListOf
<1>6. /\ \A n \in 0..6 : A[n] \in Nat
      /\ A[0] = 0 /\ \A n \in 1..6 : A[n] = A[n - 1] + b[n]
  BY <1>5, SumSteps
<1>7. \A n : EndOf(f, n) = base + A[n]
  BY DEF EndOf, b
<1> HIDE DEF A, base
<1>8. \A n \in 0..6 : EndOf(f, n) \in Nat
  BY <1>2, <1>6, <1>7
<1>9. EndOf(f, 0) = base
  BY <1>2, <1>6, <1>7
<1>10. ASSUME NEW n \in 1..5 PROVE EndOf(f, n) = EndOf(f, n - 1) + 4 + f.stored[n] * SizeOf(n)
  <2> DEFINE p == f.stored[n] * SizeOf(n)
  <2>1. n \in 1..6 /\ n - 1 \in 0..6 /\ p \in Nat
    BY BytesAre
  <2>2. A[n] = A[n - 1] + (4 + p) /\ A[n - 1] \in Nat
    BY <1>3, <1>6, <2>1
  <2> HIDE DEF p
  <2>3. EndOf(f, n) = EndOf(f, n - 1) + 4 + p
    BY <1>2, <1>7, <2>1, <2>2
  <2> QED BY <2>3 DEF p
<1>11. EndOf(f, 6) = EndOf(f, 5) + 4 + f.stored[6] * 9 + IkStateRecord * T
  <2> DEFINE p == f.stored[6] * 9
             q == IkStateRecord * T
  <2>1. p \in Nat /\ q \in Nat
    BY BytesAre DEF T
  <2>2. A[6] = A[6 - 1] + b[6] /\ A[5] \in Nat
    BY <1>6
  <2>3. A[6] = A[5] + (4 + p + q)
    BY <1>3, <2>2
  <2> HIDE DEF p, q
  <2>4. EndOf(f, 6) = EndOf(f, 5) + 4 + p + q
    BY <1>2, <1>7, <2>1, <2>2, <2>3
  <2> QED BY <2>4 DEF p, q
<1> QED BY <1>8, <1>9, <1>10, <1>11 DEF base, T

\* Later sections end later.
LEMMA EndsAscend ==
  ASSUME NEW f \in Files, NEW n \in 0..6, NEW m \in 0..6, n < m
  PROVE  EndOf(f, n) + 4 <= EndOf(f, m)
<1> DEFINE E(k) == EndOf(f, k)
           P == {k \in 0..6 : k > n => E(n) + 4 <= E(k)}
<1>1. \A k \in 0..6 : E(k) \in Nat
  BY Ends
<1>2. \A k \in 0..5 : E(k) + 4 <= E(k + 1)
  <2> TAKE k \in 0..5
  <2>1. CASE k = 5
    <3> DEFINE p == f.stored[6] * 9
               q == IkStateRecord * Total(f.states)
    <3>1. p \in Nat /\ q \in Nat
      BY BytesAre
    <3>2. E(6) = E(5) + 4 + p + q
      BY Ends
    <3> HIDE DEF p, q, E
    <3>3. E(5) \in Nat /\ E(6) \in Nat
      BY <1>1
    <3>4. E(5) + 4 <= E(6)
      BY <3>1, <3>2, <3>3
    <3> QED BY <2>1, <3>4
  <2>2. CASE k # 5
    <3> DEFINE p == f.stored[k + 1] * SizeOf(k + 1)
    <3>1. k + 1 \in 1..5 /\ k + 1 \in 1..6 /\ (k + 1) - 1 = k
      BY <2>2
    <3>2. p \in Nat
      BY <3>1, BytesAre
    <3>3. E(k + 1) = E(k) + 4 + p
      BY <3>1, Ends
    <3> HIDE DEF p, E
    <3>4. E(k) \in Nat /\ E(k + 1) \in Nat
      BY <1>1, <3>1
    <3> QED BY <3>2, <3>3, <3>4
  <2> QED BY <2>1, <2>2
<1> HIDE DEF E
<1>3. 0..6 \subseteq P
  <2>1. 0 \in P
    OBVIOUS
  <2>2. ASSUME NEW k \in 0..(6 - 1), k \in P PROVE k + 1 \in P
    <3>1. k + 1 \in 0..6 /\ k \in 0..5 /\ E(k) \in Nat /\ E(k + 1) \in Nat /\ E(n) \in Nat
      BY <1>1
    <3>2. E(k) + 4 <= E(k + 1)
      BY <1>2, <3>1
    <3>3. ASSUME k + 1 > n PROVE E(n) + 4 <= E(k + 1)
      <4>1. CASE k > n
        <5>1. E(n) + 4 <= E(k)
          BY <2>2, <4>1
        <5> QED BY <3>1, <3>2, <5>1
      <4>2. CASE k = n
        BY <3>2, <4>2
      <4> QED BY <3>3, <4>1, <4>2
    <3> QED BY <3>1, <3>3
  <2> HIDE DEF P
  <2> QED BY <2>1, <2>2, UpTo
<1> QED BY <1>3 DEF E

\* The file is whole: it ends between two sections or after the last.
WholeFile(f) == f.size > EndOf(f, 6) \/ \E n \in 0..6 : f.size = EndOf(f, n)

\* A file that ends in a section is not.
LEMMA EndsInside ==
  ASSUME NEW f \in Files, NEW n \in 0..5, EndOf(f, n) < f.size, f.size < EndOf(f, n + 1)
  PROVE  ~WholeFile(f)
<1>1. f.size \in Nat /\ \A k \in 0..6 : EndOf(f, k) \in Nat
  BY FileIs, Ends
<1>2. n \in 0..6 /\ n + 1 \in 0..6
  OBVIOUS
<1>3. ASSUME NEW k \in 0..6, k <= n PROVE EndOf(f, k) <= EndOf(f, n)
  <2>1. CASE k = n
    BY <1>1, <2>1
  <2>2. CASE k < n
    <3>1. EndOf(f, k) + 4 <= EndOf(f, n)
      BY <1>2, <2>2, EndsAscend
    <3> QED BY <1>1, <1>2, <3>1
  <2> QED BY <1>3, <2>1, <2>2
<1>4. ASSUME NEW k \in 0..6, n + 1 <= k PROVE EndOf(f, n + 1) <= EndOf(f, k)
  <2>1. CASE k = n + 1
    BY <1>1, <1>2, <2>1
  <2>2. CASE n + 1 < k
    <3>1. EndOf(f, n + 1) + 4 <= EndOf(f, k)
      BY <1>2, <2>2, EndsAscend
    <3> QED BY <1>1, <1>2, <3>1
  <2> QED BY <1>4, <2>1, <2>2
<1>5. EndOf(f, n + 1) <= EndOf(f, 6)
  BY <1>4
<1>6. \A k \in 0..6 : f.size # EndOf(f, k)
  <2> TAKE k \in 0..6
  <2>1. k <= n \/ n + 1 <= k
    OBVIOUS
  <2>2. EndOf(f, k) <= EndOf(f, n) \/ EndOf(f, n + 1) <= EndOf(f, k)
    BY <1>3, <1>4, <2>1
  <2> QED BY <1>1, <1>2, <2>2
<1>7. ~(f.size > EndOf(f, 6))
  BY <1>1, <1>2, <1>5
<1> QED BY <1>6, <1>7 DEF WholeFile

-----------------------------------------------------------------------------
(* Whole sections *)

\* The states that the records after the first k still have.
Owed(f, k) == Total(f.states) - SumTo(f.states)[k]

LEMMA OwedIs ==
  ASSUME NEW f \in Files
  PROVE  /\ Owed(f, 0) = Total(f.states) /\ Owed(f, f.stored[6]) = 0
         /\ \A k \in 0..f.stored[6] : Owed(f, k) \in Nat
         /\ \A k \in 0..(f.stored[6] - 1) :
              /\ f.states[k + 1] \in Nat /\ Owed(f, k + 1) \in Nat
              /\ Owed(f, k) = f.states[k + 1] + Owed(f, k + 1)
<1> DEFINE s == f.states
           n == f.stored[6]
           A == SumTo(s)
           B(j) == A[n] - A[n - j]
           P == {j \in 0..n : B(j) \in Nat}
<1>1. s \in Seq(Nat) /\ Len(s) = n /\ n \in Nat /\ \A i \in 1..n : s[i] \in Nat
  BY FileIs
<1>2. /\ \A k \in 0..n : A[k] \in Nat
      /\ A[0] = 0 /\ \A k \in 1..n : A[k] = A[k - 1] + s[k]
  BY <1>1, SumSteps
<1>3. \A k : Owed(f, k) = A[n] - A[k]
  BY <1>1 DEF Owed, Total
<1> HIDE DEF A, s, n
<1>4. \A k \in 0..(n - 1) : A[k + 1] = A[k] + s[k + 1] /\ s[k + 1] \in Nat /\ k \in 0..n /\ k + 1 \in 0..n
  <2> TAKE k \in 0..(n - 1)
  <2>1. k + 1 \in 1..n /\ k + 1 \in 0..n /\ k \in 0..n /\ (k + 1) - 1 = k
    BY <1>1
  <2> QED BY <1>1, <1>2, <2>1
<1>5. 0..n \subseteq P
  <2>1. 0 \in P
    BY <1>1, <1>2
  <2>2. ASSUME NEW j \in 0..(n - 1), j \in P PROVE j + 1 \in P
    <3> DEFINE k == n - (j + 1)
    <3>1. k \in 0..(n - 1) /\ k + 1 = n - j /\ j + 1 \in 0..n /\ n \in 0..n
      BY <1>1
    <3>2. A[k + 1] = A[k] + s[k + 1] /\ s[k + 1] \in Nat /\ A[k] \in Nat /\ A[k + 1] \in Nat /\ A[n] \in Nat
      BY <1>2, <1>4, <3>1
    <3>3. A[n] - A[k + 1] \in Nat
      BY <2>2, <3>1
    <3>4. A[n] - A[k] \in Nat
      <4> HIDE DEF k
      <4> QED BY <3>2, <3>3
    <3> QED BY <3>1, <3>4
  <2> HIDE DEF P
  <2> QED BY <1>1, <2>1, <2>2, UpTo
<1>6. ASSUME NEW k \in 0..n PROVE A[n] - A[k] \in Nat
  <2> DEFINE j == n - k
  <2>1. j \in 0..n /\ n - j = k
    BY <1>1
  <2>2. j \in P
    BY <1>5, <2>1
  <2> QED BY <2>1, <2>2
<1>7. ASSUME NEW k \in 0..(n - 1)
      PROVE  /\ s[k + 1] \in Nat /\ A[n] - A[k + 1] \in Nat
             /\ A[n] - A[k] = s[k + 1] + (A[n] - A[k + 1])
  <2>1. /\ A[k + 1] = A[k] + s[k + 1] /\ s[k + 1] \in Nat /\ k \in 0..n /\ k + 1 \in 0..n
    BY <1>4
  <2>2. A[n] \in Nat /\ A[k] \in Nat /\ n \in 0..n
    BY <1>1, <1>2, <2>1
  <2>3. A[n] - A[k + 1] \in Nat
    BY <1>6, <2>1
  <2> QED BY <2>1, <2>2, <2>3
<1>8. n \in 0..n /\ A[n] \in Nat /\ 0 \in 0..n /\ Total(s) = A[n] - A[0] /\ A[n] - A[n] = 0
  <2>1. n \in 0..n /\ 0 \in 0..n
    BY <1>1
  <2>2. Total(s) = A[n]
    BY <1>1 DEF Total, A
  <2> QED BY <1>2, <2>1, <2>2
<1> HIDE DEF B, P
<1>9. Owed(f, 0) = Total(s) /\ Owed(f, n) = 0
  BY <1>3, <1>8
<1>10. \A k \in 0..n : Owed(f, k) \in Nat
  BY <1>3, <1>6
<1>11. \A k \in 0..(n - 1) :
         s[k + 1] \in Nat /\ Owed(f, k + 1) \in Nat /\ Owed(f, k) = s[k + 1] + Owed(f, k + 1)
  BY <1>3, <1>7
<1> QED BY <1>9, <1>10, <1>11 DEF s, n

\* What the file still has up to the end of the section, if it has it all:
\* records of the n-th section, and states for the IK records.
Pending(n, records, more) ==
  IF n = 0 THEN 0 ELSE records * SizeOf(n) + (IF n = 6 THEN IkStateRecord * more ELSE 0)

TextCodes == {"TEXT_INVALID_CP932", "TEXT_TRUNCATED_CP932"}
TextPlaces == {"header", "bones", "morphs", "ik"}

\* Where the reader is, and how many records of each section it has read.
Progress ==
  /\ pc \in {"header", "sections", "done", "failed"}
  /\ section \in 0..6 /\ left \in Nat /\ states \in Nat /\ offset \in Nat
  /\ pc = "header" => offset = 0 /\ section = 0
  /\ section = 0 => left = 0
  /\ section > 0 => left <= file.stored[section]
  /\ section < 6 => states = 0
  /\ \A n \in 1..6 :
       Len(doc[Sections[n]]) = IF n < section THEN file.stored[n]
                               ELSE IF n = section THEN file.stored[n] - left ELSE 0

\* The cursor is where what is pending leads to the section's end, and what
\* the counts read so far state is in the file.
AtSection ==
  /\ offset + Pending(section, left, states + Owed(file, Len(doc["ik"]))) = EndOf(file, section)
  /\ section < 6 => EndOf(file, section) <= file.size
  /\ section = 6 => /\ EndOf(file, 5) + 4 <= file.size
                    /\ offset + IkStateRecord * states <= file.size

\* What has ended is as the counts state it.
Ended ==
  /\ pc = "failed" /\ offset > 0 => ~WholeFile(file)
  /\ pc = "done" =>
       /\ WholeFile(file) /\ offset = EndOf(file, section)
       /\ \A n \in 1..6 : Len(doc[Sections[n]]) = IF n <= section THEN file.stored[n] ELSE 0
       /\ offset < file.size <=>
            \E i \in DOMAIN result.list : result.list[i].code = "MOTION_TRAILING_BYTES"

WholeInv ==
  /\ Reading /\ Progress /\ Ended
  /\ pc = "sections" => AtSection
  /\ pc \in {"header", "sections"} => problems \in Lists(TextCodes, TextPlaces)

LEMMA EndedIs == Ended => OnlyWholeSectionsAreRead
<1>1. \A n : SectionEnd(n) = EndOf(file, n)
  BY EndIs
<1>2. Len(Sections) = 6
  BY SectionNames
<1> QED BY <1>1, <1>2 DEF Ended, OnlyWholeSectionsAreRead, WholeFile

LEMMA SectionsDiffer == \A n, m \in 1..6 : n # m => Sections[n] # Sections[m]
<1>1. /\ Sections[1] = "bones" /\ Sections[2] = "morphs" /\ Sections[3] = "cameras"
      /\ Sections[4] = "lights" /\ Sections[5] = "shadows" /\ Sections[6] = "ik"
  BY DEF Sections
<1> TAKE n, m \in 1..6
<1>2. /\ n = 1 \/ n = 2 \/ n = 3 \/ n = 4 \/ n = 5 \/ n = 6
      /\ m = 1 \/ m = 2 \/ m = 3 \/ m = 4 \/ m = 5 \/ m = 6
  OBVIOUS
<1> QED BY <1>1, <1>2

\* A document whose section n changed.
Changed(d, n, q) == [d EXCEPT ![Sections[n]] = q]

LEMMA LengthsAre ==
  ASSUME NEW d, IsDoc(d), NEW n \in 1..6, NEW q
  PROVE  /\ Changed(d, n, q)[Sections[n]] = q
         /\ \A m \in 1..6 : m # n => Changed(d, n, q)[Sections[m]] = d[Sections[m]]
<1>1. \A m \in 1..6 : Sections[m] \in DOMAIN d
  <2>1. \A m \in 1..6 : Sections[m] \in Range(Sections)
    BY SectionNames DEF Range
  <2> QED BY <2>1 DEF IsDoc
<1> QED BY <1>1, SectionsDiffer DEF Changed

LEMMA LessOne == ASSUME NEW a \in Nat, a > 0, NEW b \in Nat PROVE a * b = b + (a - 1) * b /\ (a - 1) * b \in Nat
<1>1. a - 1 \in Nat /\ a = (a - 1) + 1
  OBVIOUS
<1> DEFINE c == a - 1
<1>2. ASSUME NEW x \in Nat PROVE (x + 1) * b = b + x * b /\ x * b \in Nat
  OBVIOUS
<1> QED BY <1>1, <1>2

LEMMA SumTimes ==
  ASSUME NEW a \in Nat, NEW b \in Nat, NEW c \in Nat
  PROVE  a * (b + c) = a * b + a * c /\ a * b \in Nat /\ a * c \in Nat
OBVIOUS

\* What is pending is no less than none.
LEMMA PendingIs ==
  ASSUME NEW n \in 0..6, NEW l \in Nat, NEW q \in Nat
  PROVE  /\ Pending(n, l, q) \in Nat
         /\ n > 0 /\ l > 0 => Pending(n, l, q) = SizeOf(n) + Pending(n, l - 1, q)
         /\ q > 0 => Pending(6, l, q) = IkStateRecord + Pending(6, l, q - 1)
         /\ n < 6 => Pending(n, 0, q) = 0
         /\ Pending(n, 0, 0) = 0
<1> DEFINE I == IkStateRecord
           Z == SizeOf(n)
           X == IF n = 6 THEN I * q ELSE 0
<1>1. I \in Nat /\ SizeOf(6) \in Nat
  BY SizeTypes
<1>2. I * q \in Nat /\ l * SizeOf(6) \in Nat /\ I * 0 = 0 /\ 0 * SizeOf(6) = 0
  <2> HIDE DEF I
  <2>1. ASSUME NEW a \in Nat, NEW b \in Nat PROVE a * b \in Nat /\ a * 0 = 0 /\ 0 * b = 0
    OBVIOUS
  <2> QED BY <1>1, <2>1
<1>3. X \in Nat
  BY <1>2
<1>4. ASSUME n > 0 PROVE Z \in Nat /\ l * Z \in Nat /\ 0 * Z = 0
  <2>1. n \in 1..6
    BY <1>4
  <2>2. Z \in Nat
    BY <2>1, SizeTypes
  <2> HIDE DEF Z
  <2>3. ASSUME NEW a \in Nat, NEW b \in Nat PROVE a * b \in Nat /\ 0 * b = 0
    OBVIOUS
  <2> QED BY <2>2, <2>3
<1>5. ASSUME n > 0, l > 0 PROVE l * Z = Z + (l - 1) * Z /\ (l - 1) * Z \in Nat
  <2>1. Z \in Nat
    BY <1>4, <1>5
  <2> HIDE DEF Z
  <2> QED BY <1>5, <2>1, LessOne
<1>6. ASSUME q > 0 PROVE I * q = I + I * (q - 1) /\ I * (q - 1) \in Nat
  <2> HIDE DEF I
  <2>1. q * I = I + (q - 1) * I /\ (q - 1) * I \in Nat
    BY <1>1, <1>6, LessOne
  <2>2. q * I = I * q /\ (q - 1) * I = I * (q - 1)
    BY <1>1
  <2> QED BY <2>1, <2>2
<1>7. Pending(n, l, q) = IF n = 0 THEN 0 ELSE l * Z + X
  BY DEF Pending
<1>8. Pending(n, l - 1, q) = IF n = 0 THEN 0 ELSE (l - 1) * Z + X
  BY DEF Pending
<1>9. Pending(6, l, q) = l * SizeOf(6) + I * q
  BY DEF Pending
<1>10. Pending(6, l, q - 1) = l * SizeOf(6) + I * (q - 1)
  BY DEF Pending
<1>11. n < 6 => Pending(n, 0, q) = 0
  <2>1. ASSUME n # 0, n < 6 PROVE Pending(n, 0, q) = 0 * Z + 0
    BY <2>1 DEF Pending
  <2> HIDE DEF Z
  <2>2. ASSUME n # 0, n < 6 PROVE Pending(n, 0, q) = 0
    <3>1. 0 * Z = 0
      BY <1>4, <2>2
    <3> QED BY <2>1, <2>2, <3>1
  <2> QED BY <2>2 DEF Pending
<1>12. Pending(n, 0, 0) = 0
  <2>1. n # 0 => Pending(n, 0, 0) = 0 * Z + (IF n = 6 THEN I * 0 ELSE 0)
    BY DEF Pending
  <2>2. n = 0 => Pending(n, 0, 0) = 0
    BY DEF Pending
  <2> HIDE DEF Z, I
  <2>3. ASSUME n # 0 PROVE Pending(n, 0, 0) = 0
    <3>1. 0 * Z = 0 /\ I * 0 = 0
      BY <1>2, <1>4, <2>3
    <3> QED BY <2>1, <2>3, <3>1
  <2> QED BY <2>2, <2>3
<1> DEFINE A == l * Z
           B == (l - 1) * Z
           S == l * SizeOf(6)
           J == I * q
           K == I * (q - 1)
<1>13. Pending(n, l, q) = (IF n = 0 THEN 0 ELSE A + X) /\ Pending(n, l - 1, q) = (IF n = 0 THEN 0 ELSE B + X)
  BY <1>7, <1>8
<1>14. Pending(6, l, q) = S + J /\ Pending(6, l, q - 1) = S + K
  BY <1>9, <1>10
<1>15. /\ n > 0 => A \in Nat /\ Z \in Nat
       /\ n > 0 /\ l > 0 => A = Z + B /\ B \in Nat
       /\ q > 0 => J = I + K /\ K \in Nat
       /\ S \in Nat /\ J \in Nat
  BY <1>2, <1>4, <1>5, <1>6
<1> HIDE DEF A, B, S, J, K, X, Z, I
<1>16. Pending(n, l, q) \in Nat
  BY <1>3, <1>13, <1>15
<1>17. n > 0 /\ l > 0 => Pending(n, l, q) = Z + Pending(n, l - 1, q)
  BY <1>3, <1>13, <1>15
<1>18. q > 0 => Pending(6, l, q) = I + Pending(6, l, q - 1)
  BY <1>1, <1>14, <1>15
<1> QED BY <1>11, <1>12, <1>16, <1>17, <1>18 DEF Z, I

\* Every section of the document is a sequence.
LEMMA LengthTypes ==
  ASSUME NEW d, IsDoc(d)
  PROVE  \A n \in 1..6 : Len(d[Sections[n]]) \in Nat
<1> TAKE n \in 1..6
<1>1. Sections[n] \in Range(Sections)
  BY SectionNames DEF Range
<1>2. d[Sections[n]] \in SectionRecords(Sections[n])
  BY <1>1 DEF IsDoc
<1>3. d[Sections[n]] \in Seq(IkRecords) \/ d[Sections[n]] \in Seq(KeysOf(Sections[n]))
  BY <1>2 DEF SectionRecords
<1> QED BY <1>3

LEMMA InvFacts ==
  ASSUME WholeInv
  PROVE  /\ Reading /\ file \in Files /\ IsDoc(doc) /\ Progress
         /\ section \in 0..6 /\ left \in Nat /\ states \in Nat /\ offset \in Nat
         /\ file.size \in Nat /\ \A n \in 1..6 : file.stored[n] \in Nat
         /\ Len(doc["ik"]) = Len(doc[Sections[6]]) /\ Len(doc["ik"]) \in 0..file.stored[6]
         /\ Owed(file, Len(doc["ik"])) \in Nat
<1>1. Reading /\ file \in Files /\ IsDoc(doc) /\ Progress
  BY DEF WholeInv, Reading
<1>2. section \in 0..6 /\ left \in Nat /\ states \in Nat /\ offset \in Nat
  BY <1>1 DEF Progress
<1>3. file.size \in Nat /\ \A n \in 1..6 : file.stored[n] \in Nat
  BY <1>1, FileIs
<1>4. Len(doc["ik"]) = Len(doc[Sections[6]])
  BY SizeTypes
<1>5. Len(doc["ik"]) \in 0..file.stored[6]
  <2>1. /\ Len(doc[Sections[6]]) = IF 6 < section THEN file.stored[6]
                                   ELSE IF 6 = section THEN file.stored[6] - left ELSE 0
        /\ section > 0 => left <= file.stored[section]
    BY <1>1 DEF Progress
  <2> QED BY <1>2, <1>3, <1>4, <2>1
<1>6. Owed(file, Len(doc["ik"])) \in Nat
  BY <1>1, <1>5, OwedIs
<1> QED BY <1>1, <1>2, <1>3, <1>4, <1>5, <1>6

\* Steps that stay in the file's sections end nothing.
LEMMA Goes ==
  ASSUME Reading', Progress', AtSection', pc' = "sections", problems' \in Lists(TextCodes, TextPlaces)
  PROVE  WholeInv'
<1>1. pc' # "done" /\ pc' # "failed"
  OBVIOUS
<1>2. Ended'
  BY <1>1 DEF Ended
<1> QED BY <1>2 DEF WholeInv

\* One record of a section other than the last.
LEMMA RecordStep ==
  ASSUME WholeInv, Reading', pc = "sections", pc' = "sections", UNCHANGED <<file, section>>,
         problems' \in Lists(TextCodes, TextPlaces), section \in 1..5,
         left > 0, left' = left - 1, states = 0, states' = 0, offset' = offset + SizeOf(section),
         NEW k, doc' = [doc EXCEPT ![Sections[section]] = Append(@, k)]
  PROVE  WholeInv'
<1> DEFINE n == section
           q == Append(doc[Sections[n]], k)
           m == Len(doc["ik"])
<1>1. /\ n \in 1..6 /\ n \in 0..6 /\ n < 6 /\ 6 # n /\ left - 1 \in Nat /\ file \in Files /\ IsDoc(doc) /\ Progress
      /\ offset \in Nat /\ left \in Nat /\ file.stored[n] \in Nat /\ SizeOf(n) \in Nat
      /\ m = Len(doc[Sections[6]]) /\ Owed(file, m) \in Nat
  <2>1. n \in 1..6 /\ n \in 0..6 /\ n < 6 /\ 6 # n
    OBVIOUS
  <2>2. /\ left \in Nat /\ file \in Files /\ IsDoc(doc) /\ Progress
        /\ offset \in Nat /\ m = Len(doc[Sections[6]]) /\ Owed(file, m) \in Nat
    BY InvFacts
  <2>5. left - 1 \in Nat
    BY <2>2
  <2>3. file.stored[n] \in Nat
    BY <2>1, InvFacts
  <2>4. SizeOf(n) \in Nat
    BY <2>1, SizeTypes
  <2> QED BY <2>1, <2>2, <2>3, <2>4, <2>5
<1>2. doc' = Changed(doc, n, q)
  BY DEF Changed
<1> HIDE DEF q
<1>3. doc'[Sections[n]] = q /\ \A j \in 1..6 : j # n => doc'[Sections[j]] = doc[Sections[j]]
  <2>1. n \in 1..6 /\ IsDoc(doc)
    BY <1>1
  <2> HIDE DEF n
  <2> QED BY ONLY <1>2, <2>1, LengthsAre
<1>4. Len(q) = Len(doc[Sections[n]]) + 1
  <2>1. Sections[n] \in Range(Sections)
    BY <1>1, SectionNames DEF Range
  <2>2. doc[Sections[n]] \in SectionRecords(Sections[n])
    BY <1>1, <2>1 DEF IsDoc
  <2>3. doc[Sections[n]] \in Seq(IkRecords) \/ doc[Sections[n]] \in Seq(KeysOf(Sections[n]))
    BY <2>2 DEF SectionRecords
  <2> DEFINE d == doc[Sections[n]]
  <2>4. q = Append(d, k)
    BY DEF q
  <2>5. d \in Seq(IkRecords) \/ d \in Seq(KeysOf(Sections[n]))
    BY <2>3
  <2> HIDE DEF d, q
  <2>6. Len(Append(d, k)) = Len(d) + 1
    <3>1. ASSUME NEW S, d \in Seq(S) PROVE Len(Append(d, k)) = Len(d) + 1
      BY <3>1
    <3> QED BY <2>5, <3>1
  <2> QED BY <2>4, <2>6 DEF d
<1>5. Progress'
  <2>1. left <= file.stored[n] /\ \A j \in 1..6 :
          Len(doc[Sections[j]]) = IF j < n THEN file.stored[j] ELSE IF j = n THEN file.stored[n] - left ELSE 0
    <3>1. /\ n > 0 => left <= file.stored[n]
          /\ \A j \in 1..6 : Len(doc[Sections[j]]) = IF j < n THEN file.stored[j]
                                                       ELSE IF j = n THEN file.stored[j] - left ELSE 0
      BY <1>1 DEF Progress
    <3>2. n > 0
      BY <1>1
    <3> HIDE DEF n
    <3> QED BY <3>1, <3>2, Zenon
  <2>2. \A j \in 1..6 : Len(doc'[Sections[j]]) = IF j < n THEN file.stored[j]
                                                 ELSE IF j = n THEN file.stored[n] - (left - 1) ELSE 0
    <3> TAKE j \in 1..6
    <3>1. CASE j = n
      <4>1. Len(doc[Sections[n]]) = file.stored[n] - left
        <5>1. n \in 1..6 /\ ~(n < n)
          BY <1>1
        <5> HIDE DEF n
        <5> QED BY <2>1, <5>1
      <4>2. Len(doc'[Sections[j]]) = file.stored[n] - (left - 1)
        BY SMTT(40), <1>1, <1>3, <1>4, <3>1, <4>1
      <4> QED BY <1>1, <3>1, <4>2
    <3>2. CASE j # n
      BY <1>3, <2>1, <3>2
    <3> QED BY <3>1, <3>2
  <2>3. offset' \in Nat /\ left' \in Nat /\ states' \in Nat
    BY <1>1
  <2>4. left' <= file.stored[n] /\ section' = n /\ file' = file
    BY <1>1, <2>1
  <2>5. \A j \in 1..6 : Len(doc'[Sections[j]]) = IF j < section' THEN file'.stored[j]
                                                 ELSE IF j = section' THEN file'.stored[section'] - left' ELSE 0
    BY <2>2, <2>4
  <2>6. section' \in 0..6 /\ section' # 0
    BY <1>1, <2>4
  <2> QED BY <2>3, <2>4, <2>5, <2>6 DEF Progress
<1>6. AtSection'
  <2>1. /\ offset + Pending(n, left, 0 + Owed(file, m)) = EndOf(file, n)
        /\ EndOf(file, n) <= file.size
    BY <1>1 DEF WholeInv, AtSection
  <2>2. Len(doc'["ik"]) = m
    <3>1. 6 \in 1..6 /\ 6 # n /\ Sections[6] = "ik"
      BY <1>1, SizeTypes
    <3>2. doc'[Sections[6]] = doc[Sections[6]]
      BY <1>3, <3>1
    <3> QED BY <3>1, <3>2
  <2> DEFINE o == Owed(file, m)
             s == 0 + o
  <2>3. s \in Nat
    BY <1>1
  <2> HIDE DEF s
  <2>4. /\ Pending(n, left, s) = SizeOf(n) + Pending(n, left - 1, s)
        /\ Pending(n, left - 1, s) \in Nat
    <3>1. n \in 0..6 /\ n > 0 /\ left \in Nat /\ left > 0 /\ left - 1 \in Nat
      BY <1>1
    <3> HIDE DEF n
    <3> QED BY ONLY <2>3, <3>1, PendingIs
  <2>5. offset' + Pending(n, left - 1, s) = EndOf(file, n)
    <3>1. offset + Pending(n, left, s) = EndOf(file, n)
      BY <2>1 DEF s
    <3> QED BY <1>1, <2>4, <3>1
  <2>6. offset' + Pending(section', left', states' + Owed(file', Len(doc'["ik"]))) = EndOf(file', section')
    <3>1. states' + Owed(file', Len(doc'["ik"])) = s
      BY <2>2 DEF s
    <3> QED BY <2>5, <3>1
  <2>7. section' = n /\ file' = file /\ ~(section' = 6)
    BY <1>1
  <2> QED BY <2>1, <2>6, <2>7 DEF AtSection
<1> QED BY <1>5, <1>6, Goes

LEMMA NamedIs ==
  ASSUME NEW d \in Lists(TextCodes, TextPlaces), NEW bytes, NEW where \in TextPlaces
  PROVE  Named(d, bytes, where) \in Lists(TextCodes, TextPlaces)
<1>1. /\ Added(d, "TEXT_INVALID_CP932", where) \in Lists(TextCodes, TextPlaces)
      /\ Added(d, "TEXT_TRUNCATED_CP932", where) \in Lists(TextCodes, TextPlaces)
  <2>1. "TEXT_INVALID_CP932" \in TextCodes /\ "TEXT_TRUNCATED_CP932" \in TextCodes
    BY DEF TextCodes
  <2> QED BY <2>1, AddedIs
<1> QED BY <1>1 DEF Named

\* The header puts the cursor where the first section may begin.
LEMMA HeaderStep ==
  ASSUME WholeInv, Reading', NEW field, ReadHeader(field)
  PROVE  WholeInv'
<1>1. /\ pc = "header" /\ file.size >= SignatureSize + file.nameSize /\ pc' = "sections"
      /\ offset' = SignatureSize + file.nameSize
      /\ problems' = Named(problems, UpToNul(field), "header")
      /\ file' = file /\ section' = section /\ left' = left /\ states' = states /\ doc' = doc
  BY DEF ReadHeader
<1>2. /\ file \in Files /\ section = 0 /\ left = 0 /\ states = 0 /\ Progress
      /\ Owed(file, Len(doc["ik"])) \in Nat
  BY <1>1, InvFacts DEF Progress
<1>3. problems' \in Lists(TextCodes, TextPlaces)
  <2>1. problems \in Lists(TextCodes, TextPlaces) /\ "header" \in TextPlaces
    BY <1>1 DEF WholeInv, TextPlaces
  <2> QED BY <1>1, <2>1, NamedIs
<1>4. EndOf(file, 0) = SignatureSize + file.nameSize /\ EndOf(file, 0) \in Nat
  <2>1. 0 \in 0..6
    OBVIOUS
  <2> QED BY <1>2, <2>1, Ends
<1>5. Progress'
  <2>1. offset' \in Nat /\ section' = 0 /\ left' = 0 /\ states' = 0
    BY <1>1, <1>2, <1>4
  <2>2. \A n \in 1..6 : Len(doc'[Sections[n]]) = IF n < section' THEN file'.stored[n]
                                                 ELSE IF n = section' THEN file'.stored[n] - left' ELSE 0
    BY <1>1, <1>2 DEF Progress
  <2> QED BY <1>1, <2>1, <2>2 DEF Progress
<1>6. AtSection'
  <2> DEFINE o == states' + Owed(file', Len(doc'["ik"]))
  <2>1. Pending(section', left', o) = 0
    BY <1>1, <1>2 DEF Pending
  <2> HIDE DEF o
  <2>2. offset' + 0 = EndOf(file', section') /\ EndOf(file', section') <= file'.size
    BY <1>1, <1>2, <1>4
  <2>3. offset' + Pending(section', left', o) = EndOf(file', section')
    BY <2>1, <2>2
  <2>4. section' # 6
    BY <1>1, <1>2
  <2> QED BY <2>2, <2>3, <2>4 DEF AtSection, o
<1> QED BY <1>1, <1>3, <1>5, <1>6, Goes

\* Between two sections the cursor is where the section ends.
LEMMA BetweenIs ==
  ASSUME WholeInv, Between
  PROVE  /\ pc = "sections" /\ left = 0 /\ states = 0 /\ offset = EndOf(file, section)
         /\ offset <= file.size
         /\ \A n \in 1..6 : Len(doc[Sections[n]]) = IF n <= section THEN file.stored[n] ELSE 0
         /\ section < 6 => doc["ik"] = <<>>
<1>1. pc = "sections" /\ left = 0 /\ states = 0
  BY DEF Between
<1>2. /\ file \in Files /\ IsDoc(doc) /\ Progress /\ section \in 0..6 /\ offset \in Nat /\ file.size \in Nat
      /\ \A n \in 1..6 : file.stored[n] \in Nat
      /\ Len(doc["ik"]) = Len(doc[Sections[6]]) /\ Owed(file, Len(doc["ik"])) \in Nat
  BY InvFacts
<1>3. AtSection
  BY <1>1 DEF WholeInv
<1>4. \A n \in 1..6 : Len(doc[Sections[n]]) = IF n <= section THEN file.stored[n] ELSE 0
  <2>1. \A n \in 1..6 : Len(doc[Sections[n]]) = IF n < section THEN file.stored[n]
                                                ELSE IF n = section THEN file.stored[n] - left ELSE 0
    BY <1>2 DEF Progress
  <2> TAKE n \in 1..6
  <2> DEFINE a == file.stored[n]
  <2>2. a \in Nat
    BY <1>2
  <2>3. Len(doc[Sections[n]]) = IF n < section THEN a ELSE IF n = section THEN a - left ELSE 0
    BY <2>1
  <2> HIDE DEF a
  <2>4. a - left = a
    BY <1>1, <2>2
  <2>5. n < section \/ n = section <=> n <= section
    BY <1>2
  <2>6. Len(doc[Sections[n]]) = IF n <= section THEN a ELSE 0
    BY <2>3, <2>4, <2>5
  <2> QED BY <2>6 DEF a
<1>5. Pending(section, 0, 0 + Owed(file, Len(doc["ik"]))) = 0
  <2>1. CASE section = 6
    <3>1. Len(doc["ik"]) = file.stored[6]
      BY <1>2, <1>4, <2>1
    <3>2. Owed(file, Len(doc["ik"])) = 0
      BY <1>2, <3>1, OwedIs
    <3>3. section \in 0..6 /\ 0 \in Nat
      BY <1>2
    <3>4. Pending(section, 0, 0) = 0
      BY <3>3, PendingIs
    <3> QED BY <3>2, <3>4
  <2>2. CASE section # 6
    <3> DEFINE q == 0 + Owed(file, Len(doc["ik"]))
    <3>1. q \in Nat /\ section \in 0..6 /\ 0 \in Nat /\ section < 6
      BY <1>2, <2>2
    <3> HIDE DEF q
    <3>2. Pending(section, 0, q) = 0
      BY <3>1, PendingIs
    <3> QED BY <3>2 DEF q
  <2> QED BY <2>1, <2>2
<1>6. offset = EndOf(file, section)
  BY <1>1, <1>2, <1>3, <1>5 DEF AtSection
<1>7. offset <= file.size
  <2>1. CASE section = 6
    <3>1. IkStateRecord * 0 = 0
      BY SizeTypes
    <3> QED BY <1>1, <1>2, <1>3, <2>1, <3>1 DEF AtSection
  <2>2. CASE section # 6
    BY <1>2, <1>3, <1>6, <2>2 DEF AtSection
  <2> QED BY <2>1, <2>2
<1>8. section < 6 => doc["ik"] = <<>>
  <2>1. section < 6 => Len(doc["ik"]) = 0
    BY <1>2, <1>4
  <2>2. doc["ik"] \in Seq(IkRecords)
    BY <1>2, SectionNames DEF IsDoc, SectionRecords
  <2> QED BY <2>1, <2>2
<1> QED BY <1>1, <1>4, <1>6, <1>7, <1>8

\* Fatal steps refuse files that end in a section.
LEMMA Refused ==
  ASSUME WholeInv, Reading', NEW code, Fatal(code), offset > 0 => ~WholeFile(file)
  PROVE  WholeInv'
<1>1. pc' = "failed" /\ UNCHANGED <<file, offset, section, left, states, doc, problems, keys>>
  BY DEF Fatal
<1>2. Ended'
  BY <1>1 DEF Ended, WholeFile
<1>3. Progress'
  <2>1. Progress
    BY DEF WholeInv
  <2> QED BY <1>1, <2>1 DEF Progress
<1> QED BY <1>1, <1>2, <1>3 DEF WholeInv

\* What a section takes at least.
LEMMA SectionTakes ==
  ASSUME NEW f \in Files, NEW n \in 0..5
  PROVE  /\ EndOf(f, n) \in Nat /\ EndOf(f, n + 1) \in Nat /\ f.stored[n + 1] \in Nat /\ f.stored[n + 1] * SizeOf(n + 1) \in Nat
         /\ EndOf(f, n) + 4 + f.stored[n + 1] * SizeOf(n + 1) <= EndOf(f, n + 1)
         /\ n < 5 => EndOf(f, n) + 4 + f.stored[n + 1] * SizeOf(n + 1) = EndOf(f, n + 1)
<1>1. n \in 0..6 /\ n + 1 \in 1..6 /\ n + 1 \in 0..6 /\ (n + 1) - 1 = n
  OBVIOUS
<1>2. EndOf(f, n) \in Nat /\ EndOf(f, n + 1) \in Nat
  BY <1>1, Ends
<1>3. f.stored[n + 1] \in Nat /\ f.stored[n + 1] * SizeOf(n + 1) \in Nat
  BY <1>1, FileIs, BytesAre
<1> DEFINE p == f.stored[n + 1] * SizeOf(n + 1)
<1>4. n < 5 => EndOf(f, n + 1) = EndOf(f, n) + 4 + p
  <2>1. n < 5 => n + 1 \in 1..5
    OBVIOUS
  <2> QED BY <1>1, <2>1, Ends
<1>5. n = 5 => EndOf(f, n + 1) = EndOf(f, n) + 4 + p + IkStateRecord * Total(f.states)
  BY Ends, SizeTypes
<1> DEFINE q == IkStateRecord * Total(f.states)
<1>6. p \in Nat /\ q \in Nat
  BY <1>3, BytesAre
<1>7. n < 5 => EndOf(f, n + 1) = EndOf(f, n) + 4 + p
  BY <1>4
<1>8. n = 5 => EndOf(f, n + 1) = EndOf(f, n) + 4 + p + q
  BY <1>5
<1> HIDE DEF p, q
<1>9. EndOf(f, n) + 4 + p <= EndOf(f, n + 1) /\ (n < 5 => EndOf(f, n) + 4 + p = EndOf(f, n + 1))
  <2>1. n < 5 \/ n = 5
    OBVIOUS
  <2> QED BY <1>2, <1>6, <1>7, <1>8, <2>1
<1> QED BY <1>2, <1>3, <1>9 DEF p

\* A section begins when its count and its smallest records are in the file.
LEMMA BeginStep ==
  ASSUME WholeInv, Reading', BeginSection
  PROVE  WholeInv'
<1> DEFINE n == section + 1
           count == file.stored[n]
           size == SizeOf(n)
           p == count * size
<1>1. Between /\ remaining > 0 /\ section < Len(Sections)
  BY DEF BeginSection
<1>2. /\ pc = "sections" /\ left = 0 /\ states = 0 /\ offset = EndOf(file, section) /\ offset <= file.size
      /\ section < 6 => doc["ik"] = <<>>
      /\ \A j \in 1..6 : Len(doc[Sections[j]]) = IF j <= section THEN file.stored[j] ELSE 0
  BY <1>1, BetweenIs
<1>3. file \in Files /\ Progress /\ offset \in Nat /\ file.size \in Nat /\ section \in 0..5
  BY <1>1, InvFacts, SectionNames
<1>4. n \in 1..6 /\ n \in 0..6 /\ n - 1 = section /\ section \in 0..6
  BY <1>3
<1>5. /\ count \in Nat /\ p \in Nat /\ EndOf(file, n) \in Nat
      /\ offset + 4 + p <= EndOf(file, n) /\ (section < 5 => offset + 4 + p = EndOf(file, n))
  BY <1>2, <1>3, SectionTakes
<1>6. RecordSize(Sections[n]) = size
  BY DEF SizeOf
<1>7. offset < file.size
  BY <1>1, <1>3 DEF remaining
<1>8. \/ remaining < 4 /\ Truncated
      \/ p > file.size - offset - 4 /\ Fatal("MOTION_COUNT_EXCEEDS_BUFFER")
      \/ /\ p <= file.size - offset - 4
         /\ offset' = offset + 4 /\ section' = n /\ left' = count
         /\ UNCHANGED <<pc, file, states, doc, problems, result, keys>>
  <2>1. \/ remaining < 4 /\ Truncated
        \/ ~Fits(count, RecordSize(Sections[n]), offset) /\ Fatal("MOTION_COUNT_EXCEEDS_BUFFER")
        \/ /\ Fits(count, RecordSize(Sections[n]), offset)
           /\ offset' = offset + 4 /\ section' = n /\ left' = count
           /\ UNCHANGED <<pc, file, states, doc, problems, result, keys>>
    BY DEF BeginSection
  <2>2. Fits(count, RecordSize(Sections[n]), offset) <=> p <= file.size - offset - 4
    BY <1>6 DEF Fits
  <2> HIDE DEF n, count, p
  <2>3. ~(p <= file.size - offset - 4) => p > file.size - offset - 4
    BY <1>3, <1>5
  <2> QED BY <2>1, <2>2, <2>3
<1> HIDE DEF p
<1>9. ASSUME remaining < 4 \/ p > file.size - offset - 4 PROVE ~WholeFile(file)
  <2>1. EndOf(file, section) < file.size /\ file.size < EndOf(file, section + 1)
    <3>1. file.size < EndOf(file, n)
      <4> HIDE DEF n, count
      <4> QED BY <1>3, <1>5, <1>9 DEF remaining
    <3> QED BY <1>2, <1>7, <3>1
  <2> QED BY <1>3, <2>1, EndsInside
<1>10. CASE remaining < 4 /\ Truncated
  BY <1>9, <1>10, Refused DEF Truncated
<1>11. CASE p > file.size - offset - 4 /\ Fatal("MOTION_COUNT_EXCEEDS_BUFFER")
  BY <1>9, <1>11, Refused
<1>12. CASE /\ p <= file.size - offset - 4
            /\ offset' = offset + 4 /\ section' = n /\ left' = count
            /\ UNCHANGED <<pc, file, states, doc, problems, result, keys>>
  <2>1. /\ p <= file.size - offset - 4 /\ offset' = offset + 4 /\ section' = n /\ left' = count
        /\ pc' = pc /\ file' = file /\ states' = states /\ doc' = doc /\ problems' = problems
    BY <1>12
  <2>2. Progress'
    <3>1. \A j \in 1..6 : Len(doc'[Sections[j]]) = IF j < n THEN file.stored[j]
                                                   ELSE IF j = n THEN file.stored[j] - count ELSE 0
      <4> TAKE j \in 1..6
      <4>1. Len(doc[Sections[j]]) = IF j <= section THEN file.stored[j] ELSE 0
        BY <1>2
      <4>2. j < n <=> j <= section
        BY <1>3
      <4>3. count - count = 0
        BY <1>5
      <4>4. j = n => file.stored[j] - count = 0
        BY <4>3
      <4>5. j = n => ~(j <= section)
        BY <1>3
      <4> HIDE DEF n, count
      <4> QED BY <2>1, <4>1, <4>2, <4>4, <4>5
    <3>2. /\ section' \in 0..6 /\ section' # 0 /\ left' \in Nat /\ states' = 0 /\ offset' \in Nat
      <4>1. offset' \in Nat
        <5> HIDE DEF n, count
        <5> QED BY <1>3, <2>1
      <4>2. section' \in 0..6 /\ section' # 0
        <5> HIDE DEF count
        <5> QED BY <1>4, <2>1
      <4> HIDE DEF n, count
      <4> QED BY <1>2, <1>5, <2>1, <4>1, <4>2
    <3>3. left' <= file'.stored[section']
      BY <1>5, <2>1
    <3>4. \A j \in 1..6 : Len(doc'[Sections[j]]) = IF j < section' THEN file'.stored[j]
                                                   ELSE IF j = section' THEN file'.stored[j] - left' ELSE 0
      BY <2>1, <3>1
    <3>5. pc' = "sections"
      BY <1>2, <2>1
    <3> QED BY <3>2, <3>3, <3>4, <3>5 DEF Progress
  <2>3. Owed(file, Len(doc["ik"])) = Total(file.states) /\ Total(file.states) \in Nat
    <3>1. Len(doc["ik"]) = 0
      BY <1>2, <1>3
    <3> QED BY <1>3, <3>1, OwedIs, FileIs, TotalType
  <2> DEFINE T == Total(file.states)
             q == states' + Owed(file', Len(doc'["ik"]))
  <2>4. q = T
    <3>1. Owed(file', Len(doc'["ik"])) = T
      BY <2>1, <2>3
    <3> QED BY <1>2, <2>1, <2>3, <3>1
  <2>5. offset + 4 + Pending(n, count, T) = EndOf(file, n)
    <3>1. CASE section < 5
      <4>1. Pending(n, count, T) = p + 0
        BY <1>3, <3>1 DEF Pending, p
      <4> HIDE DEF n, count
      <4> QED BY <1>3, <1>5, <3>1, <4>1
    <3>2. CASE section = 5
      <4> DEFINE r == file.stored[6] * 9
                 s == IkStateRecord * T
      <4>1. n = 6 /\ Pending(n, count, T) = r + s
        BY <3>2, SizeTypes DEF Pending
      <4>2. EndOf(file, 6) = EndOf(file, 5) + 4 + r + s /\ r \in Nat /\ s \in Nat
        BY <1>3, Ends, BytesAre
      <4> HIDE DEF r, s, n, count
      <4>3. offset = EndOf(file, 5)
        BY <1>2, <3>2
      <4> QED BY <1>3, <4>1, <4>2, <4>3
    <3> QED BY <1>3, <3>1, <3>2
  <2>6. section' < 6 => EndOf(file, n) <= file.size
    <3>1. section' < 6 => section < 5
      BY <1>3, <2>1
    <3> HIDE DEF n, count
    <3> QED BY <1>3, <1>5, <2>1, <3>1
  <2>7. section' = 6 => EndOf(file, 5) + 4 <= file.size /\ offset + 4 + IkStateRecord * 0 <= file.size
    <3>1. IkStateRecord * 0 = 0
      BY SizeTypes
    <3>2. section' = 6 => section = 5
      BY <1>3, <2>1
    <3>3. offset + 4 <= file.size
      <4> HIDE DEF n, count
      <4> QED BY <1>3, <1>5, <2>1
    <3> QED BY <1>2, <1>3, <3>1, <3>2, <3>3
  <2>8. AtSection'
    <3>1. offset' + Pending(section', left', q) = EndOf(file', section')
      <4> HIDE DEF q, T, n, count
      <4> QED BY <2>1, <2>4, <2>5
    <3>2. section' < 6 => EndOf(file', section') <= file'.size
      BY <2>1, <2>6
    <3>3. section' = 6 => EndOf(file', 5) + 4 <= file'.size /\ offset' + IkStateRecord * states' <= file'.size
      BY <1>2, <2>1, <2>7
    <3> QED BY <3>1, <3>2, <3>3 DEF AtSection
  <2>9. pc' = "sections" /\ problems' \in Lists(TextCodes, TextPlaces)
    BY <1>2, <2>1 DEF WholeInv
  <2> QED BY <2>2, <2>8, <2>9, Goes
<1> QED BY <1>8, <1>10, <1>11, <1>12

\* In the last section the cursor leaves room for what the file promises.
LEMMA InIk ==
  ASSUME WholeInv, pc = "sections", section = 6
  PROVE  /\ file \in Files /\ IsDoc(doc) /\ Progress /\ Len(doc["ik"]) = Len(doc[Sections[6]])
         /\ offset \in Nat /\ left \in Nat /\ states \in Nat /\ file.size \in Nat /\ file.stored[6] \in Nat
         /\ left <= file.stored[6] /\ Len(doc["ik"]) = file.stored[6] - left
         /\ Owed(file, Len(doc["ik"])) \in Nat
         /\ offset + Pending(6, left, states + Owed(file, Len(doc["ik"]))) = EndOf(file, 6)
         /\ EndOf(file, 5) + 4 <= file.size /\ EndOf(file, 5) \in Nat /\ EndOf(file, 6) \in Nat
         /\ offset + IkStateRecord * states <= file.size
<1>1. /\ file \in Files /\ IsDoc(doc) /\ Progress /\ Len(doc["ik"]) = Len(doc[Sections[6]])
      /\ offset \in Nat /\ left \in Nat /\ states \in Nat /\ file.size \in Nat /\ file.stored[6] \in Nat
      /\ Owed(file, Len(doc["ik"])) \in Nat
  BY InvFacts
<1>2. left <= file.stored[6] /\ Len(doc[Sections[6]]) = file.stored[6] - left
  <2>1. /\ Len(doc[Sections[6]]) = IF 6 < section THEN file.stored[6]
                                   ELSE IF 6 = section THEN file.stored[6] - left ELSE 0
        /\ section > 0 => left <= file.stored[section]
    BY <1>1 DEF Progress
  <2> QED BY <2>1
<1>3. /\ offset + Pending(6, left, states + Owed(file, Len(doc["ik"]))) = EndOf(file, 6)
      /\ EndOf(file, 5) + 4 <= file.size
      /\ offset + IkStateRecord * states <= file.size
  BY DEF WholeInv, AtSection
<1>4. EndOf(file, 5) \in Nat /\ EndOf(file, 6) \in Nat
  <2>1. 5 \in 0..6 /\ 6 \in 0..6
    OBVIOUS
  <2> QED BY <1>1, <2>1, Ends
<1> QED BY <1>1, <1>2, <1>3, <1>4

\* The last section's other sections are as they were.
LEMMA IkLengths ==
  ASSUME WholeInv, section = 6, NEW q, doc' = Changed(doc, 6, q), UNCHANGED <<file, section>>,
         left' \in Nat, states' \in Nat, offset' \in Nat, pc' = "sections",
         left' <= file.stored[6], Len(q) = file.stored[6] - left'
  PROVE  Progress' /\ doc'["ik"] = q
<1>1. IsDoc(doc) /\ Progress /\ Sections[6] = "ik" /\ 6 \in 1..6
  BY InvFacts, SizeTypes
<1>2. doc'[Sections[6]] = q /\ \A j \in 1..6 : j # 6 => doc'[Sections[j]] = doc[Sections[j]]
  BY <1>1, LengthsAre
<1>3. \A j \in 1..6 : Len(doc[Sections[j]]) = IF j < section THEN file.stored[j]
                                              ELSE IF j = section THEN file.stored[j] - left ELSE 0
  BY <1>1 DEF Progress
<1>4. \A j \in 1..6 : Len(doc'[Sections[j]]) = IF j < section' THEN file'.stored[j]
                                               ELSE IF j = section' THEN file'.stored[j] - left' ELSE 0
  <2> TAKE j \in 1..6
  <2>1. CASE j = 6
    BY <1>2, <2>1
  <2>2. CASE j # 6
    <3>1. j < section /\ j < section'
      BY <2>2
    <3> QED BY <1>2, <1>3, <2>2, <3>1
  <2> QED BY <2>1, <2>2
<1> QED BY <1>1, <1>2, <1>4 DEF Progress

\* An IK record is read up to its states when those are in the file too.
LEMMA IkStep ==
  ASSUME WholeInv, Reading', NEW frame \in Frames, ReadIk(frame)
  PROVE  WholeInv'
<1> DEFINE m == Len(doc["ik"])
           count == file.states[m + 1]
           S == IkStateRecord
           r == [key |-> Key("visibility", <<>>, frame), states |-> <<>>]
           q == Append(doc["ik"], r)
           p == count * S
           o == Owed(file, m + 1)
<1>1. pc = "sections" /\ left > 0 /\ states = 0 /\ Sections[section] = "ik"
  BY DEF ReadIk, Reads, Here
<1>2. section = 6
  <2>1. section \in 0..6 /\ (section = 0 => left = 0)
    BY InvFacts DEF Progress
  <2>2. section \in 1..6 /\ 6 \in 1..6 /\ Sections[6] = "ik"
    BY <1>1, <2>1, SizeTypes
  <2> QED BY <1>1, <2>2, SectionsDiffer
<1>3. /\ file \in Files /\ IsDoc(doc) /\ offset \in Nat /\ left \in Nat /\ file.size \in Nat /\ file.stored[6] \in Nat
      /\ left <= file.stored[6] /\ m = file.stored[6] - left /\ Owed(file, m) \in Nat
      /\ offset + Pending(6, left, states + Owed(file, m)) = EndOf(file, 6)
      /\ EndOf(file, 5) + 4 <= file.size /\ EndOf(file, 5) \in Nat /\ EndOf(file, 6) \in Nat
  BY <1>1, <1>2, InIk
<1>4. count \in Nat /\ o \in Nat /\ Owed(file, m) = count + o
  <2>1. m \in 0..(file.stored[6] - 1)
    <3> DEFINE w == file.stored[6]
    <3>1. left > 0 /\ left \in Nat /\ w \in Nat /\ left <= w /\ m = w - left
      BY <1>1, <1>3
    <3> HIDE DEF m, w
    <3>2. m \in 0..(w - 1)
      BY ONLY <3>1
    <3> QED BY <3>2 DEF w
  <2> HIDE DEF m
  <2> QED BY <1>3, <2>1, OwedIs
<1>5. S \in Nat /\ S >= 1 /\ IkRecordMinimum = 9 /\ SizeOf(6) = 9 /\ p \in Nat /\ p = S * count
  <2>1. S \in Nat /\ S >= 1 /\ IkRecordMinimum = 9 /\ SizeOf(6) = 9
    BY SizeTypes
  <2> HIDE DEF count, S
  <2>2. p \in Nat /\ p = S * count
    BY <1>4, <2>1
  <2> QED BY <2>1, <2>2
<1>6. /\ Pending(6, left, count + o) = 9 + Pending(6, left - 1, count + o)
      /\ Pending(6, left - 1, count + o) \in Nat
      /\ Pending(6, left - 1, count + o) >= p
  <2> DEFINE t == count + o
  <2>1. t \in Nat /\ left - 1 \in Nat /\ 6 \in 0..6
    BY <1>1, <1>3, <1>4
  <2>2. S * t = S * count + S * o /\ S * o \in Nat
    <3> HIDE DEF S, o, count
    <3> QED BY <1>4, <1>5, SumTimes
  <2>3. Pending(6, left - 1, t) = (left - 1) * SizeOf(6) + S * t
    BY DEF Pending
  <2>4. (left - 1) * SizeOf(6) \in Nat
    BY <1>5, <2>1
  <2> HIDE DEF t
  <2>5. Pending(6, left, t) = SizeOf(6) + Pending(6, left - 1, t) /\ Pending(6, left - 1, t) \in Nat
    <3>1. left \in Nat /\ left > 0 /\ 6 \in 0..6 /\ 6 > 0
      BY <1>1, <1>3
    <3> QED BY ONLY <2>1, <3>1, PendingIs
  <2> DEFINE a == (left - 1) * SizeOf(6)
             b == S * o
             c == S * t
  <2>6. a \in Nat /\ b \in Nat /\ c = p + b /\ Pending(6, left - 1, t) = a + c
    BY <1>5, <2>2, <2>3, <2>4
  <2> HIDE DEF a, b, c, p
  <2>7. Pending(6, left - 1, t) >= p
    BY SMTT(40), <1>5, <2>6
  <2> QED BY <1>5, <2>5, <2>7 DEF t
<1>7. offset + 9 + Pending(6, left - 1, count + o) = EndOf(file, 6)
  <2> DEFINE u == Pending(6, left - 1, count + o)
  <2>1. states + Owed(file, m) = count + o
    BY <1>1, <1>3, <1>4
  <2>2. offset + (9 + u) = EndOf(file, 6)
    BY <1>3, <1>6, <2>1
  <2>3. u \in Nat
    BY <1>6
  <2> HIDE DEF u
  <2>4. offset + 9 + u = EndOf(file, 6)
    BY <1>3, <2>2, <2>3
  <2> QED BY <2>4 DEF u
<1>8. \/ remaining < 9 /\ Truncated
      \/ p > file.size - (offset + 5) - 4 /\ Fatal("MOTION_COUNT_EXCEEDS_BUFFER")
      \/ /\ p <= file.size - (offset + 5) - 4
         /\ offset' = offset + 5 + 4 /\ left' = left - 1 /\ states' = count
         /\ doc' = [doc EXCEPT !["ik"] = Append(@, r)]
         /\ UNCHANGED <<pc, file, section, problems>>
  <2>1. \/ remaining < IkRecordMinimum /\ Truncated
        \/ ~Fits(count, S, offset + 5) /\ Fatal("MOTION_COUNT_EXCEEDS_BUFFER")
        \/ /\ Fits(count, S, offset + 5)
           /\ offset' = offset + 5 + 4 /\ left' = left - 1 /\ states' = count
           /\ doc' = [doc EXCEPT !["ik"] = Append(@, r)]
           /\ UNCHANGED <<pc, file, section, problems>>
    BY DEF ReadIk
  <2>2. Fits(count, S, offset + 5) <=> p <= file.size - (offset + 5) - 4
    BY DEF Fits
  <2> HIDE DEF count, p, S, r
  <2>3. ~(p <= file.size - (offset + 5) - 4) => p > file.size - (offset + 5) - 4
    BY SMTT(40), <1>3, <1>5
  <2> QED BY <1>5, <2>1, <2>2, <2>3
<1>9. ASSUME remaining < 9 \/ p > file.size - (offset + 5) - 4 PROVE ~WholeFile(file)
  <2> DEFINE u == Pending(6, left - 1, count + o)
  <2>1. u \in Nat /\ u >= p /\ offset + 9 + u = EndOf(file, 6)
    BY <1>6, <1>7
  <2> HIDE DEF u, p
  <2>2. EndOf(file, 5) < file.size
    BY <1>3
  <2>3. file.size < EndOf(file, 5 + 1)
    <3> DEFINE z == file.size
               e == EndOf(file, 6)
    <3>1. z \in Nat /\ e \in Nat /\ offset \in Nat /\ p \in Nat /\ offset + 9 + u = e
      BY <1>3, <1>5, <2>1
    <3>2. z - offset < 9 \/ p > z - (offset + 5) - 4
      BY <1>9 DEF remaining
    <3> HIDE DEF z, e
    <3>3. z < e
      BY ONLY <2>1, <3>1, <3>2
    <3> QED BY <3>3 DEF z, e
  <2>4. 5 \in 0..5
    OBVIOUS
  <2> QED BY <1>3, <2>2, <2>3, <2>4, EndsInside
<1>10. CASE remaining < 9 /\ Truncated
  BY <1>9, <1>10, Refused DEF Truncated
<1>11. CASE p > file.size - (offset + 5) - 4 /\ Fatal("MOTION_COUNT_EXCEEDS_BUFFER")
  BY <1>9, <1>11, Refused
<1>12. CASE /\ p <= file.size - (offset + 5) - 4
            /\ offset' = offset + 5 + 4 /\ left' = left - 1 /\ states' = count
            /\ doc' = [doc EXCEPT !["ik"] = Append(@, r)]
            /\ UNCHANGED <<pc, file, section, problems>>
  <2>1. /\ p <= file.size - (offset + 5) - 4 /\ offset' = offset + 5 + 4 /\ left' = left - 1 /\ states' = count
        /\ pc' = pc /\ file' = file /\ section' = section /\ problems' = problems
    BY <1>12
  <2>2. doc' = Changed(doc, 6, q)
    BY <1>12, SizeTypes DEF Changed
  <2>3. Len(q) = m + 1
    <3>1. doc["ik"] \in Seq(IkRecords)
      BY <1>3, SectionNames DEF IsDoc, SectionRecords
    <3> DEFINE d == doc["ik"]
    <3> HIDE DEF d, r
    <3>2. d \in Seq(IkRecords)
      BY <3>1 DEF d
    <3>3. Len(Append(d, r)) = Len(d) + 1
      BY <3>2
    <3> QED BY <3>3 DEF d
  <2> HIDE DEF q, count, p, S, r
  <2>4. /\ left' \in Nat /\ states' \in Nat /\ offset' \in Nat /\ pc' = "sections" /\ section' = 6
        /\ left' <= file.stored[6] /\ Len(q) = file.stored[6] - left'
    <3> DEFINE w == file.stored[6]
    <3>1. /\ left > 0 /\ left \in Nat /\ w \in Nat /\ left <= w /\ m = w - left /\ offset \in Nat
          /\ left' = left - 1 /\ offset' = offset + 5 + 4 /\ Len(q) = m + 1
      BY <1>1, <1>3, <2>1, <2>3
    <3> HIDE DEF w, m
    <3>2. left' \in Nat /\ offset' \in Nat /\ left' <= w /\ Len(q) = w - left'
      BY ONLY <3>1
    <3>3. states' \in Nat /\ pc' = "sections" /\ section' = 6
      BY <1>1, <1>2, <1>4, <2>1
    <3> QED BY <3>2, <3>3 DEF w
  <2>5. Progress' /\ doc'["ik"] = q
    BY <1>2, <2>1, <2>2, <2>4, IkLengths
  <2>6. states' + Owed(file', Len(doc'["ik"])) = count + o
    BY <1>4, <2>1, <2>3, <2>5
  <2>7. offset' = offset + 9
    BY <1>3, <2>1
  <2>8. offset' + Pending(section', left', states' + Owed(file', Len(doc'["ik"]))) = EndOf(file', section')
    <3> HIDE DEF o, m
    <3> QED BY <1>7, <2>1, <2>4, <2>6, <2>7
  <2>9. offset' + S * states' <= file'.size
    <3> DEFINE z == file.size
    <3>1. p = S * count /\ p \in Nat /\ z \in Nat /\ offset \in Nat /\ p <= z - (offset + 5) - 4
      BY <1>3, <1>5, <2>1
    <3> HIDE DEF z
    <3>2. offset + 9 + p <= z
      BY ONLY <3>1
    <3>3. S * states' = p
      BY <2>1, <3>1
    <3>4. file'.size = z
      BY <2>1 DEF z
    <3> QED BY <2>7, <3>2, <3>3, <3>4
  <2>10. AtSection'
    <3>1. ~(section' < 6) /\ EndOf(file', 5) + 4 <= file'.size
      BY <1>3, <2>1, <2>4
    <3> QED BY <2>8, <2>9, <3>1 DEF AtSection, S
  <2>11. problems' \in Lists(TextCodes, TextPlaces)
    BY <1>1, <2>1 DEF WholeInv
  <2> QED BY <2>4, <2>5, <2>10, <2>11, Goes
<1> QED BY <1>8, <1>10, <1>11, <1>12

\* A state leaves one state less to read.
LEMMA StateStep ==
  ASSUME WholeInv, Reading', NEW field, ReadIkState(field)
  PROVE  WholeInv'
<1> DEFINE m == Len(doc["ik"])
           k == Key("ik", UpToNul(field), Last(doc.ik).key.frame)
           q == [doc["ik"] EXCEPT ![m].states = Append(@, k)]
           S == IkStateRecord
           o == Owed(file, m)
           w == file.stored[6]
           z == file.size
<1>1. /\ pc = "sections" /\ states > 0 /\ doc' = [doc EXCEPT !["ik"][m].states = Append(@, k)]
      /\ problems' = Named(problems, k.name, "ik")
      /\ offset' = offset + S /\ states' = states - 1
      /\ pc' = pc /\ file' = file /\ section' = section /\ left' = left
  BY DEF ReadIkState
<1>2. section = 6
  <2>1. section \in 0..6 /\ (section < 6 => states = 0)
    BY InvFacts DEF Progress
  <2> QED BY <1>1, <2>1
<1>3. /\ file \in Files /\ IsDoc(doc) /\ offset \in Nat /\ left \in Nat /\ states \in Nat /\ z \in Nat /\ w \in Nat
      /\ left <= w /\ m = w - left /\ o \in Nat
      /\ offset + Pending(6, left, states + o) = EndOf(file, 6)
      /\ EndOf(file, 5) + 4 <= z /\ offset + S * states <= z /\ EndOf(file, 6) \in Nat
  BY <1>1, <1>2, InIk
<1>4. S \in Nat /\ S >= 1 /\ Sections[6] = "ik"
  BY SizeTypes
<1>5. problems' \in Lists(TextCodes, TextPlaces)
  <2>1. problems \in Lists(TextCodes, TextPlaces) /\ "ik" \in TextPlaces
    BY <1>1 DEF WholeInv, TextPlaces
  <2> HIDE DEF k
  <2> QED BY <1>1, <2>1, NamedIs
<1>6. doc' = Changed(doc, 6, q)
  BY <1>1, <1>4 DEF Changed
<1>7. Len(q) = m
  <2>1. doc["ik"] \in Seq(IkRecords)
    BY <1>3, SectionNames DEF IsDoc, SectionRecords
  <2> DEFINE d == doc["ik"]
             x == Append(d[m].states, k)
  <2>2. d \in Seq(IkRecords) /\ q = [d EXCEPT ![m].states = x]
    BY <2>1
  <2> HIDE DEF d, x, q
  <2>3. DOMAIN q = DOMAIN d /\ DOMAIN d = 1..Len(d) /\ Len(d) \in Nat
    BY <2>2
  <2>4. q = [i \in 1..Len(d) |-> q[i]]
    BY <2>2, <2>3
  <2>5. Len(q) = Len(d)
    BY <2>3, <2>4
  <2> QED BY <2>5 DEF d
<1>8. /\ S * states = S + S * (states - 1) /\ S * (states - 1) \in Nat
      /\ Pending(6, left, states + o) = S + Pending(6, left, states - 1 + o)
      /\ Pending(6, left, states - 1 + o) \in Nat /\ states - 1 \in Nat
  <2>0. states - 1 \in Nat
    BY <1>1, <1>3
  <2>1. S * states = S + S * (states - 1) /\ S * (states - 1) \in Nat
    <3> HIDE DEF S
    <3>1. states * S = S + (states - 1) * S /\ (states - 1) * S \in Nat
      BY <1>1, <1>3, <1>4, LessOne
    <3>2. states * S = S * states /\ (states - 1) * S = S * (states - 1)
      BY <1>3, <1>4, <2>0
    <3> QED BY <3>1, <3>2
  <2> DEFINE t == states + o
  <2>2. t \in Nat /\ t > 0 /\ t - 1 = states - 1 + o /\ t - 1 \in Nat
    <3> HIDE DEF o
    <3>1. states > 0 /\ states \in Nat /\ o \in Nat
      BY <1>1, <1>3
    <3> QED BY ONLY <3>1
  <2>3. left \in Nat /\ 6 \in 0..6
    BY <1>3
  <2> HIDE DEF t
  <2>4. Pending(6, left, t) = S + Pending(6, left, t - 1)
    BY ONLY <2>2, <2>3, PendingIs
  <2>5. Pending(6, left, t - 1) \in Nat
    <3> DEFINE u == t - 1
    <3>1. u \in Nat
      BY <2>2
    <3> HIDE DEF u
    <3>2. Pending(6, left, u) \in Nat
      BY ONLY <2>3, <3>1, PendingIs
    <3> QED BY <3>2 DEF u
  <2> QED BY <2>0, <2>1, <2>2, <2>4, <2>5 DEF t
<1> HIDE DEF m, k, q, S, o, w, z
<1>9. /\ left' \in Nat /\ states' \in Nat /\ offset' \in Nat /\ pc' = "sections" /\ section' = 6
      /\ left' <= w /\ Len(q) = w - left'
  <2>1. left' \in Nat /\ states' \in Nat /\ pc' = "sections" /\ section' = 6 /\ left' <= w /\ Len(q) = w - left'
    BY <1>1, <1>2, <1>3, <1>7, <1>8
  <2>2. offset \in Nat /\ S \in Nat /\ offset' = offset + S
    BY <1>1, <1>3, <1>4
  <2>3. offset' \in Nat
    BY ONLY <2>2
  <2> QED BY <2>1, <2>3
<1>10. Progress' /\ doc'["ik"] = q
  BY <1>1, <1>2, <1>6, <1>9, IkLengths DEF w
<1>11. states' + Owed(file', Len(doc'["ik"])) = states - 1 + o
  BY <1>1, <1>7, <1>10 DEF o
<1>12. offset' + Pending(section', left', states' + Owed(file', Len(doc'["ik"]))) = EndOf(file', section')
  <2> DEFINE u == Pending(6, left, states - 1 + o)
  <2>1. u \in Nat /\ offset + (S + u) = EndOf(file, 6)
    BY <1>3, <1>8
  <2>2. Pending(section', left', states' + Owed(file', Len(doc'["ik"]))) = u
    BY <1>1, <1>9, <1>11
  <2> HIDE DEF u
  <2>3. (offset + S) + u = EndOf(file, 6)
    BY <1>3, <1>4, <2>1
  <2> QED BY <1>1, <1>9, <2>2, <2>3
<1>13. offset' + S * states' <= file'.size
  <2> DEFINE v == S * (states - 1)
  <2>1. v \in Nat /\ offset + (S + v) <= z /\ S * states' = v
    BY <1>1, <1>3, <1>8
  <2> HIDE DEF v
  <2>2. (offset + S) + v <= z
    BY <1>3, <1>4, <2>1
  <2> QED BY <1>1, <2>1, <2>2 DEF z
<1>14. AtSection'
  <2>1. ~(section' < 6) /\ EndOf(file', 5) + 4 <= file'.size
    BY <1>1, <1>3, <1>9 DEF z
  <2> QED BY <1>12, <1>13, <2>1 DEF AtSection, S
<1> QED BY <1>5, <1>9, <1>10, <1>14, Goes

\* Reading a name or a stage record is a step of its section.
LEMMA SectionStep ==
  ASSUME WholeInv, Reading', NEW s \in {"bones", "morphs", "cameras", "lights", "shadows"}, Reads(s),
         NEW k, doc' = [doc EXCEPT ![s] = Append(@, k)],
         offset' = offset + RecordSize(s), left' = left - 1, UNCHANGED <<pc, file, section, states>>,
         problems' \in Lists(TextCodes, TextPlaces)
  PROVE  WholeInv'
<1>1. pc = "sections" /\ left > 0 /\ states = 0 /\ Sections[section] = s
  BY DEF Reads, Here
<1>2. section \in 1..5
  <2>1. section \in 0..6 /\ (section = 0 => left = 0)
    BY InvFacts DEF Progress
  <2>2. s # "ik" /\ Sections[6] = "ik"
    BY SizeTypes
  <2> QED BY <1>1, <2>1, <2>2
<1>3. SizeOf(section) = RecordSize(s)
  BY <1>1 DEF SizeOf
<1>4. doc' = [doc EXCEPT ![Sections[section]] = Append(@, k)]
  BY <1>1
<1>5. offset' = offset + SizeOf(section) /\ states' = 0 /\ pc' = "sections"
  BY <1>1, <1>3
<1> QED BY <1>1, <1>2, <1>4, <1>5, RecordStep

LEMMA NamedStep ==
  ASSUME WholeInv, Reading', NEW s \in {"bones", "morphs"}, NEW field, NEW frame, ReadNamed(s, field, frame)
  PROVE  WholeInv'
<1> DEFINE k == Key(s, UpToNul(field), frame)
<1>1. /\ Reads(s) /\ doc' = [doc EXCEPT ![s] = Append(@, k)] /\ problems' = Named(problems, k.name, s)
      /\ offset' = offset + RecordSize(s) /\ left' = left - 1 /\ UNCHANGED <<pc, file, section, states>>
  BY DEF ReadNamed
<1> HIDE DEF k
<1>2. problems' \in Lists(TextCodes, TextPlaces)
  <2>1. problems \in Lists(TextCodes, TextPlaces) /\ s \in TextPlaces
    BY <1>1 DEF WholeInv, TextPlaces, Reads
  <2> QED BY <1>1, <2>1, NamedIs
<1>3. s \in {"bones", "morphs", "cameras", "lights", "shadows"}
  OBVIOUS
<1> QED BY <1>1, <1>2, <1>3, SectionStep

LEMMA StageStep ==
  ASSUME WholeInv, Reading', NEW s \in {"cameras", "lights", "shadows"}, NEW frame, ReadStage(s, frame)
  PROVE  WholeInv'
<1> DEFINE k == Key(s, <<>>, frame)
<1>1. /\ Reads(s) /\ doc' = [doc EXCEPT ![s] = Append(@, k)] /\ problems' = problems
      /\ offset' = offset + RecordSize(s) /\ left' = left - 1 /\ UNCHANGED <<pc, file, section, states>>
  BY DEF ReadStage
<1> HIDE DEF k
<1>2. problems' \in Lists(TextCodes, TextPlaces)
  BY <1>1 DEF WholeInv, Reads
<1>3. s \in {"bones", "morphs", "cameras", "lights", "shadows"}
  OBVIOUS
<1> QED BY <1>1, <1>2, <1>3, SectionStep

\* The file ends where a section does, or after the last one.
LEMMA SucceedStep ==
  ASSUME WholeInv, Reading', Succeed
  PROVE  WholeInv'
<1>1. /\ Between /\ (remaining = 0 \/ section = 6) /\ pc' = "done"
      /\ problems' = IF remaining > 0 THEN Added(problems, "MOTION_TRAILING_BYTES", "") ELSE problems
      /\ result' = [fatal |-> None, list |-> Taken(problems')]
      /\ UNCHANGED <<file, offset, section, left, states, doc, keys>>
  BY SectionNames DEF Succeed
<1>2. /\ pc = "sections" /\ left = 0 /\ states = 0 /\ offset = EndOf(file, section) /\ offset <= file.size
      /\ \A n \in 1..6 : Len(doc[Sections[n]]) = IF n <= section THEN file.stored[n] ELSE 0
  BY <1>1, BetweenIs
<1>3. Progress /\ offset \in Nat /\ file.size \in Nat /\ section \in 0..6
  BY InvFacts
<1>4. problems \in Lists(TextCodes, TextPlaces)
  BY <1>2 DEF WholeInv
<1>5. WholeFile(file)
  <2>1. CASE remaining = 0
    <3>1. file.size = EndOf(file, section)
      BY <1>2, <1>3, <2>1 DEF remaining
    <3> QED BY <1>3, <3>1 DEF WholeFile
  <2>2. CASE remaining # 0 /\ section = 6
    <3>1. file.size > EndOf(file, 6)
      BY <1>2, <1>3, <2>2 DEF remaining
    <3> QED BY <3>1 DEF WholeFile
  <2> QED BY <1>1, <2>1, <2>2
<1>6. offset < file.size <=> \E i \in DOMAIN result'.list : result'.list[i].code = "MOTION_TRAILING_BYTES"
  <2>0. result'.list = Taken(problems')
    <3>1. result' = [fatal |-> None, list |-> Taken(problems')]
      BY <1>1
    <3> QED BY ONLY <3>1
  <2>1. "MOTION_TRAILING_BYTES" \notin TextCodes
    BY DEF TextCodes
  <2>2. CASE offset < file.size
    <3>0. remaining > 0
      BY <1>3, <2>2 DEF remaining
    <3>1. problems' = Added(problems, "MOTION_TRAILING_BYTES", "")
      BY <1>1, <3>0
    <3> DEFINE c == "MOTION_TRAILING_BYTES"
    <3>2. c \notin TextCodes /\ problems' = Added(problems, c, "")
      BY <2>1, <3>1
    <3> HIDE DEF c
    <3>3. \E i \in DOMAIN Taken(Added(problems, c, "")) : Taken(Added(problems, c, ""))[i].code = c
      <4>1. Listed(Taken(Added(problems, c, "")), c)
        BY <1>4, <3>2, AddedOnce
      <4> QED BY <4>1 DEF Listed
    <3>4. \E i \in DOMAIN result'.list : result'.list[i].code = c
      BY <2>0, <3>2, <3>3
    <3> QED BY <2>2, <3>4 DEF c
  <2>3. CASE ~(offset < file.size)
    <3>0. ~(remaining > 0)
      BY <1>3, <2>3 DEF remaining
    <3>1. problems' = problems
      BY <1>1, <3>0
    <3>2. \A i \in DOMAIN Taken(problems) : Taken(problems)[i].code \in TextCodes
      BY <1>4, TakenIs
    <3> QED BY <2>0, <2>1, <2>3, <3>1, <3>2
  <2> QED BY <2>2, <2>3
<1>7. Ended'
  <2>1. WholeFile(file')
    BY <1>1, <1>5
  <2>2. offset' = EndOf(file', section')
    BY <1>1, <1>2
  <2>3. \A n \in 1..6 : Len(doc'[Sections[n]]) = IF n <= section' THEN file'.stored[n] ELSE 0
    BY <1>1, <1>2
  <2>4. offset' < file'.size <=> \E i \in DOMAIN result'.list : result'.list[i].code = "MOTION_TRAILING_BYTES"
    BY <1>1, <1>6
  <2>5. pc' # "failed"
    BY <1>1
  <2> QED BY <2>1, <2>2, <2>3, <2>4, <2>5 DEF Ended
<1>8. Progress'
  BY <1>1, <1>3 DEF Progress
<1> QED BY <1>1, <1>7, <1>8 DEF WholeInv

\* Each step keeps the invariant.
LEMMA WholeStep ==
  ASSUME WholeInv, [Next]_vars
  PROVE  WholeInv'
<1>1. Reading'
  BY StepShape DEF WholeInv
<1>2. ASSUME UNCHANGED vars PROVE WholeInv'
  BY <1>1, <1>2 DEF WholeInv, Progress, Ended, AtSection, vars
<1>3. ASSUME Unreadable \/ RefuseHeader PROVE WholeInv'
  <2>1. pc = "header" /\ \E code \in {"MOTION_FILE_UNREADABLE", "MOTION_BAD_SIGNATURE", "MOTION_TRUNCATED_BUFFER"} : Fatal(code)
    BY <1>3 DEF Unreadable, RefuseHeader, Truncated
  <2>2. offset = 0
    BY <2>1, InvFacts DEF Progress
  <2> QED BY <1>1, <2>1, <2>2, Refused
<1>4. ASSUME NEW field \in Fields(file.nameSize), ReadHeader(field) PROVE WholeInv'
  BY <1>1, <1>4, HeaderStep
<1>5. ASSUME BeginSection PROVE WholeInv'
  BY <1>1, <1>5, BeginStep
<1>6. ASSUME NEW s \in {"bones", "morphs"}, NEW field \in Fields(BoneName), NEW frame \in Frames,
             ReadNamed(s, field, frame)
      PROVE  WholeInv'
  BY <1>1, <1>6, NamedStep
<1>7. ASSUME NEW s \in {"cameras", "lights", "shadows"}, NEW frame \in Frames, ReadStage(s, frame)
      PROVE  WholeInv'
  BY <1>1, <1>7, StageStep
<1>8. ASSUME NEW frame \in Frames, ReadIk(frame) PROVE WholeInv'
  BY <1>1, <1>8, IkStep
<1>9. ASSUME NEW field \in Fields(IkName), ReadIkState(field) PROVE WholeInv'
  BY <1>1, <1>9, StateStep
<1>10. ASSUME Succeed PROVE WholeInv'
  BY <1>1, <1>10, SucceedStep
<1> QED BY <1>2, <1>3, <1>4, <1>5, <1>6, <1>7, <1>8, <1>9, <1>10 DEF Next

LEMMA WholeInit == Init => WholeInv
<1> SUFFICES ASSUME Init PROVE WholeInv
  OBVIOUS
<1>1. /\ pc = "header" /\ offset = 0 /\ section = 0 /\ left = 0 /\ states = 0
      /\ doc = [s \in Range(Sections) |-> <<>>] /\ problems = NoDiagnostics
  BY DEF Init
<1>2. Reading
  BY ReadingInit
<1>3. problems \in Lists(TextCodes, TextPlaces)
  <2>1. /\ <<>> \in Seq(Tallies(TextCodes, TextPlaces)) /\ <<>> \in Seq(Notes(TextCodes, TextPlaces))
        /\ problems = [tallies |-> <<>>, list |-> <<>>]
    BY <1>1 DEF NoDiagnostics
  <2> QED BY <2>1, ListOfFields
<1>4. Progress
  <2>1. \A n \in 1..6 : Len(doc[Sections[n]]) = 0
    <3>1. \A n \in 1..6 : Sections[n] \in Range(Sections)
      BY SectionNames DEF Range
    <3> QED BY <1>1, <3>1
  <2> QED BY <1>1, <2>1 DEF Progress
<1>5. Ended
  BY <1>1 DEF Ended
<1> QED BY <1>1, <1>2, <1>3, <1>4, <1>5 DEF WholeInv

\* A motion is read when its file ends between two sections or after the last
\* one, and only then; and every record that its counts promise is in the
\* document.
THEOREM WholeSections == ImportSpec => []OnlyWholeSectionsAreRead
<1>1. ImportInit => WholeInv
  BY WholeInit DEF ImportInit
<1>2. WholeInv /\ [ImportNext]_<<vars, store>> => WholeInv'
  <2> SUFFICES ASSUME WholeInv, [ImportNext]_<<vars, store>> PROVE WholeInv'
    OBVIOUS
  <2>1. [Next]_vars
    BY DEF ImportNext
  <2> QED BY <2>1, WholeStep
<1>3. WholeInv => OnlyWholeSectionsAreRead
  BY EndedIs DEF WholeInv
<1> QED BY <1>1, <1>2, <1>3, PTL DEF ImportSpec

-----------------------------------------------------------------------------
(* Samples of keys that ascend *)

LEMMA GreatestElement ==
  ASSUME NEW S \in SUBSET Int, IsFiniteSet(S), S # {}
  PROVE  \E x \in S : \A y \in S : y <= x
<1> DEFINE N == {0 - x : x \in S}
<1>1. N \in SUBSET Int /\ N # {}
  <2>1. \A x \in S : 0 - x \in Int /\ 0 - x \in N
    OBVIOUS
  <2>2. PICK x \in S : TRUE
    OBVIOUS
  <2>3. N \subseteq Int
    OBVIOUS
  <2>4. 0 - x \in N
    BY <2>1
  <2> HIDE DEF N
  <2> QED BY <2>3, <2>4
<1>2. IsFiniteSet(N)
  <2>1. [x \in S |-> 0 - x] \in Surjection(S, N)
    BY DEF Surjection
  <2> HIDE DEF N
  <2> QED BY <2>1, FS_Surjection
<1>3. PICK m \in N : \A y \in N : m <= y
  <2> HIDE DEF N
  <2> QED BY <1>1, <1>2, LeastElement
<1>4. PICK x \in S : m = 0 - x
  OBVIOUS
<1>5. ASSUME NEW y \in S PROVE y <= x
  <2>1. m <= 0 - y
    BY <1>3
  <2> QED BY <1>4, <2>1
<1> QED BY <1>5

LEMMA MaxIs ==
  ASSUME NEW S \in SUBSET Int, NEW x \in S, \A y \in S : y <= x
  PROVE  Max(S) = x
<1>1. \A y \in S : x >= y
  OBVIOUS
<1>2. Max(S) \in S /\ \A y \in S : Max(S) >= y
  BY <1>1 DEF Max
<1>3. Max(S) >= x /\ x >= Max(S) /\ Max(S) \in Int /\ x \in Int
  BY <1>1, <1>2
<1> QED BY ONLY <1>3

LEMMA MinIs ==
  ASSUME NEW S \in SUBSET Int, NEW x \in S, \A y \in S : x <= y
  PROVE  Min(S) = x
<1>1. Min(S) \in S /\ \A y \in S : Min(S) =< y
  BY DEF Min
<1>2. Min(S) =< x /\ x =< Min(S) /\ Min(S) \in Int /\ x \in Int
  BY <1>1
<1> QED BY ONLY <1>2

\* What holds of a number and with it of all lower ones holds up to some number.
LEMMA LowerPart ==
  ASSUME NEW n \in Nat, NEW D \in SUBSET (1..n), \A i, k \in 1..n : i < k /\ k \in D => i \in D
  PROVE  Cardinality(D) \in 0..n /\ D = 1..Cardinality(D)
<1>1. \E u \in 0..n : D = 1..u
  <2>1. CASE D = 1..n
    BY <2>1
  <2>2. CASE D # 1..n
    <3> DEFINE C == (1..n) \ D
    <3>1. C \in SUBSET Int /\ C # {}
      <4>1. \E i \in 1..n : i \notin D
        BY <2>2
      <4>2. C \subseteq Int
        OBVIOUS
      <4> QED BY <4>1, <4>2
    <3>2. IsFiniteSet(C)
      <4>1. IsFiniteSet(1..n) /\ C \subseteq 1..n
        BY FS_Interval
      <4> HIDE DEF C
      <4> QED BY <4>1, FS_Subset
    <3>3. PICK c \in C : \A y \in C : c <= y
      <4> HIDE DEF C
      <4> QED BY <3>1, <3>2, LeastElement
    <3>4. c \in 1..n /\ c - 1 \in 0..n
      OBVIOUS
    <3>5. ASSUME NEW i \in 1..(c - 1) PROVE i \in D
      <4>1. i \in 1..n /\ ~(c <= i)
        BY <3>4
      <4> QED BY <3>3, <4>1
    <3>6. ASSUME NEW i \in D PROVE i \in 1..(c - 1)
      <4>1. i \in 1..n /\ c \notin D
        OBVIOUS
      <4>2. ~(c < i)
        BY <3>4, <4>1
      <4>3. i # c
        BY <4>1
      <4> QED BY <3>4, <4>1, <4>2, <4>3
    <3> QED BY <3>4, <3>5, <3>6
  <2> QED BY <2>1, <2>2
<1>2. PICK u \in 0..n : D = 1..u
  BY <1>1
<1>3. u \in Nat
  OBVIOUS
<1>4. Cardinality(1..u) = u
  <2>1. ASSUME NEW m \in Nat PROVE Cardinality(1..m) = m
    BY FS_Interval
  <2> QED BY <1>3, <2>1
<1> QED BY <1>2, <1>4

\* The keys are one per frame, by frame.
Ascending(q) == \A i, k \in 1..Len(q) : i < k => q[i].frame < q[k].frame

LEMMA UpperIs ==
  ASSUME NEW q \in KeyLists, Ascending(q), NEW time \in Int
  PROVE  /\ UpperBound(q, time) \in 0..Len(q)
         /\ \A i \in 1..Len(q) : 2 * q[i].frame <= time <=> i <= UpperBound(q, time)
<1> DEFINE n == Len(q)
           D == {i \in DOMAIN q : ~After(q[i], time)}
<1>1. n \in Nat /\ DOMAIN q = 1..n /\ \A i \in 1..n : q[i].frame \in Nat
  BY KeysOfList
<1>2. \A i \in 1..n : i \in D <=> 2 * q[i].frame <= time
  <2> TAKE i \in 1..n
  <2>1. q[i].frame \in Nat
    BY <1>1
  <2> QED BY <1>1, <2>1 DEF After
<1>3. UpperBound(q, time) = Cardinality(D)
  BY DEF UpperBound
<1>4. D \in SUBSET (1..n)
  BY <1>1
<1> HIDE DEF D, n
<1>5. ASSUME NEW i \in 1..n, NEW k \in 1..n, i < k, k \in D PROVE i \in D
  <2>1. q[i].frame < q[k].frame /\ 2 * q[k].frame <= time /\ q[i].frame \in Nat /\ q[k].frame \in Nat
    BY <1>1, <1>2, <1>5 DEF Ascending, n
  <2>2. 2 * q[i].frame <= time
    <3> DEFINE a == q[i].frame
               b == q[k].frame
    <3>1. a \in Nat /\ b \in Nat /\ a < b /\ 2 * b <= time
      BY <2>1
    <3> HIDE DEF a, b
    <3>2. 2 * a <= time
      BY <3>1
    <3> QED BY <3>2 DEF a
  <2> QED BY <1>2, <2>2
<1>6. Cardinality(D) \in 0..n /\ D = 1..Cardinality(D)
  BY <1>1, <1>4, <1>5, LowerPart
<1>7. \A i \in 1..n : 2 * q[i].frame <= time <=> i <= Cardinality(D)
  BY <1>2, <1>6
<1> QED BY <1>3, <1>6, <1>7 DEF n

\* Frames up to a time, the nearest one to sample and the one after it.
UpTime(F, time) == {f \in F : 2 * f <= time}
NearOf(F, time) == IF UpTime(F, time) = {} THEN Min(F \ UpTime(F, time)) ELSE Max(UpTime(F, time))
NextOf(F, time) == Min(F \ UpTime(F, time))
FramesOf(q) == {q[i].frame : i \in 1..Len(q)}
\* Nothing is to be blended at this time.
Held(F, time) == UpTime(F, time) = {} \/ F \ UpTime(F, time) = {} \/ time = 2 * NearOf(F, time)

LEMMA FramesAre ==
  ASSUME NEW q \in KeyLists, Ascending(q), q # <<>>, NEW time \in Int
  PROVE  LET u == UpperBound(q, time) IN
         /\ u \in 0..Len(q) /\ Len(q) \in Nat /\ Len(q) >= 1
         /\ u = 0 <=> UpTime(FramesOf(q), time) = {}
         /\ u = Len(q) <=> FramesOf(q) \ UpTime(FramesOf(q), time) = {}
         /\ u > 0 => NearOf(FramesOf(q), time) = q[u].frame
         /\ u = 0 => NearOf(FramesOf(q), time) = q[1].frame
         /\ u < Len(q) => NextOf(FramesOf(q), time) = q[u + 1].frame
<1> DEFINE n == Len(q)
           u == UpperBound(q, time)
           F == FramesOf(q)
           B == UpTime(F, time)
           A == F \ B
<1>1. n \in Nat /\ \A i \in 1..n : q[i].frame \in Nat
  BY KeysOfList
<1>2. n >= 1
  BY <1>1 DEF KeyLists
<1>3. u \in 0..n /\ \A i \in 1..n : 2 * q[i].frame <= time <=> i <= u
  BY UpperIs
<1>4. \A i, k \in 1..n : i < k => q[i].frame < q[k].frame
  BY DEF Ascending
<1>5. \A f : f \in F <=> \E i \in 1..n : f = q[i].frame
  BY DEF FramesOf
<1> HIDE DEF u, n, F
<1>6. \A f : f \in B <=> f \in F /\ 2 * f <= time
  BY DEF UpTime
<1> HIDE DEF B
<1>7. \A i \in 1..n : q[i].frame \in F /\ (q[i].frame \in B <=> i <= u) /\ (q[i].frame \in A <=> i > u)
  <2> TAKE i \in 1..n
  <2>1. q[i].frame \in F
    BY <1>5
  <2>2. q[i].frame \in B <=> i <= u
    BY <1>3, <1>6, <2>1
  <2>3. i > u <=> ~(i <= u)
    BY <1>3
  <2> QED BY <2>1, <2>2, <2>3
<1>8. B \in SUBSET Int /\ A \in SUBSET Int
  BY <1>1, <1>5, <1>6
<1>9. \A i, k \in 1..n : i <= k => q[i].frame <= q[k].frame
  <2> TAKE i, k \in 1..n
  <2>1. CASE i = k
    BY <1>1, <2>1
  <2>2. CASE i # k
    <3>1. i <= k => i < k
      BY <2>2
    <3> QED BY <1>1, <1>4, <3>1
  <2> QED BY <2>1, <2>2
<1>10. \A f \in B : \E i \in 1..n : i <= u /\ f = q[i].frame
  BY <1>5, <1>6, <1>7
<1>11. \A f \in A : \E i \in 1..n : i > u /\ f = q[i].frame
  BY <1>5, <1>7
<1>12. ASSUME u > 0 PROVE B # {} /\ Max(B) = q[u].frame
  <2>1. u \in 1..n
    BY <1>3, <1>12
  <2>2. q[u].frame \in B
    <3>1. u <= u
      BY <1>3
    <3> QED BY <1>7, <2>1, <3>1
  <2>3. \A f \in B : f <= q[u].frame
    BY <1>9, <1>10, <2>1
  <2> DEFINE x == q[u].frame
  <2> HIDE DEF x
  <2>4. Max(B) = x
    BY <1>8, <2>2, <2>3, MaxIs DEF x
  <2> QED BY <2>2, <2>4 DEF x
<1>13. ASSUME u = 0 PROVE B = {}
  BY <1>3, <1>10, <1>13
<1>14. ASSUME u < n PROVE A # {} /\ Min(A) = q[u + 1].frame
  <2>1. u + 1 \in 1..n /\ u + 1 > u
    BY <1>1, <1>3, <1>14
  <2>2. q[u + 1].frame \in A
    BY <1>7, <2>1
  <2>3. \A f \in A : q[u + 1].frame <= f
    <3> TAKE f \in A
    <3>1. PICK i \in 1..n : i > u /\ f = q[i].frame
      BY <1>11
    <3>2. u + 1 <= i
      BY <1>3, <3>1
    <3> QED BY <1>9, <2>1, <3>1, <3>2
  <2> DEFINE x == q[u + 1].frame
  <2> HIDE DEF x, A
  <2>4. Min(A) = x
    BY <1>8, <2>2, <2>3, MinIs DEF x
  <2> QED BY <2>2, <2>4 DEF x
<1>15. ASSUME u = n PROVE A = {}
  BY <1>3, <1>11, <1>15
<1>16. (u = 0 <=> B = {}) /\ (u = n <=> A = {})
  <2>1. u = 0 \/ u > 0
    BY <1>3
  <2>2. u = n \/ u < n
    BY <1>1, <1>3
  <2> HIDE DEF A
  <2> QED BY <1>12, <1>13, <1>14, <1>15, <2>1, <2>2
<1>17. u > 0 => NearOf(F, time) = q[u].frame
  BY <1>12 DEF NearOf, B
<1>18. u = 0 => NearOf(F, time) = q[1].frame
  <2>1. ASSUME u = 0 PROVE NearOf(F, time) = Min(A)
    BY <1>13, <2>1 DEF NearOf, B
  <2>2. ASSUME u = 0 PROVE u < n /\ u + 1 = 1
    BY <1>1, <1>2, <2>2 DEF n
  <2> HIDE DEF A
  <2> QED BY <1>14, <2>1, <2>2
<1>19. u < n => NextOf(F, time) = q[u + 1].frame
  BY <1>14 DEF NextOf, B
<1> QED BY <1>1, <1>2, <1>3, <1>16, <1>17, <1>18, <1>19 DEF n, u, F, B

LEMMA Blended ==
  ASSUME NEW a \in Int, NEW b \in Int
  PROVE  a * 2 * b = 2 * b * a
OBVIOUS

\* What is sampled of a track, in terms of its frames.
LEMMA SampleIs ==
  ASSUME NEW q \in KeyLists, Ascending(q), q # <<>>, NEW time \in Int, NEW none
  PROVE  LET F == FramesOf(q)
             s == Sample(q, time, none)
         IN \E a, b \in 1..Len(q) :
              /\ q[a].frame = NearOf(F, time) /\ SampleIk(q, time) = q[a].value /\ s.from = q[a].value
              /\ Held(F, time) => s.to = s.from
              /\ ~Held(F, time) =>
                   /\ q[b].frame = NextOf(F, time) /\ s.to = q[b].value
                   /\ s.part * 2 * (NextOf(F, time) - NearOf(F, time))
                        = s.whole * (time - 2 * NearOf(F, time))
<1> DEFINE n == Len(q)
           u == UpperBound(q, time)
           F == FramesOf(q)
           s == Sample(q, time, none)
           a == IF u = 0 THEN 1 ELSE u
           near == NearOf(F, time)
           next == NextOf(F, time)
           Goal(x, y) ==
              /\ q[x].frame = near /\ SampleIk(q, time) = q[x].value /\ s.from = q[x].value
              /\ Held(F, time) => s.to = s.from
              /\ ~Held(F, time) =>
                   /\ q[y].frame = next /\ s.to = q[y].value
                   /\ s.part * 2 * (next - near) = s.whole * (time - 2 * near)
<1>1. /\ u \in 0..n /\ n \in Nat /\ n >= 1
      /\ u = 0 <=> UpTime(F, time) = {}
      /\ u = n <=> F \ UpTime(F, time) = {}
      /\ u > 0 => near = q[u].frame
      /\ u = 0 => near = q[1].frame
      /\ u < n => next = q[u + 1].frame
  BY FramesAre
<1>2. SampleIk(q, time) = q[a].value
  BY DEF SampleIk, Step
<1>3. s = CASE u = 0 -> AtKey(q[1])
            [] u # 0 /\ u > 0 /\ (u = n \/ time = 2 * q[u].frame) -> AtKey(q[u])
            [] OTHER -> [from |-> q[u].value, to |-> q[u + 1].value,
                         part |-> time - 2 * q[u].frame, whole |-> 2 * (q[u + 1].frame - q[u].frame)]
  <2>1. u # 0 <=> u > 0
    BY <1>1
  <2> QED BY <2>1 DEF Sample
<1>4. Held(F, time) <=> u = 0 \/ u = n \/ time = 2 * near
  BY <1>1 DEF Held
<1> HIDE DEF u, n, F, s, near, next
<1>5. a \in 1..n /\ q[a].frame = near /\ near \in Nat
  <2>1. a \in 1..n /\ q[a].frame = near
    BY <1>1
  <2>2. q[a].frame \in Nat
    BY <2>1, KeysOfList DEF n
  <2> QED BY <2>1, <2>2
<1>6. CASE u = 0 \/ u = n \/ time = 2 * near
  <2>1. s = AtKey(q[a])
    <3>1. CASE u = 0
      BY <1>3, <3>1
    <3>2. CASE u # 0
      <4>1. u > 0 /\ (u = n \/ time = 2 * q[u].frame)
        BY <1>1, <1>6, <3>2
      <4> QED BY <1>3, <3>2, <4>1
    <3> QED BY <3>1, <3>2
  <2>2. s.from = q[a].value /\ s.to = s.from
    BY <2>1 DEF AtKey
  <2>3. Goal(a, a)
    BY <1>2, <1>4, <1>5, <1>6, <2>2
  <2> HIDE DEF Goal, a
  <2>4. \E x, y \in 1..n : Goal(x, y)
    BY <1>5, <2>3
  <2> QED BY <2>4 DEF Goal, F, s, n, near, next
<1>7. CASE ~(u = 0 \/ u = n \/ time = 2 * near)
  <2> DEFINE b == u + 1
             p == time - 2 * near
             w == next - near
  <2>1. u > 0 /\ u < n /\ b \in 1..n /\ near = q[u].frame /\ next = q[b].frame /\ a = u
    BY <1>1, <1>7
  <2>2. s = [from |-> q[a].value, to |-> q[b].value, part |-> p, whole |-> 2 * w]
    BY <1>3, <1>7, <2>1
  <2>3. next \in Nat
    BY <2>1, KeysOfList DEF n
  <2>4. p \in Int /\ w \in Int
    BY <1>5, <2>3
  <2> HIDE DEF p, w, a, b
  <2>5. s.from = q[a].value /\ s.to = q[b].value /\ s.part = p /\ s.whole = 2 * w
    BY <2>2
  <2>6. p * 2 * w = 2 * w * p
    BY ONLY <2>4, Blended
  <2>7. s.part * 2 * w = s.whole * p
    BY <2>5, <2>6
  <2>8. Goal(a, b)
    BY <1>2, <1>4, <1>5, <1>7, <2>1, <2>5, <2>7 DEF p, w
  <2> HIDE DEF Goal
  <2>9. \E x, y \in 1..n : Goal(x, y)
    BY <1>5, <2>1, <2>8 DEF a
  <2> QED BY <2>9 DEF Goal, F, s, n, near, next
<1> QED BY <1>6, <1>7

\* The keys of a list are in the order of their values.
Rises(rs) == \A i, j \in 1..Len(rs) : i < j => rs[i].value < rs[j].value
KeysNamed(rs, n) == {rs[i] : i \in {j \in 1..Len(rs) : rs[j].name = n}}
ValuesAt(K, f) == {k.value : k \in {m \in K : m.frame = f}}

\* The last key of a name and a frame is one that lasts.
LEMMA SomeLasts ==
  ASSUME NEW rs \in KeyLists, NEW i \in 1..Len(rs)
  PROVE  \E j \in Lasting(rs) : rs[j].name = rs[i].name /\ rs[j].frame = rs[i].frame /\ i <= j
<1> DEFINE S == {j \in 1..Len(rs) : rs[j].name = rs[i].name /\ rs[j].frame = rs[i].frame}
<1>1. Len(rs) \in Nat
  BY KeysOfList
<1>2. S \in SUBSET Int /\ IsFiniteSet(S) /\ i \in S
  <2>1. IsFiniteSet(1..Len(rs))
    BY <1>1, FS_Interval
  <2> QED BY <1>1, <2>1, FS_Subset
<1> HIDE DEF S
<1>3. PICK j \in S : \A k \in S : k <= j
  BY <1>2, GreatestElement
<1>4. j \in 1..Len(rs) /\ rs[j].name = rs[i].name /\ rs[j].frame = rs[i].frame
  BY DEF S
<1>5. ASSUME NEW k \in 1..Len(rs), j < k PROVE ~(rs[k].name = rs[j].name /\ rs[k].frame = rs[j].frame)
  <2>1. k \notin S
    BY <1>1, <1>3, <1>4, <1>5
  <2> QED BY <1>4, <2>1 DEF S
<1>6. j \in Lasting(rs)
  BY <1>4, <1>5 DEF Lasting
<1> QED BY <1>2, <1>3, <1>4, <1>6

\* A track has the frames of its name's keys, and at each of them the value of
\* the last one.
LEMMA TrackIs ==
  ASSUME NEW rs \in KeyLists, Rises(rs), NEW n \in NamesIn(rs)
  PROVE  LET q == SortAndDeduplicate(OfName(rs, n))
             K == KeysNamed(rs, n)
         IN /\ q \in KeyLists /\ Ascending(q) /\ q # <<>>
            /\ FramesOf(q) = {k.frame : k \in K}
            /\ \A i \in 1..Len(q) : q[i].value = Max(ValuesAt(K, q[i].frame))
<1> DEFINE o == OfName(rs, n)
           q == SortAndDeduplicate(o)
           K == KeysNamed(rs, n)
           J == {j \in Lasting(rs) : rs[j].name = n}
<1>1. Len(rs) \in Nat /\ \A i \in 1..Len(rs) : rs[i] \in KeySet
  BY KeysOfList
<1>2. o \in KeyLists /\ q \in KeyLists /\ Range(q) = {rs[j] : j \in J}
  BY NamedKeys
<1>3. Ascending(q)
  <2>1. \A i, k \in 1..Len(q) : i < k => q[i].frame < q[k].frame
    <3> HIDE DEF o
    <3> QED BY <1>2, OnePerFrame
  <2> QED BY <2>1 DEF Ascending
<1> HIDE DEF q, o
<1>4. Len(q) \in Nat /\ DOMAIN q = 1..Len(q)
  BY <1>2, KeysOfList
<1>5. \A i \in 1..Len(q) : \E j \in J : q[i] = rs[j]
  <2>1. \A i \in 1..Len(q) : q[i] \in Range(q)
    BY <1>4 DEF Range
  <2> QED BY <1>2, <2>1
<1>6. \A j \in J : \E i \in 1..Len(q) : q[i] = rs[j]
  <2>1. \A j \in J : rs[j] \in Range(q)
    BY <1>2
  <2> HIDE DEF J
  <2> QED BY <1>4, <2>1 DEF Range
<1>7. J \subseteq 1..Len(rs)
  BY DEF Lasting
<1>8. ASSUME NEW i \in 1..Len(rs), rs[i].name = n
      PROVE  \E j \in J : rs[j].frame = rs[i].frame /\ i <= j
  BY <1>8, SomeLasts
<1>9. q # <<>>
  <2>1. PICK i \in 1..Len(rs) : rs[i].name = n
    BY DEF NamesIn
  <2>2. J # {}
    BY <1>8, <2>1
  <2> HIDE DEF J
  <2>3. Len(q) # 0
    BY <1>4, <1>6, <2>2
  <2> QED BY <2>3
<1>10. \A k \in K : \E i \in 1..Len(rs) : k = rs[i] /\ rs[i].name = n
  BY DEF KeysNamed
<1>11. \A j \in J : rs[j] \in K
  BY <1>7 DEF KeysNamed
<1> HIDE DEF K
<1>12. FramesOf(q) = {k.frame : k \in K}
  <2>1. ASSUME NEW i \in 1..Len(q) PROVE \E k \in K : k.frame = q[i].frame
    BY <1>5, <1>11
  <2>2. ASSUME NEW k \in K PROVE \E i \in 1..Len(q) : q[i].frame = k.frame
    <3>1. PICK i \in 1..Len(rs) : k = rs[i] /\ rs[i].name = n
      BY <1>10
    <3>2. PICK j \in J : rs[j].frame = rs[i].frame
      BY <1>8, <3>1
    <3>3. PICK l \in 1..Len(q) : q[l] = rs[j]
      BY <1>6
    <3> QED BY <3>1, <3>2, <3>3
  <2> QED BY <2>1, <2>2 DEF FramesOf
<1>13. ASSUME NEW i \in 1..Len(q) PROVE q[i].value = Max(ValuesAt(K, q[i].frame))
  <2>1. PICK j \in J : q[i] = rs[j]
    BY <1>5
  <2>2. j \in 1..Len(rs) /\ j \in Lasting(rs) /\ rs[j].name = n
    BY <1>7
  <2> DEFINE V == ValuesAt(K, rs[j].frame)
  <2>3. rs[j].value \in V
    BY <1>11 DEF ValuesAt
  <2>4. ASSUME NEW v \in V PROVE v \in Nat /\ v <= rs[j].value
    <3>1. PICK k \in K : k.frame = rs[j].frame /\ v = k.value
      BY DEF ValuesAt
    <3>2. PICK l \in 1..Len(rs) : k = rs[l] /\ rs[l].name = n
      BY <1>10
    <3>3. rs[l].value \in Nat /\ rs[j].value \in Nat
      BY <1>1, <2>2, KeyFields
    <3>4. ~ j < l
      BY <2>2, <3>1, <3>2 DEF Lasting
    <3>5. l = j \/ l < j
      BY <1>1, <2>2, <3>4
    <3>6. rs[l].value <= rs[j].value
      BY <2>2, <3>3, <3>5 DEF Rises
    <3> QED BY <3>1, <3>2, <3>3, <3>6
  <2> HIDE DEF V
  <2>5. Max(V) = rs[j].value
    <3>1. V \in SUBSET Int
      BY <2>4
    <3> QED BY <2>3, <2>4, <3>1, MaxIs
  <2> QED BY <2>1, <2>5 DEF V
<1> QED BY <1>2, <1>3, <1>9, <1>12, <1>13 DEF q, o, K

\* The members of a list, and those of one kind.
Members(rs) == {rs[i] : i \in 1..Len(rs)}
OfKind(ks, kind) == {k \in Members(ks) : k.kind = kind}

\* Keys are numbered in file order, and those of a kind are the document's.
RankedIn(d, ks) ==
  /\ \A i \in 1..Len(ks) : ks[i].value = i
  /\ \A kind \in Kinds : Rises(Records(d, kind)) /\ Members(Records(d, kind)) = OfKind(ks, kind)

LEMMA OneMember ==
  ASSUME NEW S, NEW rs \in Seq(S), NEW k \in S
  PROVE  Members(Append(rs, k)) = Members(rs) \cup {k}
<1> DEFINE q == Append(rs, k)
           n == Len(rs)
<1>1. /\ n \in Nat /\ Len(q) = n + 1 /\ q[n + 1] = k
      /\ \A i \in 1..n : q[i] = rs[i]
  BY OneMore
<1> HIDE DEF q, n
<1>2. 1..(n + 1) = (1..n) \cup {n + 1}
  BY <1>1
<1>3. {q[i] : i \in 1..(n + 1)} = {rs[i] : i \in 1..n} \cup {k}
  BY <1>1, <1>2
<1> QED BY <1>1, <1>3 DEF Members, q, n

LEMMA RankedMore ==
  ASSUME NEW d, IsDoc(d), NEW e, NEW ks \in KeyLists, RankedIn(d, ks),
         NEW kind \in Kinds, NEW k \in KeysOf(kind), OneMoreKey(d, e, kind, k), k.value = Len(ks) + 1
  PROVE  RankedIn(e, Append(ks, k))
<1> DEFINE q == Append(ks, k)
           n == Len(ks)
           rs == Records(d, kind)
           N == Len(rs)
<1>1. k \in KeySet /\ k.kind = kind
  BY DEF KeysOf, IsKey
<1>2. /\ n \in Nat /\ Len(q) = n + 1 /\ q[n + 1] = k /\ \A i \in 1..n : q[i] = ks[i]
  BY <1>1, OneMore, KeysOfList DEF KeyLists
<1>3. Members(q) = Members(ks) \cup {k}
  BY <1>1, OneMember DEF KeyLists
<1>4. /\ \A i \in 1..n : ks[i].value = i
      /\ \A o \in Kinds : Rises(Records(d, o)) /\ Members(Records(d, o)) = OfKind(ks, o)
  BY DEF RankedIn
<1>5. /\ Records(e, kind) = Append(rs, k)
      /\ \A o \in Kinds \ {kind} : Records(e, o) = Records(d, o)
  BY DEF OneMoreKey
<1>6. rs \in Seq(KeysOf(kind))
  BY RecordsAre
<1>7. /\ N \in Nat /\ Len(Append(rs, k)) = N + 1 /\ Append(rs, k)[N + 1] = k
      /\ \A i \in 1..N : Append(rs, k)[i] = rs[i]
  <2> HIDE DEF rs
  <2> QED BY <1>6, OneMore, KeysOfKind
<1>8. Members(Append(rs, k)) = Members(rs) \cup {k}
  <2> HIDE DEF rs
  <2> QED BY <1>6, OneMember
<1> HIDE DEF q, n, rs, N
<1>9. \A i \in 1..(n + 1) : q[i].value = i
  <2> SUFFICES ASSUME NEW i \in 1..(n + 1) PROVE q[i].value = i
    OBVIOUS
  <2>1. CASE i = n + 1
    BY <1>2, <2>1 DEF n
  <2>2. CASE i \in 1..n
    BY <1>2, <1>4, <2>2
  <2> QED BY <1>2, <2>1, <2>2
<1>10. OfKind(q, kind) = OfKind(ks, kind) \cup {k}
  BY <1>1, <1>3 DEF OfKind
<1>11. \A o \in Kinds \ {kind} : OfKind(q, o) = OfKind(ks, o)
  BY <1>1, <1>3 DEF OfKind
<1>12. \A i \in 1..N : rs[i].value \in Nat /\ rs[i].value < k.value
  <2> SUFFICES ASSUME NEW i \in 1..N PROVE rs[i].value \in Nat /\ rs[i].value < k.value
    OBVIOUS
  <2>1. rs[i] \in OfKind(ks, kind)
    <3>1. rs[i] \in Members(rs)
      BY DEF Members, N
    <3> QED BY <1>4, <3>1 DEF rs
  <2>2. PICK j \in 1..n : rs[i] = ks[j]
    BY <2>1 DEF OfKind, Members, n
  <2>3. rs[i].value = j /\ k.value = n + 1
    BY <1>4, <2>2 DEF n
  <2> QED BY <1>2, <2>3
<1>13. Rises(Append(rs, k))
  <2>1. Rises(rs)
    BY <1>4 DEF rs
  <2> SUFFICES ASSUME NEW i \in 1..(N + 1), NEW j \in 1..(N + 1), i < j
               PROVE  Append(rs, k)[i].value < Append(rs, k)[j].value
    BY <1>7 DEF Rises
  <2>2. i \in 1..N
    BY <1>7
  <2>3. CASE j = N + 1
    BY <1>7, <1>12, <2>2, <2>3
  <2>4. CASE j \in 1..N
    BY <1>7, <2>1, <2>2, <2>4 DEF Rises, N
  <2> QED BY <1>7, <2>3, <2>4
<1>14. ASSUME NEW o \in Kinds PROVE Rises(Records(e, o)) /\ Members(Records(e, o)) = OfKind(q, o)
  <2>1. CASE o = kind
    BY <1>4, <1>5, <1>8, <1>10, <1>13, <2>1 DEF rs
  <2>2. CASE o # kind
    BY <1>4, <1>5, <1>11, <2>2
  <2> QED BY <2>1, <2>2
<1> QED BY <1>2, <1>9, <1>14 DEF RankedIn, q

SampleInv == Reading /\ RankedIn(doc, keys)

LEMMA SampleInvHolds == ImportSpec => []SampleInv
<1>1. ImportInit => SampleInv
  <2> SUFFICES ASSUME Init PROVE SampleInv
    BY DEF ImportInit
  <2>1. Reading /\ keys = <<>> /\ doc = [s \in Range(Sections) |-> <<>>]
    BY ReadingInit DEF Init
  <2>2. ASSUME NEW kind \in Kinds PROVE Records(doc, kind) = <<>>
    BY <2>1, NothingRead
  <2>3. Rises(<<>>) /\ Members(<<>>) = {} /\ \A kind : OfKind(<<>>, kind) = {}
    BY DEF Rises, Members, OfKind
  <2>4. \A i \in 1..Len(<<>>) : FALSE
    OBVIOUS
  <2>5. \A kind \in Kinds : Rises(Records(doc, kind)) /\ Members(Records(doc, kind)) = OfKind(keys, kind)
    BY <2>1, <2>2, <2>3
  <2>6. \A i \in 1..Len(keys) : keys[i].value = i
    BY <2>1, <2>4
  <2> QED BY <2>1, <2>5, <2>6 DEF SampleInv, RankedIn
<1>2. SampleInv /\ [ImportNext]_<<vars, store>> => SampleInv'
  <2> SUFFICES ASSUME SampleInv, [ImportNext]_<<vars, store>> PROVE SampleInv'
    OBVIOUS
  <2>1. Reading /\ RankedIn(doc, keys) /\ [Next]_vars
    BY DEF SampleInv, ImportNext, vars
  <2>2. /\ Reading'
        /\ UNCHANGED <<doc, keys>> \/ \E kind \in Kinds : \E k \in KeysOf(kind) : Reads1(kind, k)
    BY <2>1, StepShape
  <2>3. CASE UNCHANGED <<doc, keys>>
    BY <2>1, <2>2, <2>3 DEF SampleInv
  <2>4. ASSUME NEW kind \in Kinds, NEW k \in KeysOf(kind), Reads1(kind, k) PROVE RankedIn(doc', keys')
    <3>1. IsDoc(doc) /\ keys \in KeyLists
      BY <2>1 DEF Reading
    <3>2. OneMoreKey(doc, doc', kind, k) /\ keys' = Append(keys, k) /\ k.value = Len(keys) + 1
      BY <2>4 DEF Reads1
    <3> QED BY <2>1, <3>1, <3>2, RankedMore
  <2> QED BY <2>2, <2>3, <2>4 DEF SampleInv
<1> QED BY <1>1, <1>2, PTL DEF ImportSpec

\* The keys of a bound track's element are those of its name.
LEMMA MineAre ==
  ASSUME NEW kind \in NamedKinds, NEW rs \in Seq(KeysOf(kind)), Members(rs) = OfKind(keys, kind),
         keys \in KeyLists, NEW n \in BindingNames(rs, TableOf(kind), WidthOf(kind))
  PROVE  {k \in Range(keys) : ElementOf(k) = [kind |-> kind,
                                              element |-> {Match(TableOf(kind), WidthOf(kind), n)}]}
           = KeysNamed(rs, n)
<1> DEFINE T == TableOf(kind)
           W == WidthOf(kind)
           x == Match(T, W, n)
           E == [kind |-> kind, element |-> {x}]
           mine == {k \in Range(keys) : ElementOf(k) = E}
<1>1. T \in Tables /\ W \in Nat
  BY TableOfKind
<1>2. x # Unbound
  BY DEF BindingNames
<1>3. Range(keys) = Members(keys)
  BY KeysOfList DEF Range, Members
<1>4. \A i \in 1..Len(rs) : rs[i] \in KeysOf(kind)
  BY KeysOfKind
<1>5. E.kind = kind /\ E.element = {x}
  OBVIOUS
<1> HIDE DEF T, W, E
<1>6. ASSUME NEW k \in mine PROVE k \in KeysNamed(rs, n)
  <2>1. k \in Members(keys) /\ ElementOf(k) = E
    BY <1>3
  <2>2. k.kind = kind
    BY <1>5, <2>1 DEF ElementOf
  <2>3. k \in Members(rs)
    BY <2>1, <2>2 DEF OfKind
  <2>4. PICK i \in 1..Len(rs) : k = rs[i]
    BY <2>3 DEF Members
  <2>5. k \in KeysOf(kind)
    BY <1>4, <2>4
  <2>6. ElementOf(k) = [kind |-> kind, element |-> Meant(T, W, k.name)]
    BY <2>5, ElementIs DEF T, W
  <2>7. Meant(T, W, k.name) = {x}
    BY <1>5, <2>1, <2>6
  <2> HIDE DEF x
  <2>8. Match(T, W, k.name) # Unbound /\ Meant(T, W, k.name) = {Match(T, W, k.name)}
    BY <1>1, <2>7, MatchIs
  <2>9. Match(T, W, k.name) = Match(T, W, n)
    BY <2>7, <2>8 DEF x
  <2>10. k.name = n
    BY <1>1, <2>8, <2>9, MatchesDiffer
  <2> QED BY <2>4, <2>10 DEF KeysNamed
<1>7. ASSUME NEW k \in KeysNamed(rs, n) PROVE k \in mine
  <2>1. PICK i \in 1..Len(rs) : k = rs[i] /\ k.name = n
    BY DEF KeysNamed
  <2>2. k \in KeysOf(kind)
    BY <1>4, <2>1
  <2>3. ElementOf(k) = [kind |-> kind, element |-> Meant(T, W, n)]
    BY <2>1, <2>2, ElementIs DEF T, W
  <2>4. Meant(T, W, n) = {x}
    BY <1>1, <1>2, MatchIs
  <2>5. k \in Range(keys)
    BY <1>3, <2>1 DEF Members, OfKind
  <2> QED BY <2>3, <2>4, <2>5 DEF E
<1> HIDE DEF mine
<1>8. mine = KeysNamed(rs, n)
  <2>1. mine \subseteq KeysNamed(rs, n)
    BY <1>6
  <2>2. KeysNamed(rs, n) \subseteq mine
    BY <1>7
  <2> QED BY <2>1, <2>2
<1> QED BY <1>8 DEF mine, E, T, W, x

\* What a sample of a track of this kind is to be, of the keys of its element.
Follows1(kind, q, K, time) ==
  LET F == {k.frame : k \in K}
      Last1(f) == Max(ValuesAt(K, f))
  IN  IF kind = "ik" THEN SampleIk(q, time) = Last1(NearOf(F, time))
      ELSE LET s == Sample(q, time, None) IN
           /\ s.from = Last1(NearOf(F, time))
           /\ IF Held(F, time) THEN s.to = s.from
              ELSE /\ s.to = Last1(NextOf(F, time))
                   /\ s.part * 2 * (NextOf(F, time) - NearOf(F, time))
                        = s.whole * (time - 2 * NearOf(F, time))

LEMMA SampleFollows ==
  ASSUME NEW rs \in KeyLists, Rises(rs), NEW n \in NamesIn(rs), NEW kind, NEW time \in Int
  PROVE  Follows1(kind, SortAndDeduplicate(OfName(rs, n)), KeysNamed(rs, n), time)
<1> DEFINE q == SortAndDeduplicate(OfName(rs, n))
           K == KeysNamed(rs, n)
           F == {k.frame : k \in K}
           s == Sample(q, time, None)
           near == NearOf(F, time)
           next == NextOf(F, time)
<1>1. /\ q \in KeyLists /\ Ascending(q) /\ q # <<>>
      /\ FramesOf(q) = F
      /\ \A i \in 1..Len(q) : q[i].value = Max(ValuesAt(K, q[i].frame))
  BY TrackIs
<1> HIDE DEF q, K
<1>2. PICK a \in 1..Len(q), b \in 1..Len(q) :
        /\ q[a].frame = NearOf(FramesOf(q), time) /\ SampleIk(q, time) = q[a].value /\ s.from = q[a].value
        /\ Held(FramesOf(q), time) => s.to = s.from
        /\ ~Held(FramesOf(q), time) =>
             /\ q[b].frame = NextOf(FramesOf(q), time) /\ s.to = q[b].value
             /\ s.part * 2 * (NextOf(FramesOf(q), time) - NearOf(FramesOf(q), time))
                  = s.whole * (time - 2 * NearOf(FramesOf(q), time))
  BY <1>1, SampleIs
<1> HIDE DEF F, s
<1>3. q[a].value = Max(ValuesAt(K, near)) /\ SampleIk(q, time) = q[a].value /\ s.from = q[a].value
  BY <1>1, <1>2
<1>4. ASSUME ~Held(F, time)
      PROVE  /\ s.to = Max(ValuesAt(K, next))
             /\ s.part * 2 * (next - near) = s.whole * (time - 2 * near)
  BY <1>1, <1>2, <1>4
<1>5. ASSUME Held(F, time) PROVE s.to = s.from
  BY <1>1, <1>2, <1>5
<1> HIDE DEF near, next
<1>6. IF kind = "ik" THEN SampleIk(q, time) = Max(ValuesAt(K, near))
      ELSE /\ s.from = Max(ValuesAt(K, near))
           /\ IF Held(F, time) THEN s.to = s.from
              ELSE /\ s.to = Max(ValuesAt(K, next))
                   /\ s.part * 2 * (next - near) = s.whole * (time - 2 * near)
  BY <1>3, <1>4, <1>5
<1> QED BY <1>6 DEF Follows1, F, s, near, next, q, K

LEMMA BoundTracksAre ==
  ASSUME NEW kind \in NamedKinds
  PROVE  BoundTracks[kind] = Bound(Sorted(Tracks(Records(doc, kind))), TableOf(kind), WidthOf(kind))
<1>1. /\ motion.bones = Sorted(Tracks(doc.bones)) /\ motion.morphs = Sorted(Tracks(doc.morphs))
      /\ motion.ik = Sorted(Tracks(States(doc.ik)))
  BY BuildIs DEF motion
<1>2. /\ bound.bones = Bound(motion.bones, Bones, BoneField)
      /\ bound.morphs = Bound(motion.morphs, Morphs, BoneField)
      /\ bound.ik = Bound(motion.ik, Bones, IkField)
  BY BindIs DEF bound
<1>3. BoundTracks = [bones |-> bound.bones, morphs |-> bound.morphs, ik |-> bound.ik]
  BY DEF BoundTracks, NamedIn
<1>4. BoundTracks.bones = bound.bones /\ BoundTracks.morphs = bound.morphs /\ BoundTracks.ik = bound.ik
  BY ONLY <1>3
<1>5. CASE kind = "bones"
  BY <1>1, <1>2, <1>4, <1>5 DEF Records, TableOf, WidthOf
<1>6. CASE kind = "morphs"
  BY <1>1, <1>2, <1>4, <1>6 DEF Records, TableOf, WidthOf
<1>7. CASE kind = "ik"
  BY <1>1, <1>2, <1>4, <1>7 DEF Records, TableOf, WidthOf
<1> QED BY <1>5, <1>6, <1>7 DEF NamedKinds

LEMMA SamplesAre == SampleInv => SamplesFollowTheRecords
<1> SUFFICES ASSUME SampleInv PROVE SamplesFollowTheRecords
  OBVIOUS
<1>1. IsDoc(doc) /\ keys \in KeyLists /\ RankedIn(doc, keys)
  BY DEF SampleInv, Reading
<1>2. ASSUME NEW kind \in NamedKinds, NEW t \in Range(BoundTracks[kind]), NEW time \in Times
      PROVE  Follows1(kind, t.keys,
                      {k \in Range(keys) : ElementOf(k) = [kind |-> kind, element |-> {t.element}]}, time)
  <2> DEFINE rs == Records(doc, kind)
             T == TableOf(kind)
             W == WidthOf(kind)
  <2>1. kind \in Kinds
    BY SectionNames DEF NamedKinds
  <2>2. rs \in Seq(KeysOf(kind)) /\ Rises(rs) /\ Members(rs) = OfKind(keys, kind)
    BY <1>1, <2>1, RecordsAre DEF RankedIn
  <2>3. BoundTracks[kind] = Bound(Sorted(Tracks(rs)), T, W)
    BY BoundTracksAre
  <2>4. T \in Tables /\ W \in Nat
    BY TableOfKind
  <2> HIDE DEF rs
  <2>5. rs \in KeyLists
    BY <2>2, KeysOfKind
  <2>6. PICK n \in BindingNames(rs, T, W) : t = BoundTrack(rs, T, W, n)
    <3> HIDE DEF T, W
    <3> QED BY <2>3, <2>4, <2>5, BoundIs
  <2>7. t.element = Match(T, W, n) /\ t.keys = SortAndDeduplicate(OfName(rs, n))
    BY <2>6 DEF BoundTrack
  <2>8. {k \in Range(keys) : ElementOf(k) = [kind |-> kind, element |-> {t.element}]} = KeysNamed(rs, n)
    BY <1>1, <2>2, <2>7, MineAre
  <2>9. time \in Int /\ n \in NamesIn(rs)
    BY <2>6, TimesAssumption DEF BindingNames
  <2>10. Follows1(kind, SortAndDeduplicate(OfName(rs, n)), KeysNamed(rs, n), time)
    BY <2>2, <2>5, <2>9, SampleFollows
  <2> QED BY <2>7, <2>8, <2>10
<1> QED
  BY <1>2 DEF SamplesFollowTheRecords, Follows1, ValuesAt, NearOf, NextOf, Held, UpTime, NamedKinds

\* A bound track is sampled as the records of the file say: the last written
\* values of the nearest frames around the time.
THEOREM SamplesAreTheRecords == ImportSpec => []SamplesFollowTheRecords
BY SampleInvHolds, SamplesAre, PTL

-----------------------------------------------------------------------------
(* What a list of diagnostics speaks of *)

WorthsOf(list, code, where) == [i \in DOMAIN list |-> Worth(list[i], code, where)]

LEMMA WorthIs ==
  ASSUME NEW C, NEW P, NEW list \in Seq(Notes(C, P)), NEW code, NEW where
  PROVE  LET w == WorthsOf(list, code, where) IN
         /\ w \in Seq(Nat) /\ Len(w) = Len(list) /\ Len(list) \in Nat
         /\ \A i \in 1..Len(list) : w[i] = Worth(list[i], code, where)
         /\ CountOf(list, code, where) = Total(w) /\ Total(w) \in Nat
<1> DEFINE w == WorthsOf(list, code, where)
<1>1. Len(list) \in Nat /\ DOMAIN list = 1..Len(list) /\ \A i \in 1..Len(list) : list[i] \in Notes(C, P)
  BY SequenceShape
<1>2. \A x \in Notes(C, P) : Worth(x, code, where) \in Nat
  BY DEF Worth, Notes
<1>3. w \in [1..Len(list) -> Nat] /\ \A i \in 1..Len(list) : w[i] = Worth(list[i], code, where)
  BY <1>1, <1>2 DEF WorthsOf
<1>4. CountOf(list, code, where) = Total(w)
  BY DEF CountOf, WorthsOf
<1> HIDE DEF w
<1>5. w \in Seq(Nat) /\ Len(w) = Len(list)
  BY <1>1, <1>3, ListOf
<1>6. Total(w) \in Nat
  BY <1>5, TotalType
<1> QED BY <1>1, <1>3, <1>4, <1>5, <1>6 DEF w

LEMMA SeqAlike ==
  ASSUME NEW S, NEW a \in Seq(S), NEW b \in Seq(S), Len(a) = Len(b), \A i \in 1..Len(a) : a[i] = b[i]
  PROVE  a = b
BY SeqEqual

\* Lists one after the other speak of what each speaks of.
LEMMA WorthsAdd ==
  ASSUME NEW C, NEW P, NEW a \in Seq(Notes(C, P)), NEW b \in Seq(Notes(C, P)), NEW code, NEW where
  PROVE  /\ a \o b \in Seq(Notes(C, P))
         /\ CountOf(a \o b, code, where) = CountOf(a, code, where) + CountOf(b, code, where)
         /\ CountOf(a, code, where) \in Nat
<1> DEFINE q == a \o b
           u == WorthsOf(a, code, where)
           v == WorthsOf(b, code, where)
           w == WorthsOf(q, code, where)
           z == u \o v
           m == Len(a)
           n == Len(b)
<1>1. /\ q \in Seq(Notes(C, P)) /\ Len(q) = m + n
      /\ \A i \in 1..(m + n) : q[i] = IF i <= m THEN a[i] ELSE b[i - m]
  BY ConcatProperties
<1>2. /\ u \in Seq(Nat) /\ Len(u) = m /\ \A i \in 1..m : u[i] = Worth(a[i], code, where)
      /\ m \in Nat /\ CountOf(a, code, where) = Total(u) /\ Total(u) \in Nat
  BY WorthIs
<1>3. /\ v \in Seq(Nat) /\ Len(v) = n /\ \A i \in 1..n : v[i] = Worth(b[i], code, where)
      /\ n \in Nat /\ CountOf(b, code, where) = Total(v)
  BY WorthIs
<1> HIDE DEF q
<1>4. /\ w \in Seq(Nat) /\ Len(w) = m + n /\ CountOf(q, code, where) = Total(w)
      /\ \A i \in 1..(m + n) : w[i] = Worth(q[i], code, where)
  <2>1. /\ w \in Seq(Nat) /\ Len(w) = Len(q) /\ CountOf(q, code, where) = Total(w)
        /\ \A i \in 1..Len(q) : w[i] = Worth(q[i], code, where)
    <3>1. q \in Seq(Notes(C, P))
      BY <1>1
    <3> QED BY ONLY <3>1, WorthIs
  <2> HIDE DEF w, m, n
  <2> QED BY <1>1, <2>1
<1> HIDE DEF u, v, w, m, n
<1>5. /\ z \in Seq(Nat) /\ Len(z) = m + n
      /\ \A i \in 1..(m + n) : z[i] = IF i <= m THEN u[i] ELSE v[i - m]
  <2>1. /\ z \in Seq(Nat) /\ Len(z) = Len(u) + Len(v)
        /\ \A i \in 1..(Len(u) + Len(v)) : z[i] = IF i <= Len(u) THEN u[i] ELSE v[i - Len(u)]
    BY <1>2, <1>3, ConcatProperties
  <2> HIDE DEF z
  <2> QED BY <1>2, <1>3, <2>1
<1> HIDE DEF z
<1>6. ASSUME NEW i \in 1..(m + n) PROVE w[i] = z[i]
  <2>1. CASE i <= m
    <3>1. i \in 1..m
      BY <1>2, <2>1
    <3> QED BY <1>1, <1>2, <1>4, <1>5, <2>1, <3>1
  <2>2. CASE ~(i <= m)
    <3>1. i - m \in 1..n
      BY <1>2, <1>3, <2>2
    <3> QED BY <1>1, <1>3, <1>4, <1>5, <2>2, <3>1
  <2> QED BY <2>1, <2>2
<1>7. w = z
  BY <1>4, <1>5, <1>6, SeqAlike
<1>8. Total(z) = Total(u) + Total(v)
  BY <1>2, <1>3, TotalConcat DEF z
<1> QED BY <1>1, <1>2, <1>3, <1>4, <1>7, <1>8 DEF q

\* What numbers sum to that are 0 but for one of them, or all.
LEMMA ZeroSum ==
  ASSUME NEW s \in Seq(Nat), NEW j \in 1..(Len(s) + 1), \A i \in 1..Len(s) : i # j => s[i] = 0
  PROVE  Total(s) = IF j <= Len(s) THEN s[j] ELSE 0
<1> DEFINE n == Len(s)
           f == SumTo(s)
           P == {k \in 0..n : f[k] = IF j <= k THEN s[j] ELSE 0}
<1>1. n \in Nat /\ \A i \in 1..n : s[i] \in Nat
  OBVIOUS
<1>2. f[0] = 0 /\ \A k \in 1..n : f[k] = f[k - 1] + s[k]
  BY SumSteps
<1> HIDE DEF f
<1>3. 0..n \subseteq P
  <2>1. 0 \in P
    BY <1>1, <1>2
  <2>2. ASSUME NEW k \in 0..(n - 1), k \in P PROVE k + 1 \in P
    <3>1. k + 1 \in 1..n /\ (k + 1) - 1 = k /\ k + 1 \in 0..n /\ s[k + 1] \in Nat
      BY <1>1
    <3>2. f[k + 1] = f[k] + s[k + 1] /\ f[k] = IF j <= k THEN s[j] ELSE 0
      BY <1>2, <2>2, <3>1
    <3>3. CASE j = k + 1
      BY <3>1, <3>2, <3>3
    <3>4. CASE j # k + 1
      <4>1. s[k + 1] = 0 /\ (j <= k <=> j <= k + 1)
        BY <1>1, <3>1, <3>4
      <4>2. CASE j <= k
        <5>1. j \in 1..n
          BY <1>1, <4>2
        <5> QED BY <1>1, <3>1, <3>2, <4>1, <4>2, <5>1
      <4>3. CASE ~(j <= k)
        BY <3>1, <3>2, <4>1, <4>3
      <4> QED BY <4>2, <4>3
    <3> QED BY <3>3, <3>4
  <2> HIDE DEF P
  <2> QED BY <2>1, <2>2, <1>1, UpTo
<1>4. n \in 0..n
  BY <1>1
<1> QED BY <1>3, <1>4 DEF Total, f

\* After _Find, the code and table have a tally, and the others are as before.
LEMMA FoundIs ==
  ASSUME NEW C, NEW P, NEW d \in Lists(C, P), NEW code \in C, NEW where \in P
  PROVE  LET f == Found(d, code, where) IN
         /\ f.tallies \in Seq(Tallies(C, P)) /\ f.list = d.list
         /\ TallyAt(f, code, where) # {}
         /\ TallyAt(d, code, where) # {} => f = d
         /\ TallyAt(d, code, where) = {} =>
              /\ TallyAt(f, code, where) = {Len(d.tallies) + 1}
              /\ f.tallies[Len(d.tallies) + 1].seen = 0
         /\ \A c, t : <<c, t>> # <<code, where>> =>
              /\ TallyAt(f, c, t) = TallyAt(d, c, t)
              /\ \A k \in TallyAt(d, c, t) : f.tallies[k] = d.tallies[k]
<1> DEFINE f == Found(d, code, where)
           s == d.tallies
           n == Len(s)
           new == [code |-> code, table |-> where, seen |-> 0]
           q == Append(s, new)
           T == Tallies(C, P)
<1>1. /\ s \in Seq(T) /\ n \in Nat /\ DOMAIN s = 1..n /\ \A k \in 1..n : s[k] \in T
  BY ListFields
<1>2. d = [tallies |-> s, list |-> d.list]
  BY DEF Lists
<1>3. new \in T /\ new.code = code /\ new.table = where /\ new.seen = 0
  BY DEF Tallies
<1>4. CASE TallyAt(d, code, where) # {}
  <2>1. f = d
    BY <1>4 DEF Found
  <2> QED BY <1>1, <1>4, <2>1
<1>5. CASE TallyAt(d, code, where) = {}
  <2>1. f = [d EXCEPT !.tallies = q]
    BY <1>5 DEF Found
  <2> HIDE DEF f, new, s, T
  <2>2. q \in Seq(T) /\ Len(q) = n + 1 /\ q[n + 1] = new /\ \A k \in 1..n : q[k] = s[k]
    BY <1>1, <1>3, OneMore
  <2> HIDE DEF q
  <2>3. f.tallies = q /\ f.list = d.list
    <3>1. f = [[tallies |-> s, list |-> d.list] EXCEPT !.tallies = q]
      BY <1>2, <2>1
    <3> QED BY <3>1
  <2>4. DOMAIN q = 1..(n + 1) /\ 1..(n + 1) = 1..n \cup {n + 1} /\ n + 1 \notin 1..n
    BY <1>1, <2>2
  <2>5. \A c, t : TallyAt(f, c, t) = {k \in 1..(n + 1) : q[k].code = c /\ q[k].table = t}
    BY <2>3, <2>4 DEF TallyAt, SameTally
  <2>6. \A c, t : TallyAt(d, c, t) = {k \in 1..n : s[k].code = c /\ s[k].table = t}
    BY <1>1 DEF TallyAt, SameTally, s
  <2>7. ASSUME NEW c, NEW t
        PROVE  TallyAt(f, c, t) = TallyAt(d, c, t) \cup (IF <<c, t>> = <<code, where>> THEN {n + 1} ELSE {})
    <3>1. q[n + 1].code = code /\ q[n + 1].table = where
      BY <1>3, <2>2
    <3>2. TallyAt(f, c, t) = {k \in 1..(n + 1) : q[k].code = c /\ q[k].table = t}
      BY <2>5, Zenon
    <3>3. TallyAt(d, c, t) = {k \in 1..n : s[k].code = c /\ s[k].table = t}
      BY <2>6, Zenon
    <3>4. {k \in 1..(n + 1) : q[k].code = c /\ q[k].table = t}
            = {k \in 1..n : s[k].code = c /\ s[k].table = t}
              \cup (IF <<c, t>> = <<code, where>> THEN {n + 1} ELSE {})
      BY <2>2, <2>4, <3>1
    <3> QED BY <3>2, <3>3, <3>4
  <2>8. TallyAt(f, code, where) = {n + 1} /\ q[n + 1].seen = 0
    BY <1>3, <1>5, <2>2, <2>7
  <2>9. ASSUME NEW c, NEW t, <<c, t>> # <<code, where>>
        PROVE  TallyAt(f, c, t) = TallyAt(d, c, t) /\ \A k \in TallyAt(d, c, t) : f.tallies[k] = d.tallies[k]
    <3>1. TallyAt(f, c, t) = TallyAt(d, c, t) \cup {}
      BY <2>7, <2>9
    <3>2. ASSUME NEW k \in TallyAt(d, c, t) PROVE f.tallies[k] = d.tallies[k]
      <4>1. k \in 1..n
        BY <1>1 DEF TallyAt, s
      <4> QED BY <2>2, <2>3, <4>1 DEF s
    <3> QED BY <3>1, <3>2
  <2>10. /\ f.tallies \in Seq(T) /\ f.list = d.list /\ TallyAt(f, code, where) = {n + 1}
         /\ f.tallies[n + 1].seen = 0
    BY <2>2, <2>3, <2>8
  <2> QED BY <1>5, <2>9, <2>10 DEF s, f, T
<1> QED BY <1>4, <1>5

Listable(n) == IF n < Limit THEN n ELSE Limit

\* The list has had n of this code and table added.
Tells(C, P, d, c, t, n) ==
  /\ d \in Lists(C, P) /\ n \in Nat
  /\ CountOf(d.list, c, t) = Listable(n)
  /\ IF n = 0 THEN TallyAt(d, c, t) = {}
     ELSE \E i \in 1..Len(d.tallies) : TallyAt(d, c, t) = {i} /\ d.tallies[i].seen = n

LEMMA NoneTells == \A C, P, c, t : Tells(C, P, NoDiagnostics, c, t, 0)
<1> TAKE C, P, c, t
<1>1. NoDiagnostics \in Lists(C, P)
  BY DEF NoDiagnostics, Lists
<1>2. NoDiagnostics.list = <<>> /\ NoDiagnostics.tallies = <<>>
  BY DEF NoDiagnostics
<1>3. CountOf(<<>>, c, t) = 0
  <2>1. WorthsOf(<<>>, c, t) = <<>>
    BY DEF WorthsOf
  <2> QED BY <2>1, TotalNone DEF CountOf, WorthsOf
<1>4. Listable(0) = 0
  BY LimitAssumption DEF Listable
<1>5. TallyAt(NoDiagnostics, c, t) = {}
  BY <1>2 DEF TallyAt
<1> QED BY <1>1, <1>2, <1>3, <1>4, <1>5 DEF Tells

LEMMA AddedTells ==
  ASSUME NEW C, NEW P, NEW d, NEW c, NEW t, NEW n, Tells(C, P, d, c, t, n), NEW code \in C, NEW where \in P
  PROVE  Tells(C, P, Added(d, code, where), c, t, IF <<code, where>> = <<c, t>> THEN n + 1 ELSE n)
<1> DEFINE f == Found(d, code, where)
           q == f.tallies
           i == CHOOSE k \in TallyAt(f, code, where) : TRUE
           seen == q[i].seen + 1
           note == Diagnostic(code, where, 0)
           l == IF seen <= Limit THEN Append(f.list, note) ELSE f.list
           u == [q EXCEPT ![i].seen = seen]
           e == Added(d, code, where)
           T == Tallies(C, P)
<1>1. /\ d \in Lists(C, P) /\ n \in Nat /\ CountOf(d.list, c, t) = Listable(n)
      /\ IF n = 0 THEN TallyAt(d, c, t) = {}
         ELSE \E k \in 1..Len(d.tallies) : TallyAt(d, c, t) = {k} /\ d.tallies[k].seen = n
  BY DEF Tells
<1>2. /\ q \in Seq(T) /\ f.list = d.list /\ TallyAt(f, code, where) # {}
      /\ TallyAt(d, code, where) # {} => f = d
      /\ TallyAt(d, code, where) = {} => /\ TallyAt(f, code, where) = {Len(d.tallies) + 1}
                                         /\ q[Len(d.tallies) + 1].seen = 0
      /\ \A x, y : <<x, y>> # <<code, where>> =>
           TallyAt(f, x, y) = TallyAt(d, x, y) /\ \A k \in TallyAt(d, x, y) : q[k] = d.tallies[k]
  BY <1>1, FoundIs
<1>3. e \in Lists(C, P)
  BY <1>1, AddedIs
<1>4. e.tallies = u /\ e.list = l
  BY DEF Added
<1>5. i \in TallyAt(f, code, where)
  BY <1>2
<1> HIDE DEF e, l, u, f, i
<1>6. Len(q) \in Nat /\ DOMAIN q = 1..Len(q) /\ \A k \in 1..Len(q) : q[k] \in T /\ q[k].seen \in Nat
  <2>1. \A x \in T : x.seen \in Nat
    BY DEF Tallies
  <2> HIDE DEF q, T
  <2> QED BY <1>2, <2>1
<1>7. i \in 1..Len(q) /\ q[i].code = code /\ q[i].table = where
  BY <1>5, <1>6 DEF TallyAt, SameTally
<1> HIDE DEF q
<1>8. /\ Len(u) = Len(q) /\ DOMAIN u = 1..Len(q) /\ u[i].seen = seen
      /\ \A k \in 1..Len(q) : u[k].code = q[k].code /\ u[k].table = q[k].table /\ (k # i => u[k] = q[k])
  <2> HIDE DEF seen, T
  <2>1. u \in [1..Len(q) -> {u[k] : k \in 1..Len(q)}] /\ \A k \in 1..Len(q) : u[k] = IF k = i THEN [q[i] EXCEPT !.seen = seen] ELSE q[k]
    BY <1>2, <1>6, <1>7 DEF u
  <2>2. Len(u) = Len(q) /\ DOMAIN u = 1..Len(q)
    BY <1>6, <2>1, ListOf
  <2>3. \A x \in T : /\ [x EXCEPT !.seen = seen].code = x.code /\ [x EXCEPT !.seen = seen].table = x.table
                     /\ [x EXCEPT !.seen = seen].seen = seen
    BY DEF Tallies
  <2> QED BY <1>6, <1>7, <2>1, <2>2, <2>3
<1>9. \A x, y : TallyAt(e, x, y) = TallyAt(f, x, y)
  <2> TAKE x, y
  <2>1. TallyAt(e, x, y) = {k \in 1..Len(q) : u[k].code = x /\ u[k].table = y}
    BY <1>4, <1>8 DEF TallyAt, SameTally
  <2>2. TallyAt(f, x, y) = {k \in 1..Len(q) : q[k].code = x /\ q[k].table = y}
    BY <1>6 DEF TallyAt, SameTally, q
  <2> QED BY <1>8, <2>1, <2>2
<1>10. d.list \in Seq(Notes(C, P)) /\ note \in Notes(C, P)
  <2>1. d.list \in Seq(Notes(C, P))
    BY <1>1, ListFields
  <2>2. note \in Notes(C, P)
    BY DEF Notes, Diagnostic
  <2> QED BY <2>1, <2>2
<1>11. CountOf(Append(d.list, note), c, t) = CountOf(d.list, c, t) + (IF <<code, where>> = <<c, t>> THEN 1 ELSE 0)
  <2>1. Append(d.list, note) = d.list \o <<note>> /\ <<note>> \in Seq(Notes(C, P))
    <3> DEFINE a == d.list
    <3> HIDE DEF a, note
    <3>1. a \in Seq(Notes(C, P)) /\ note \in Notes(C, P)
      BY <1>10 DEF a
    <3>2. Append(a, note) = a \o <<note>> /\ <<note>> \in Seq(Notes(C, P))
      BY ONLY <3>1
    <3> QED BY <3>2 DEF a
  <2>2. Worth(note, c, t) = IF <<code, where>> = <<c, t>> THEN 1 ELSE 0
    BY DEF Worth, Diagnostic
  <2> HIDE DEF note
  <2>3. CountOf(<<note>>, c, t) = Worth(note, c, t)
    <3>1. WorthsOf(<<note>>, c, t) = <<Worth(note, c, t)>>
      BY DEF WorthsOf
    <3>2. Worth(note, c, t) \in Nat
      BY <2>2
    <3>3. CountOf(<<note>>, c, t) = Total(WorthsOf(<<note>>, c, t))
      BY DEF CountOf, WorthsOf
    <3> QED BY <3>1, <3>2, <3>3, TotalOne
  <2> DEFINE one == <<note>>
             a == d.list
  <2>4. one \in Seq(Notes(C, P)) /\ a \in Seq(Notes(C, P))
    BY <1>10, <2>1
  <2>5. Append(a, note) = a \o one /\ CountOf(one, c, t) = IF <<code, where>> = <<c, t>> THEN 1 ELSE 0
    BY <2>1, <2>2, <2>3
  <2> HIDE DEF one, a
  <2>6. CountOf(a \o one, c, t) = CountOf(a, c, t) + CountOf(one, c, t)
    BY <2>4, WorthsAdd
  <2> QED BY <2>5, <2>6 DEF a
<1>12. Len(e.tallies) = Len(q) /\ e.tallies = u
  BY <1>4, <1>8
<1>13. CASE <<code, where>> = <<c, t>>
  <2>1. code = c /\ where = t
    BY <1>13
  <2>2. TallyAt(f, c, t) = {i} /\ q[i].seen = n
    <3>1. CASE n = 0
      BY <1>1, <1>2, <1>5, <2>1, <3>1
    <3>2. CASE n # 0
      <4>1. PICK k \in 1..Len(d.tallies) : TallyAt(d, c, t) = {k} /\ d.tallies[k].seen = n
        BY <1>1, <3>2
      <4>2. f = d
        BY <1>2, <2>1, <4>1
      <4>3. i = k
        BY <1>5, <2>1, <4>1, <4>2
      <4> QED BY <4>1, <4>2, <4>3 DEF q
    <3> QED BY <3>1, <3>2
  <2>3. TallyAt(e, c, t) = {i} /\ u[i].seen = n + 1
    BY <1>8, <1>9, <2>2
  <2>4. CountOf(e.list, c, t) = Listable(n + 1)
    <3>1. CASE n + 1 <= Limit
      <4>1. e.list = Append(d.list, note)
        BY <1>2, <1>4, <2>2, <3>1 DEF l
      <4>2. Listable(n) = n /\ Listable(n + 1) = n + 1
        BY <1>1, <3>1, LimitAssumption DEF Listable
      <4> QED BY <1>1, <1>11, <1>13, <4>1, <4>2
    <3>2. CASE ~(n + 1 <= Limit)
      <4>1. e.list = d.list
        BY <1>2, <1>4, <2>2, <3>2 DEF l
      <4>2. Listable(n) = Limit /\ Listable(n + 1) = Limit
        BY <1>1, <3>2, LimitAssumption DEF Listable
      <4> QED BY <1>1, <4>1, <4>2
    <3> QED BY <3>1, <3>2
  <2>5. n + 1 \in Nat /\ n + 1 # 0
    BY <1>1
  <2>6. i \in 1..Len(e.tallies) /\ e.tallies[i].seen = n + 1
    BY <1>7, <1>12, <2>3
  <2>7. Tells(C, P, e, c, t, n + 1)
    BY <1>3, <2>3, <2>4, <2>5, <2>6 DEF Tells
  <2> QED BY <1>13, <2>7 DEF e
<1>14. CASE <<code, where>> # <<c, t>>
  <2>1. TallyAt(e, c, t) = TallyAt(d, c, t) /\ \A k \in TallyAt(d, c, t) : q[k] = d.tallies[k]
    BY <1>2, <1>9, <1>14
  <2>2. CountOf(e.list, c, t) = Listable(n)
    <3>1. CountOf(d.list, c, t) \in Nat
      BY <1>10, WorthsAdd
    <3>2. CountOf(Append(d.list, note), c, t) = CountOf(d.list, c, t)
      BY <1>11, <1>14, <3>1
    <3>3. e.list = Append(d.list, note) \/ e.list = d.list
      BY <1>2, <1>4 DEF l
    <3> QED BY <1>1, <3>2, <3>3
  <2>3. CASE n = 0
    <3>1. Tells(C, P, e, c, t, n)
      BY <1>1, <1>3, <2>1, <2>2, <2>3 DEF Tells
    <3> QED BY <1>14, <3>1 DEF e
  <2>4. CASE n # 0
    <3>1. PICK k \in 1..Len(d.tallies) : TallyAt(d, c, t) = {k} /\ d.tallies[k].seen = n
      BY <1>1, <2>4
    <3>2. k \in TallyAt(f, c, t) /\ q[k] = d.tallies[k]
      BY <1>2, <1>14, <3>1
    <3>3. k \in 1..Len(q) /\ q[k].code = c /\ q[k].table = t
      BY <1>6, <3>2 DEF TallyAt, SameTally, q
    <3>4. k # i
      BY <1>7, <1>14, <3>3
    <3>5. u[k].seen = n /\ k \in 1..Len(e.tallies)
      BY <1>8, <1>12, <3>1, <3>2, <3>3, <3>4
    <3>6. e.tallies[k].seen = n /\ TallyAt(e, c, t) = {k}
      BY <1>12, <2>1, <3>1, <3>5
    <3>7. Tells(C, P, e, c, t, n)
      BY <1>1, <1>3, <2>2, <2>4, <3>5, <3>6 DEF Tells
    <3> QED BY <1>14, <3>7 DEF e
  <2> QED BY <2>3, <2>4
<1> QED BY <1>13, <1>14

\* What is taken speaks of all that was added.
LEMMA TakenTells ==
  ASSUME NEW C, NEW P, NEW d, NEW c, NEW t, NEW n, Tells(C, P, d, c, t, n)
  PROVE  CountOf(Taken(d), c, t) = n
<1> DEFINE T == Tallies(C, P)
           N == Notes(C, P)
           s == d.tallies
           S == {x \in Range(s) : Over(x)}
           over == Selected(s, S)
           more == [i \in DOMAIN over |-> Summary(over[i])]
           m == Len(over)
           w == WorthsOf(more, c, t)
           l == d.list
<1>1. /\ d \in Lists(C, P) /\ n \in Nat /\ CountOf(l, c, t) = Listable(n)
      /\ IF n = 0 THEN TallyAt(d, c, t) = {}
         ELSE \E i \in 1..Len(s) : TallyAt(d, c, t) = {i} /\ s[i].seen = n
  BY DEF Tells
<1>2. /\ s \in Seq(T) /\ l \in Seq(N) /\ Len(s) \in Nat /\ DOMAIN s = 1..Len(s)
      /\ \A i \in 1..Len(s) : s[i] \in T /\ s[i].seen \in Nat
  BY <1>1, ListFields
<1>3. Taken(d) = l \o more
  BY DEF Taken
<1>4. over \in Seq(T) /\ \E e \in [1..m -> 1..Len(s)] : PlacesOf(s, S, over, e)
  <2> HIDE DEF S, T
  <2> QED BY <1>2, SelectedPlaces
<1>5. PICK e \in [1..m -> 1..Len(s)] :
        /\ \A i, k \in 1..m : i < k => e[i] < e[k]
        /\ \A i \in 1..m : over[i] = s[e[i]] /\ s[e[i]] \in S
        /\ \A k \in 1..Len(s) : s[k] \in S => \E i \in 1..m : e[i] = k
  BY <1>4 DEF PlacesOf
<1>6. m \in Nat /\ DOMAIN over = 1..m /\ \A i \in 1..m : over[i] \in T
  <2> HIDE DEF over, T
  <2> QED BY <1>4
<1>7. \A x \in T : /\ Summary(x) \in N /\ Summary(x).code = x.code /\ Summary(x).table = x.table
                   /\ Summary(x).more = x.seen - Limit /\ x.seen \in Nat
  <2> TAKE x \in T
  <2>1. x.code \in C /\ x.table \in P /\ x.seen \in Nat /\ x.seen - Limit \in Int
    BY LimitAssumption DEF Tallies
  <2> QED BY <2>1 DEF Summary, Diagnostic, Notes
<1>8. \A k \in 1..Len(s) : s[k] \in S <=> s[k].seen > Limit
  <2> TAKE k \in 1..Len(s)
  <2>1. s[k] \in Range(s)
    BY <1>2 DEF Range
  <2> QED BY <2>1 DEF Over
<1> HIDE DEF S, over, s, l, T, N, m
<1>9. more \in Seq(N) /\ Len(more) = m /\ \A i \in 1..m : more[i] = Summary(over[i])
  <2>1. more \in [1..m -> N]
    BY <1>6, <1>7
  <2>2. \A i \in 1..m : more[i] = Summary(over[i])
    BY <1>6
  <2> HIDE DEF more
  <2> QED BY <2>1, <2>2, <1>6, ListOf
<1> HIDE DEF more
<1>10. /\ w \in Seq(Nat) /\ Len(w) = m /\ CountOf(more, c, t) = Total(w)
       /\ \A i \in 1..m : w[i] = Worth(more[i], c, t)
  BY <1>9, WorthIs DEF N
<1> HIDE DEF w
<1>11. CountOf(l \o more, c, t) = CountOf(l, c, t) + Total(w)
  BY <1>2, <1>9, <1>10, WorthsAdd DEF N
<1>12. ASSUME NEW i \in 1..m
       PROVE  /\ e[i] \in 1..Len(s) /\ s[e[i]].seen > Limit
              /\ w[i] = IF s[e[i]].code = c /\ s[e[i]].table = t THEN s[e[i]].seen - Limit ELSE 0
  <2>1. e[i] \in 1..Len(s) /\ s[e[i]] \in T /\ s[e[i]].seen \in Nat /\ s[e[i]].seen > Limit /\ over[i] = s[e[i]]
    BY <1>2, <1>5, <1>8
  <2>2. /\ more[i].code = s[e[i]].code /\ more[i].table = s[e[i]].table
        /\ more[i].more = s[e[i]].seen - Limit /\ more[i].more > 0
    BY <1>7, <1>9, <2>1, LimitAssumption
  <2> QED BY <1>10, <2>1, <2>2 DEF Worth
<1>13. ASSUME NEW i \in 1..m PROVE e[i] \in TallyAt(d, c, t) <=> s[e[i]].code = c /\ s[e[i]].table = t
  BY <1>2, <1>12 DEF TallyAt, SameTally, s
<1>14. CASE n = 0
  <2>1. \A i \in 1..m : w[i] = 0
    BY <1>1, <1>12, <1>13, <1>14
  <2>2. m + 1 \in 1..(Len(w) + 1) /\ ~(m + 1 <= Len(w))
    BY <1>6, <1>10
  <2>3. Total(w) = 0
    BY <1>10, <2>1, <2>2, ZeroSum
  <2> QED BY <1>1, <1>3, <1>11, <1>14, <2>3, LimitAssumption DEF Listable
<1>15. CASE n # 0
  <2>1. PICK a \in 1..Len(s) : TallyAt(d, c, t) = {a} /\ s[a].seen = n
    BY <1>1, <1>15
  <2>2. \A i \in 1..m : e[i] # a => w[i] = 0
    BY <1>12, <1>13, <2>1
  <2>3. CASE n > Limit
    <3>1. PICK j \in 1..m : e[j] = a
      BY <1>5, <1>8, <2>1, <2>3
    <3>2. \A i \in 1..m : i # j => e[i] # a
      <4> TAKE i \in 1..m
      <4>1. i < j \/ j < i \/ i = j
        BY <1>6
      <4>2. e[i] \in Nat /\ e[j] \in Nat
        BY <1>12
      <4> QED BY <1>5, <3>1, <4>1, <4>2
    <3>3. w[j] = n - Limit
      BY <1>12, <1>13, <2>1, <3>1
    <3>4. j \in 1..(Len(w) + 1) /\ j <= Len(w)
      BY <1>6, <1>10
    <3>5. Total(w) = n - Limit
      BY <1>10, <2>2, <3>2, <3>3, <3>4, ZeroSum
    <3> QED BY <1>1, <1>3, <1>11, <2>3, <3>5, LimitAssumption DEF Listable
  <2>4. CASE ~(n > Limit)
    <3>1. \A i \in 1..m : w[i] = 0
      BY <1>12, <2>1, <2>2, <2>4
    <3>2. m + 1 \in 1..(Len(w) + 1) /\ ~(m + 1 <= Len(w))
      BY <1>6, <1>10
    <3>3. Total(w) = 0
      BY <1>10, <3>1, <3>2, ZeroSum
    <3> QED BY <1>1, <1>3, <1>11, <2>4, <3>3, LimitAssumption DEF Listable
  <2> QED BY <2>3, <2>4
<1> QED BY <1>14, <1>15

Reports(C, P) == {Silence} \cup (C \X P)

LEMMA AddedSteps ==
  ASSUME NEW C, NEW P, NEW q \in Seq(Reports(C, P))
  PROVE  /\ AddedUpTo(q) \in [0..Len(q) -> Lists(C, P)]
         /\ AddedUpTo(q)[0] = NoDiagnostics
         /\ \A k \in 1..Len(q) :
              AddedUpTo(q)[k] = IF q[k] = Silence THEN AddedUpTo(q)[k - 1]
                                ELSE Added(AddedUpTo(q)[k - 1], q[k][1], q[k][2])
<1> DEFINE S == Lists(C, P)
           Onto(k, x) == IF q[k] = Silence THEN x ELSE Added(x, q[k][1], q[k][2])
           G == [k \in 1..Len(q) |-> [x \in S |-> Onto(k, x)]]
           Is(f) == f = [k \in 0..Len(q) |-> IF k = 0 THEN NoDiagnostics
                                             ELSE IF q[k] = Silence THEN f[k - 1]
                                             ELSE Added(f[k - 1], q[k][1], q[k][2])]
<1>1. Len(q) \in Nat /\ NoDiagnostics \in S /\ \A k \in 1..Len(q) : q[k] \in Reports(C, P)
  <2>1. NoDiagnostics \in S
    BY DEF NoDiagnostics, Lists
  <2> QED BY <2>1
<1>2. \A k \in 1..Len(q), x \in S : Onto(k, x) \in S
  <2> TAKE k \in 1..Len(q), x \in S
  <2>1. CASE q[k] = Silence
    BY <2>1
  <2>2. CASE q[k] # Silence
    <3>1. q[k] \in C \X P
      BY <1>1, <2>2 DEF Reports
    <3>2. q[k][1] \in C /\ q[k][2] \in P
      BY <3>1
    <3>3. Added(x, q[k][1], q[k][2]) \in S
      BY <3>2, AddedIs
    <3> QED BY <2>2, <3>3
  <2> QED BY <2>1, <2>2
<1> HIDE DEF S
<1>3. G \in StepsOn(S, Len(q))
  <2> HIDE DEF Onto
  <2> QED BY <1>1, <1>2 DEF StepsOn
<1>4. PICK f \in [0..Len(q) -> S] :
        f[0] = NoDiagnostics /\ \A n \in 1..Len(q) : f[n] = G[n][f[n - 1]]
  <2>1. \E h \in RunsOn(S, Len(q)) : Follows(h, NoDiagnostics, G, Len(q))
    <3> HIDE DEF G
    <3> QED BY <1>1, <1>3, Recursion
  <2> HIDE DEF G
  <2> QED BY <2>1 DEF RunsOn, Follows
<1>5. Is(f)
  <2>1. ASSUME NEW n \in 0..Len(q), n # 0 PROVE f[n] = Onto(n, f[n - 1])
    <3>1. n \in 1..Len(q) /\ n - 1 \in 0..Len(q) /\ f[n - 1] \in S
      BY <2>1, <1>1
    <3>2. G[n][f[n - 1]] = Onto(n, f[n - 1])
      <4> HIDE DEF Onto
      <4> QED BY <3>1
    <3> HIDE DEF G, Onto
    <3> QED BY <1>4, <3>1, <3>2
  <2>2. \A n \in 0..Len(q) : f[n] = IF n = 0 THEN NoDiagnostics ELSE IF q[n] = Silence THEN f[n - 1]
                                    ELSE Added(f[n - 1], q[n][1], q[n][2])
    <3> HIDE DEF G
    <3> QED BY <2>1, <1>4
  <2>3. f = [n \in 0..Len(q) |-> f[n]]
    OBVIOUS
  <2> HIDE DEF G
  <2> QED BY <2>2, <2>3
<1>6. AddedUpTo(q) = CHOOSE g : Is(g)
  BY DEF AddedUpTo
<1>7. Is(AddedUpTo(q))
  <2> HIDE DEF Is
  <2> QED BY <1>5, <1>6
<1> DEFINE F == AddedUpTo(q)
           Good == {k \in 0..Len(q) : F[k] \in S}
<1> HIDE DEF F
<1>8. F = [k \in 0..Len(q) |-> IF k = 0 THEN NoDiagnostics ELSE IF q[k] = Silence THEN F[k - 1]
                               ELSE Added(F[k - 1], q[k][1], q[k][2])]
  BY <1>7 DEF F
<1>9. F = [k \in 0..Len(q) |-> F[k]]
  BY <1>8
<1>10. \A k \in 0..Len(q) : F[k] = IF k = 0 THEN NoDiagnostics ELSE Onto(k, F[k - 1])
  BY <1>8
<1>11. F[0] = NoDiagnostics
  BY <1>1, <1>10
<1>12. \A k \in 1..Len(q) : F[k] = Onto(k, F[k - 1])
  <2> HIDE DEF Onto
  <2> QED BY <1>1, <1>10
<1>13. 0..Len(q) \subseteq Good
  <2>1. 0 \in Good
    BY <1>1, <1>11
  <2>2. ASSUME NEW k \in 0..(Len(q) - 1), k \in Good PROVE k + 1 \in Good
    <3>1. k + 1 \in 1..Len(q) /\ (k + 1) - 1 = k /\ F[k] \in S /\ k + 1 \in 0..Len(q)
      BY <2>2, <1>1
    <3> HIDE DEF Onto
    <3>2. F[k + 1] = Onto(k + 1, F[k])
      BY <3>1, <1>12
    <3> QED BY <1>2, <3>1, <3>2
  <2> HIDE DEF Good
  <2> QED BY <2>1, <2>2, <1>1, UpTo
<1>14. F \in [0..Len(q) -> S]
  BY <1>9, <1>13
<1> QED BY <1>11, <1>12, <1>14 DEF F, S

\* How often x is in a sequence.
Positions1(q, x) == {i \in 1..Len(q) : q[i] = x}
Count(q, x) == Cardinality(Positions1(q, x))

\* A list tells of each code and table as often as it was reported.
LEMMA AddedAllTells ==
  ASSUME NEW C, NEW P, NEW q \in Seq(Reports(C, P)), NEW c, NEW t
  PROVE  CountOf(Taken(AddedAll(q)), c, t) = Count(q, <<c, t>>)
<1> DEFINE A == AddedUpTo(q)
           K(k) == KeptUpTo(q, {<<c, t>>}, k)
           Good == {k \in 0..Len(q) : Tells(C, P, A[k], c, t, Cardinality(K(k)))}
<1>1. Len(q) \in Nat /\ \A k \in 1..Len(q) : q[k] \in Reports(C, P)
  OBVIOUS
<1>2. /\ A[0] = NoDiagnostics
      /\ \A k \in 1..Len(q) : A[k] = IF q[k] = Silence THEN A[k - 1] ELSE Added(A[k - 1], q[k][1], q[k][2])
  BY AddedSteps
<1> HIDE DEF A
<1>3. 0 \in Good
  <2>1. Cardinality(K(0)) = 0
    <3>1. K(0) = {}
      BY KeptUpToSteps
    <3> QED BY <3>1, FS_EmptySet
  <2> QED BY <1>1, <1>2, <2>1, NoneTells
<1>4. ASSUME NEW k \in 0..(Len(q) - 1), k \in Good PROVE k + 1 \in Good
  <2>1. k \in Nat /\ k + 1 \in 1..Len(q) /\ (k + 1) - 1 = k /\ k + 1 \in 0..Len(q)
    BY <1>1
  <2>2. A[k + 1] = IF q[k + 1] = Silence THEN A[k] ELSE Added(A[k], q[k + 1][1], q[k + 1][2])
    BY <1>2, <2>1
  <2>3. Tells(C, P, A[k], c, t, Cardinality(K(k))) /\ Cardinality(K(k)) \in Nat
    BY <1>4, <2>1, KeptUpToSteps
  <2>4. /\ q[k + 1] # <<c, t>> => K(k + 1) = K(k)
        /\ q[k + 1] = <<c, t>> => Cardinality(K(k + 1)) = Cardinality(K(k)) + 1
    <3>1. /\ q[k + 1] \notin {<<c, t>>} => K(k + 1) = K(k)
          /\ q[k + 1] \in {<<c, t>>} => Cardinality(K(k + 1)) = Cardinality(K(k)) + 1
      BY <2>1, KeptUpToSteps
    <3> QED BY <3>1
  <2> HIDE DEF K
  <2>5. CASE q[k + 1] = Silence
    <3>1. q[k + 1] # <<c, t>>
      BY <2>5 DEF Silence
    <3> QED BY <2>1, <2>2, <2>3, <2>4, <2>5, <3>1
  <2>6. CASE q[k + 1] # Silence
    <3>1. PICK x \in C, y \in P : q[k + 1] = <<x, y>>
      BY <1>1, <2>1, <2>6 DEF Reports
    <3>2. A[k + 1] = Added(A[k], x, y)
      BY <2>2, <2>6, <3>1
    <3>3. Tells(C, P, A[k + 1], c, t, IF <<x, y>> = <<c, t>> THEN Cardinality(K(k)) + 1 ELSE Cardinality(K(k)))
      BY <2>3, <3>2, AddedTells
    <3>4. CASE q[k + 1] = <<c, t>>
      BY <2>1, <2>4, <3>1, <3>3, <3>4
    <3>5. CASE q[k + 1] # <<c, t>>
      BY <2>1, <2>4, <3>1, <3>3, <3>5
    <3> QED BY <3>4, <3>5
  <2> QED BY <2>5, <2>6
<1>5. Len(q) \in Good
  <2>1. 0..Len(q) \subseteq Good
    <3> HIDE DEF Good
    <3> QED BY <1>1, <1>3, <1>4, UpTo
  <2>2. Len(q) \in 0..Len(q)
    BY <1>1
  <2> HIDE DEF Good
  <2> QED BY <2>1, <2>2
<1>6. K(Len(q)) = Positions1(q, <<c, t>>)
  BY DEF KeptUpTo, Positions1
<1>7. CountOf(Taken(A[Len(q)]), c, t) = Cardinality(K(Len(q)))
  <2> HIDE DEF K
  <2> QED BY <1>5, TakenTells
<1> QED BY <1>6, <1>7 DEF AddedAll, A, Count

-----------------------------------------------------------------------------
(* Counting *)

LEMMA SameCount ==
  ASSUME NEW S, IsFiniteSet(S), NEW T, NEW f \in [S -> T],
         \A x, y \in S : f[x] = f[y] => x = y, \A z \in T : \E x \in S : f[x] = z
  PROVE  IsFiniteSet(T) /\ Cardinality(T) = Cardinality(S) /\ Cardinality(T) \in Nat
<1>1. f \in Bijection(S, T)
  BY DEF Bijection, Injection, Surjection, IsInjective
<1>2. IsFiniteSet(T) /\ Cardinality(T) = Cardinality(S)
  BY <1>1, FS_Bijection DEF ExistsBijection
<1> QED BY <1>2, FS_CardinalityType

LEMMA CountType ==
  ASSUME NEW S, NEW q \in Seq(S), NEW x
  PROVE  Count(q, x) \in Nat /\ IsFiniteSet(Positions1(q, x)) /\ Positions1(q, x) \subseteq 1..Len(q)
<1>1. IsFiniteSet(1..Len(q)) /\ Positions1(q, x) \subseteq 1..Len(q)
  <2>1. Len(q) \in Nat
    OBVIOUS
  <2> QED BY <2>1, FS_Interval DEF Positions1
<1> QED BY <1>1, FS_Subset, FS_CardinalityType DEF Count

LEMMA CountConcat ==
  ASSUME NEW S, NEW a \in Seq(S), NEW b \in Seq(S), NEW x
  PROVE  a \o b \in Seq(S) /\ Count(a \o b, x) = Count(a, x) + Count(b, x) /\ Count(a, x) \in Nat
<1> DEFINE q == a \o b
           m == Len(a)
           n == Len(b)
           A == Positions1(a, x)
           B == Positions1(b, x)
           f == [i \in B |-> m + i]
           U == {m + i : i \in B}
<1>1. /\ q \in Seq(S) /\ Len(q) = m + n /\ m \in Nat /\ n \in Nat
      /\ \A i \in 1..(m + n) : q[i] = IF i <= m THEN a[i] ELSE b[i - m]
  BY ConcatProperties
<1>2. /\ IsFiniteSet(A) /\ A \subseteq 1..m /\ Cardinality(A) \in Nat
      /\ IsFiniteSet(B) /\ B \subseteq 1..n /\ Cardinality(B) \in Nat
  BY CountType DEF Count
<1> HIDE DEF q, m, n
<1>3. Positions1(q, x) = A \cup U
  <2>1. ASSUME NEW i \in Positions1(q, x) PROVE i \in A \cup U
    <3>1. i \in 1..(m + n) /\ q[i] = x
      BY <1>1 DEF Positions1
    <3>2. CASE i <= m
      <4>1. i \in 1..m /\ a[i] = x
        BY <1>1, <3>1, <3>2
      <4> QED BY <4>1 DEF Positions1, m
    <3>3. CASE ~(i <= m)
      <4>1. i - m \in 1..n /\ b[i - m] = x /\ i = m + (i - m)
        BY <1>1, <3>1, <3>3
      <4>2. i - m \in B
        BY <4>1 DEF Positions1, n
      <4> HIDE DEF B
      <4> QED BY <4>1, <4>2
    <3> QED BY <3>2, <3>3
  <2>2. ASSUME NEW i \in A PROVE i \in Positions1(q, x)
    <3>1. i \in 1..m /\ a[i] = x
      BY <1>2 DEF Positions1
    <3>2. i \in 1..(m + n) /\ q[i] = x
      BY <1>1, <3>1
    <3> QED BY <1>1, <3>2 DEF Positions1
  <2>3. ASSUME NEW i \in B PROVE m + i \in Positions1(q, x)
    <3>1. i \in 1..n /\ b[i] = x
      BY <1>2 DEF Positions1
    <3>2. m + i \in 1..(m + n) /\ ~(m + i <= m) /\ (m + i) - m = i
      BY <1>1, <3>1
    <3>3. q[m + i] = x
      BY <1>1, <3>1, <3>2
    <3> QED BY <1>1, <3>2, <3>3 DEF Positions1
  <2> HIDE DEF A, B
  <2> QED BY <2>1, <2>2, <2>3
<1> HIDE DEF A, B
<1>4. IsFiniteSet(U) /\ Cardinality(U) = Cardinality(B)
  <2>1. f \in [B -> U] /\ (\A z \in U : \E i \in B : f[i] = z)
    OBVIOUS
  <2>2. \A i, k \in B : f[i] = f[k] => i = k
    BY <1>1, <1>2
  <2> HIDE DEF f, U
  <2> QED BY <1>2, <2>1, <2>2, SameCount
<1>5. A \cap U = {}
  <2>1. \A i \in A : i <= m
    BY <1>1, <1>2
  <2>2. \A i \in B : ~(m + i <= m)
    BY <1>1, <1>2
  <2> QED BY <2>1, <2>2
<1> HIDE DEF U
<1>6. Cardinality(A \cup U) = Cardinality(A) + Cardinality(U) - Cardinality(A \cap U)
  BY <1>2, <1>4, FS_Union
<1>7. Cardinality(A \cap U) = 0
  BY <1>5, FS_EmptySet
<1> QED BY <1>1, <1>2, <1>3, <1>4, <1>6, <1>7 DEF Count, q, A, B

\* The tracks whose name is one of these are as many as the names.
OnePerName(ts, m, names) ==
  /\ \A k \in 1..m : ts[k].name \in names
  /\ \A k, l \in 1..m : ts[k].name = ts[l].name => k = l
  /\ \A n \in names : \E k \in 1..m : ts[k].name = n
TracksNamed(ts, m, N) == {k \in 1..m : ts[k].name \in N}

LEMMA TracksCount ==
  ASSUME NEW m \in Nat, NEW ts, NEW names, OnePerName(ts, m, names), NEW N \in SUBSET names
  PROVE  Cardinality(TracksNamed(ts, m, N)) = Cardinality(N) /\ Cardinality(N) \in Nat
<1> DEFINE S == TracksNamed(ts, m, N)
           f == [k \in S |-> ts[k].name]
<1>1. IsFiniteSet(S)
  <2>1. IsFiniteSet(1..m)
    BY FS_Interval
  <2>2. S \in SUBSET (1..m)
    BY DEF TracksNamed
  <2> HIDE DEF S
  <2> QED BY <2>1, <2>2, FS_Subset
<1>2. f \in [S -> N] /\ (\A x, y \in S : f[x] = f[y] => x = y) /\ \A z \in N : \E x \in S : f[x] = z
  BY DEF TracksNamed, OnePerName
<1> HIDE DEF S, f
<1>3. Cardinality(N) = Cardinality(S) /\ Cardinality(N) \in Nat
  BY <1>1, <1>2, SameCount
<1> QED BY <1>3 DEF S

-----------------------------------------------------------------------------
(* What is lost where a frame is written twice *)

Doubled(q) == \E i, j \in 1..Len(q) : i < j /\ q[i].frame = q[j].frame

LEMMA LostIff ==
  ASSUME NEW q \in KeyLists
  PROVE  Len(SortAndDeduplicate(q)) < Len(q) <=> Doubled(q)
<1> DEFINE r == SortAndDeduplicate(q)
           n == Len(q)
           m == Len(r)
           L == LastOfFrame(q)
           at(k, i) == q[i] = r[k]
           f == [k \in 1..m |-> CHOOSE i \in L : at(k, i)]
<1>1. /\ r \in KeyLists /\ Range(r) = {q[i] : i \in L}
      /\ \A i, k \in 1..m : i < k => r[i].frame < r[k].frame
  BY OnePerFrame
<1>2. n \in Nat /\ m \in Nat /\ DOMAIN r = 1..m
  <2> HIDE DEF r
  <2> QED BY <1>1, KeysOfList
<1>3. L \subseteq 1..n /\ \A i \in L, j \in 1..n : i < j => q[j].frame # q[i].frame
  BY DEF LastOfFrame
<1>4. \A i \in 1..n : q[i].frame \in Nat
  BY KeysOfList
<1>5. \A k \in 1..m : r[k].frame \in Nat
  <2> HIDE DEF r
  <2> QED BY <1>1, KeysOfList
<1> HIDE DEF r, m, n, L
<1>6. \A k \in 1..m : \E i \in L : at(k, i)
  <2> TAKE k \in 1..m
  <2>1. r[k] \in Range(r)
    BY <1>2 DEF Range
  <2> QED BY <1>1, <2>1
<1>7. \A i \in L : \E k \in 1..m : at(k, i)
  <2> TAKE i \in L
  <2>1. q[i] \in Range(r)
    BY <1>1
  <2>2. PICK k \in DOMAIN r : r[k] = q[i]
    BY <2>1 DEF Range
  <2> QED BY <1>2, <2>2
<1>8. \A k \in 1..m : f[k] \in L /\ at(k, f[k])
  <2> TAKE k \in 1..m
  <2>1. \E i \in L : at(k, i)
    BY <1>6
  <2>2. f[k] = CHOOSE i \in L : at(k, i)
    OBVIOUS
  <2> HIDE DEF f, at
  <2> QED BY <2>1, <2>2
<1>9. f \in [1..m -> L]
  <2>1. f = [k \in 1..m |-> f[k]]
    OBVIOUS
  <2> HIDE DEF f
  <2> QED BY <1>8, <2>1
<1> HIDE DEF f
<1>10. ASSUME NEW i \in L, NEW j \in L, q[i].frame = q[j].frame PROVE i = j
  <2>1. ~(i < j) /\ ~(j < i) /\ i \in Nat /\ j \in Nat
    BY <1>2, <1>3, <1>10
  <2> QED BY <2>1
<1>11. \A x, y \in 1..m : f[x] = f[y] => x = y
  <2> TAKE x, y \in 1..m
  <2> SUFFICES ASSUME f[x] = f[y] PROVE x = y
    OBVIOUS
  <2>1. r[x].frame = r[y].frame
    BY <1>8
  <2>2. ~(x < y) /\ ~(y < x)
    BY <1>1, <1>5, <2>1
  <2> QED BY <1>2, <2>2
<1>12. \A z \in L : \E x \in 1..m : f[x] = z
  <2> TAKE z \in L
  <2>1. PICK x \in 1..m : q[z] = r[x]
    BY <1>7
  <2>2. f[x] \in L /\ q[f[x]] = r[x]
    BY <1>8
  <2> QED BY <1>10, <2>1, <2>2
<1>13. Cardinality(L) = m /\ IsFiniteSet(L)
  <2>1. IsFiniteSet(1..m) /\ Cardinality(1..m) = m
    BY <1>2, FS_Interval
  <2> QED BY <1>9, <1>11, <1>12, <2>1, SameCount
<1>14. IsFiniteSet(1..n) /\ Cardinality(1..n) = n
  BY <1>2, FS_Interval
<1>15. m <= n /\ (m = n => L = 1..n)
  <2>1. L \in SUBSET (1..n)
    BY <1>3
  <2> QED BY <1>13, <1>14, <2>1, FS_Subset
<1>16. ASSUME Doubled(q) PROVE m < n
  <2>1. PICK i \in 1..n, j \in 1..n : i < j /\ q[i].frame = q[j].frame
    BY <1>16 DEF Doubled, n
  <2>2. i \notin L
    BY <1>3, <2>1
  <2>3. m # n
    BY <1>15, <2>2
  <2> QED BY <1>2, <1>15, <2>3
<1>17. ASSUME m < n PROVE Doubled(q)
  <2>1. L # 1..n
    BY <1>2, <1>13, <1>14, <1>17
  <2>2. PICK i \in 1..n : i \notin L
    BY <1>3, <2>1
  <2>3. PICK j \in 1..n : i < j /\ q[j].frame = q[i].frame
    BY <2>2 DEF L, LastOfFrame, n
  <2> QED BY <2>3 DEF Doubled, n
<1> QED BY <1>16, <1>17 DEF r, m, n

\* Two of these keys are of one frame.
Clash(K) == \E k, l \in K : k.frame = l.frame /\ k.value # l.value

\* Keys of one frame differ in their values, as all keys do.
LEMMA LostKeys ==
  ASSUME NEW q \in KeyLists, Rises(q)
  PROVE  Len(SortAndDeduplicate(q)) < Len(q) <=> Clash(Members(q))
<1>1. Len(q) \in Nat /\ \A i \in 1..Len(q) : q[i].value \in Nat
  <2>1. Len(q) \in Nat /\ \A i \in 1..Len(q) : q[i] \in KeySet
    BY KeysOfList
  <2> QED BY <2>1, KeyFields
<1>2. ASSUME Doubled(q) PROVE Clash(Members(q))
  <2>1. PICK i \in 1..Len(q), j \in 1..Len(q) : i < j /\ q[i].frame = q[j].frame
    BY <1>2 DEF Doubled
  <2>2. q[i].value # q[j].value
    <3>1. q[i].value < q[j].value
      BY <2>1 DEF Rises
    <3> QED BY <1>1, <3>1
  <2>3. q[i] \in Members(q) /\ q[j] \in Members(q)
    BY DEF Members
  <2> QED BY <2>1, <2>2, <2>3 DEF Clash
<1>3. ASSUME Clash(Members(q)) PROVE Doubled(q)
  <2>1. PICK k \in Members(q), l \in Members(q) : k.frame = l.frame /\ k.value # l.value
    BY <1>3 DEF Clash
  <2>2. PICK i \in 1..Len(q) : k = q[i]
    BY DEF Members
  <2>3. PICK j \in 1..Len(q) : l = q[j]
    BY DEF Members
  <2>4. i < j \/ j < i
    BY <1>1, <2>1, <2>2, <2>3
  <2> QED BY <2>1, <2>2, <2>3, <2>4 DEF Doubled
<1> QED BY <1>2, <1>3, LostIff

\* The keys of a name are in the order they have in the list.
LEMMA NamedRise ==
  ASSUME NEW rs \in KeyLists, Rises(rs), NEW n
  PROVE  /\ OfName(rs, n) \in KeyLists /\ Rises(OfName(rs, n))
         /\ Members(OfName(rs, n)) = {k \in Members(rs) : k.name = n}
<1> DEFINE S == {r \in Range(rs) : r.name = n}
           o == OfName(rs, n)
<1>1. Len(rs) \in Nat /\ DOMAIN rs = 1..Len(rs)
  BY KeysOfList
<1>2. o = Selected(rs, S)
  BY DEF OfName
<1>3. o \in KeyLists /\ \E e \in [1..Len(o) -> 1..Len(rs)] : PlacesOf(rs, S, o, e)
  <2> HIDE DEF S, o
  <2>1. \A T : rs \in Seq(T) => /\ Selected(rs, S) \in Seq(T)
                                /\ \E e \in [1..Len(Selected(rs, S)) -> 1..Len(rs)] : PlacesOf(rs, S, Selected(rs, S), e)
    BY SelectedPlaces
  <2> QED BY <1>2, <2>1 DEF KeyLists
<1>4. PICK e \in [1..Len(o) -> 1..Len(rs)] : PlacesOf(rs, S, o, e)
  BY <1>3
<1>5. \A i \in 1..Len(rs) : rs[i] \in S <=> rs[i].name = n
  BY <1>1 DEF Range
<1> HIDE DEF o, S
<1>6. /\ \A i, k \in 1..Len(o) : i < k => e[i] < e[k]
      /\ \A i \in 1..Len(o) : o[i] = rs[e[i]] /\ rs[e[i]] \in S /\ e[i] \in 1..Len(rs)
      /\ \A l \in 1..Len(rs) : rs[l] \in S => \E i \in 1..Len(o) : e[i] = l
  BY <1>4 DEF PlacesOf
<1>7. Rises(o)
  BY <1>6 DEF Rises
<1>8. Members(o) = {k \in Members(rs) : k.name = n}
  <2>1. ASSUME NEW k \in Members(o) PROVE k \in Members(rs) /\ k.name = n
    <3>1. PICK i \in 1..Len(o) : k = o[i]
      BY DEF Members
    <3> QED BY <1>5, <1>6, <3>1 DEF Members
  <2>2. ASSUME NEW k \in Members(rs), k.name = n PROVE k \in Members(o)
    <3>1. PICK l \in 1..Len(rs) : k = rs[l]
      BY DEF Members
    <3>2. PICK i \in 1..Len(o) : e[i] = l
      BY <1>5, <1>6, <2>2, <3>1
    <3>3. o[i] = k
      BY <1>6, <3>1, <3>2
    <3> QED BY <3>3 DEF Members
  <2> QED BY <2>1, <2>2
<1> QED BY <1>3, <1>7, <1>8 DEF o

-----------------------------------------------------------------------------
(* What is reported of the names of a motion, and of its frames *)

LEMMA ReportedIs ==
  ASSUME NEW t \in Tables, NEW w \in Nat, NEW bytes, NEW where, NEW unmatched
  PROVE  Reported(t, w, bytes, where, unmatched)
           = IF Means(t, w, bytes) = {} THEN <<unmatched, where>>
             ELSE IF Cardinality(Means(t, w, bytes)) > 1 THEN <<"MOTION_AMBIGUOUS_NAME", where>>
             ELSE Silence
<1> DEFINE E == Elements(t, w, bytes)
           M == Means(t, w, bytes)
           A == <<unmatched, where>>
           B == <<"MOTION_AMBIGUOUS_NAME", where>>
<1>1. M = IF bytes = <<>> THEN {} ELSE E
  BY MeansAre
<1>2. Reported(t, w, bytes, where, unmatched)
        = CASE bytes = <<>> \/ E = {} -> A
            [] bytes # <<>> /\ Cardinality(E) > 1 -> B
            [] OTHER -> Silence
  BY DEF Reported
<1> HIDE DEF E, M, A, B
<1>3. CASE bytes = <<>> \/ E = {}
  <2>1. ~(bytes # <<>> /\ Cardinality(E) > 1)
    BY <1>3, FS_EmptySet
  <2>2. Reported(t, w, bytes, where, unmatched) = A
    BY <1>2, <1>3, <2>1
  <2> QED BY <1>1, <1>3, <2>2 DEF A, M
<1>4. CASE ~(bytes = <<>> \/ E = {})
  <2>1. Reported(t, w, bytes, where, unmatched) = IF Cardinality(E) > 1 THEN B ELSE Silence
    BY <1>2, <1>4
  <2> QED BY <1>1, <1>4, <2>1 DEF B, M
<1> QED BY <1>3, <1>4

BindCodes == {"MOTION_UNENCODABLE_NAME", "MOTION_UNMATCHED_BONE", "MOTION_UNMATCHED_MORPH",
              "MOTION_AMBIGUOUS_NAME"}
Unmatched(kind) == IF kind = "morphs" THEN "MOTION_UNMATCHED_MORPH" ELSE "MOTION_UNMATCHED_BONE"

\* The names of these that mean nothing, and those that mean several elements.
Nothing(N, t, w) == {n \in N : Means(t, w, n) = {}}
Several(N, t, w) == {n \in N : Cardinality(Means(t, w, n)) > 1}

LEMMA ReportedCount ==
  ASSUME NEW rs \in KeyLists, NEW t \in Tables, NEW w \in Nat, NEW where \in NamedKinds
  PROVE  LET q == ReportedIn(Sorted(Tracks(rs)), t, w, where, Unmatched(where)) IN
         /\ q \in Seq(Reports(BindCodes, NamedKinds))
         /\ \A c, kind : kind # where => Count(q, <<c, kind>>) = 0
         /\ Count(q, <<Unmatched(where), where>>) = Cardinality(Nothing(NamesIn(rs), t, w))
         /\ Count(q, <<"MOTION_AMBIGUOUS_NAME", where>>) = Cardinality(Several(NamesIn(rs), t, w))
<1> DEFINE ts == Sorted(Tracks(rs))
           m == Len(ts)
           N == NamesIn(rs)
           un == Unmatched(where)
           am == "MOTION_AMBIGUOUS_NAME"
           Said(n) == Reported(t, w, n, where, un)
           q == ReportedIn(ts, t, w, where, un)
           R == Reports(BindCodes, NamedKinds)
<1>1. /\ m \in Nat /\ \A k \in 1..m : ts[k].name \in N
      /\ \A k, l \in 1..m : ts[k].name = ts[l].name => k = l
      /\ \A n \in N : \E k \in 1..m : ts[k].name = n
  BY SortedTracks
<1>2. un \in BindCodes /\ am \in BindCodes /\ un # am
  BY DEF Unmatched, BindCodes
<1>3. \A n : Said(n) = IF Means(t, w, n) = {} THEN <<un, where>>
                       ELSE IF Cardinality(Means(t, w, n)) > 1 THEN <<am, where>> ELSE Silence
  BY ReportedIs
<1>4. q = [k \in 1..m |-> Said(ts[k].name)]
  BY DEF ReportedIn
<1> HIDE DEF Said, q, un, am, m, ts, N
<1>0. OnePerName(ts, m, N)
  BY <1>1 DEF OnePerName
<1>5. \A n : Said(n) \in R
  <2>1. <<un, where>> \in R /\ <<am, where>> \in R /\ Silence \in R
    BY <1>2 DEF Reports
  <2> QED BY <1>3, <2>1
<1>6. q \in Seq(R) /\ Len(q) = m /\ \A k \in 1..m : q[k] = Said(ts[k].name)
  <2>1. q \in [1..m -> R] /\ \A k \in 1..m : q[k] = Said(ts[k].name)
    BY <1>4, <1>5
  <2> QED BY <1>1, <2>1, ListOf
<1>7. /\ \A n : Said(n) = <<un, where>> <=> Means(t, w, n) = {}
      /\ \A n : Said(n) = <<am, where>> <=> Cardinality(Means(t, w, n)) > 1
      /\ \A n, c, kind : kind # where => Said(n) # <<c, kind>>
  <2> DEFINE U == <<un, where>>
             A == <<am, where>>
  <2>1. U # A /\ U # Silence /\ A # Silence
    BY <1>2 DEF Silence
  <2>2. \A c, kind : kind # where => U # <<c, kind>> /\ A # <<c, kind>> /\ Silence # <<c, kind>>
    BY DEF Silence
  <2>3. \A n : Means(t, w, n) = {} => ~(Cardinality(Means(t, w, n)) > 1)
    BY FS_EmptySet
  <2>4. \A n : Said(n) = IF Means(t, w, n) = {} THEN U
                         ELSE IF Cardinality(Means(t, w, n)) > 1 THEN A ELSE Silence
    BY <1>3
  <2> HIDE DEF U, A
  <2>5. \A n : (Said(n) = U <=> Means(t, w, n) = {}) /\ (Said(n) = A <=> Cardinality(Means(t, w, n)) > 1)
    BY <2>1, <2>3, <2>4
  <2>6. \A n, c, kind : kind # where => Said(n) # <<c, kind>>
    <3>1. \A n : Said(n) \in {U, A, Silence}
      BY <2>4
    <3> QED BY <2>2, <3>1
  <2> QED BY <2>5, <2>6 DEF U, A
<1>8. ASSUME NEW c, NEW kind, kind # where PROVE Count(q, <<c, kind>>) = 0
  <2>1. \A k \in 1..m : q[k] # <<c, kind>>
    <3>1. \A n : Said(n) # <<c, kind>>
      BY <1>7, <1>8
    <3> QED BY <1>6, <3>1
  <2>2. Positions1(q, <<c, kind>>) = {}
    <3> DEFINE x == <<c, kind>>
    <3>1. \A k \in 1..m : q[k] # x
      BY <2>1
    <3> HIDE DEF x
    <3>2. Positions1(q, x) = {}
      BY <1>6, <3>1 DEF Positions1
    <3> QED BY <3>2 DEF x
  <2> QED BY <2>2, FS_EmptySet DEF Count
<1>9. Count(q, <<un, where>>) = Cardinality(Nothing(N, t, w))
  <2> DEFINE x == <<un, where>>
             V == Nothing(N, t, w)
             K == TracksNamed(ts, m, V)
  <2>1. \A k \in 1..m : q[k] = x <=> ts[k].name \in V
    <3> TAKE k \in 1..m
    <3>1. q[k] = Said(ts[k].name) /\ ts[k].name \in N
      BY <1>1, <1>6
    <3>2. Said(ts[k].name) = x <=> ts[k].name \in V
      BY <1>7, <3>1 DEF Nothing
    <3> QED BY <3>1, <3>2
  <2>2. V \in SUBSET N
    BY DEF Nothing
  <2> HIDE DEF x, V
  <2>3. Positions1(q, x) = K
    BY <1>6, <2>1 DEF Positions1, TracksNamed
  <2>4. Cardinality(K) = Cardinality(V)
    BY <1>0, <1>1, <2>2, TracksCount
  <2> QED BY <2>3, <2>4 DEF Count, x, V
<1>10. Count(q, <<am, where>>) = Cardinality(Several(N, t, w))
  <2> DEFINE x == <<am, where>>
             V == Several(N, t, w)
             K == TracksNamed(ts, m, V)
  <2>1. \A k \in 1..m : q[k] = x <=> ts[k].name \in V
    <3> TAKE k \in 1..m
    <3>1. q[k] = Said(ts[k].name) /\ ts[k].name \in N
      BY <1>1, <1>6
    <3>2. Said(ts[k].name) = x <=> ts[k].name \in V
      BY <1>7, <3>1 DEF Several
    <3> QED BY <3>1, <3>2
  <2>2. V \in SUBSET N
    BY DEF Several
  <2> HIDE DEF x, V
  <2>3. Positions1(q, x) = K
    BY <1>6, <2>1 DEF Positions1, TracksNamed
  <2>4. Cardinality(K) = Cardinality(V)
    BY <1>0, <1>1, <2>2, TracksCount
  <2> QED BY <2>3, <2>4 DEF Count, x, V
<1> QED BY <1>6, <1>8, <1>9, <1>10 DEF q, un, am, ts, N, R

Dup == "MOTION_DUPLICATE_KEYFRAME"

\* The names of these keys that have two of one frame.
Twice(K) == {n \in {k.name : k \in K} : Clash({k \in K : k.name = n})}

LEMMA NamesAre == ASSUME NEW rs PROVE NamesIn(rs) = {k.name : k \in Members(rs)}
BY DEF NamesIn, Members

LEMMA DuplicatesCount ==
  ASSUME NEW rs \in KeyLists, Rises(rs), NEW where \in NamedKinds
  PROVE  LET q == DuplicatesIn(where, Tracks(rs)) IN
         /\ q \in Seq(Reports({Dup}, NamedKinds))
         /\ \A kind : kind # where => Count(q, <<Dup, kind>>) = 0
         /\ Count(q, <<Dup, where>>) = Cardinality(Twice(Members(rs)))
<1> DEFINE ts == Tracks(rs)
           m == Len(ts)
           N == NamesIn(rs)
           V == Twice(Members(rs))
           D == <<Dup, where>>
           q == DuplicatesIn(where, ts)
           R == Reports({Dup}, NamedKinds)
<1>1. /\ m \in Nat /\ \A k \in 1..m : ts[k].name \in N /\ ts[k].records = OfName(rs, ts[k].name)
      /\ \A k, l \in 1..m : ts[k].name = ts[l].name => k = l
      /\ \A n \in N : \E k \in 1..m : ts[k].name = n
  BY TracksAre
<1>2. q = [k \in 1..m |-> ReportDuplicates(ts[k].records, where)]
  BY DEF DuplicatesIn
<1>3. \A rr : ReportDuplicates(rr, where) = IF Len(SortAndDeduplicate(rr)) < Len(rr) THEN D ELSE Silence
  BY DEF ReportDuplicates, Dup
<1>4. V \in SUBSET N /\ \A n \in N : n \in V <=> Clash({k \in Members(rs) : k.name = n})
  BY NamesAre DEF Twice
<1>5. \A n : Len(SortAndDeduplicate(OfName(rs, n))) < Len(OfName(rs, n))
               <=> Clash({k \in Members(rs) : k.name = n})
  <2> TAKE n
  <2> DEFINE o == OfName(rs, n)
  <2>1. o \in KeyLists /\ Rises(o) /\ Members(o) = {k \in Members(rs) : k.name = n}
    BY NamedRise
  <2> HIDE DEF o
  <2>2. Len(SortAndDeduplicate(o)) < Len(o) <=> Clash(Members(o))
    BY <2>1, LostKeys
  <2> QED BY <2>1, <2>2 DEF o
<1>6. D \in R /\ Silence \in R /\ D # Silence
  BY DEF Reports, Silence
<1>7. \A kind : kind # where => D # <<Dup, kind>> /\ Silence # <<Dup, kind>>
  BY DEF Silence
<1> HIDE DEF q, m, ts, N, V, D
<1>0. OnePerName(ts, m, N)
  BY <1>1 DEF OnePerName
<1>8. \A k \in 1..m : ReportDuplicates(ts[k].records, where) = IF ts[k].name \in V THEN D ELSE Silence
  <2> TAKE k \in 1..m
  <2> DEFINE n == ts[k].name
             o == OfName(rs, n)
  <2>1. n \in N /\ ts[k].records = o
    BY <1>1
  <2>2. n \in V <=> Clash({l \in Members(rs) : l.name = n})
    BY <1>4, <2>1
  <2>3. Len(SortAndDeduplicate(o)) < Len(o) <=> Clash({l \in Members(rs) : l.name = n})
    BY <1>5
  <2> HIDE DEF n, o
  <2>4. ReportDuplicates(o, where) = IF Len(SortAndDeduplicate(o)) < Len(o) THEN D ELSE Silence
    BY <1>3
  <2>5. ReportDuplicates(ts[k].records, where) = IF n \in V THEN D ELSE Silence
    BY <2>1, <2>2, <2>3, <2>4
  <2> QED BY <2>5 DEF n
<1>9. q \in Seq(R) /\ Len(q) = m /\ \A k \in 1..m : q[k] = IF ts[k].name \in V THEN D ELSE Silence
  <2>1. q \in [1..m -> R] /\ \A k \in 1..m : q[k] = IF ts[k].name \in V THEN D ELSE Silence
    BY <1>2, <1>6, <1>8
  <2> QED BY <1>1, <2>1, ListOf
<1>10. ASSUME NEW kind, kind # where PROVE Count(q, <<Dup, kind>>) = 0
  <2>1. Positions1(q, <<Dup, kind>>) = {}
    BY <1>7, <1>9, <1>10 DEF Positions1
  <2> QED BY <2>1, FS_EmptySet DEF Count
<1>11. Count(q, D) = Cardinality(V)
  <2> DEFINE K == TracksNamed(ts, m, V)
  <2>1. Positions1(q, D) = K
    BY <1>6, <1>9 DEF Positions1, TracksNamed
  <2>2. V \in SUBSET N
    BY <1>4
  <2>3. Cardinality(K) = Cardinality(V)
    BY <1>0, <1>1, <2>2, TracksCount
  <2> QED BY <2>1, <2>3 DEF Count
<1> QED BY <1>9, <1>10, <1>11 DEF q, D, V, ts, R

\* What is said of the stage's own tracks.
LEMMA StageCount ==
  ASSUME NEW a, NEW b, NEW c, NEW d, NEW kind \in NamedKinds
  PROVE  LET q == <<ReportDuplicates(a, "cameras"), ReportDuplicates(b, "lights"),
                    ReportDuplicates(c, "shadows"), ReportDuplicates(d, "ik")>>
         IN /\ q \in Seq(Reports({Dup}, Kinds))
            /\ Count(q, <<Dup, kind>>)
                 = IF kind = "ik" /\ Len(SortAndDeduplicate(d)) < Len(d) THEN 1 ELSE 0
<1> DEFINE x == ReportDuplicates(a, "cameras")
           y == ReportDuplicates(b, "lights")
           z == ReportDuplicates(c, "shadows")
           u == ReportDuplicates(d, "ik")
           q == <<x, y, z, u>>
           D == <<Dup, kind>>
           lost == Len(SortAndDeduplicate(d)) < Len(d)
           R == Reports({Dup}, Kinds)
<1>1. x \in {<<Dup, "cameras">>, Silence} /\ y \in {<<Dup, "lights">>, Silence} /\ z \in {<<Dup, "shadows">>, Silence}
  BY DEF ReportDuplicates, Dup
<1>2. u = IF lost THEN <<Dup, "ik">> ELSE Silence
  BY DEF ReportDuplicates, Dup
<1>3. /\ <<Dup, "cameras">> \in R /\ <<Dup, "lights">> \in R /\ <<Dup, "shadows">> \in R /\ <<Dup, "ik">> \in R
      /\ Silence \in R
  BY SectionNames DEF Reports
<1>4. /\ <<Dup, "cameras">> # D /\ <<Dup, "lights">> # D /\ <<Dup, "shadows">> # D
      /\ Silence # D /\ (<<Dup, "ik">> = D <=> kind = "ik")
  BY DEF NamedKinds, Silence
<1> HIDE DEF x, y, z, u, D, R, lost
<1>5. x \in R /\ y \in R /\ z \in R /\ u \in R
  BY <1>1, <1>2, <1>3
<1>6. q \in Seq(R) /\ Len(q) = 4 /\ q[1] = x /\ q[2] = y /\ q[3] = z /\ q[4] = u
  BY <1>5
<1>7. x # D /\ y # D /\ z # D /\ (u = D <=> kind = "ik" /\ lost)
  BY <1>1, <1>2, <1>4
<1> HIDE DEF q
<1>8. 1..Len(q) = {1, 2, 3, 4}
  BY <1>6
<1>9. Positions1(q, D) = IF kind = "ik" /\ lost THEN {4} ELSE {}
  BY <1>6, <1>7, <1>8 DEF Positions1
<1>10. Count(q, D) = IF kind = "ik" /\ lost THEN 1 ELSE 0
  BY <1>9, FS_EmptySet, FS_Singleton DEF Count
<1> QED BY <1>6, <1>10 DEF q, x, y, z, u, D, R, lost

\* What is said of several reports is what each says.
LEMMA CountFour ==
  ASSUME NEW S, NEW a \in Seq(S), NEW b \in Seq(S), NEW c \in Seq(S), NEW d \in Seq(S), NEW x
  PROVE  /\ a \o b \o c \o d \in Seq(S)
         /\ Count(a \o b \o c \o d, x) = Count(a, x) + Count(b, x) + Count(c, x) + Count(d, x)
         /\ Count(a, x) \in Nat /\ Count(b, x) \in Nat /\ Count(c, x) \in Nat /\ Count(d, x) \in Nat
<1> DEFINE ab == a \o b
           abc == ab \o c
<1>1. ab \in Seq(S) /\ Count(ab, x) = Count(a, x) + Count(b, x) /\ Count(a, x) \in Nat
  BY CountConcat
<1> HIDE DEF ab
<1>2. abc \in Seq(S) /\ Count(abc, x) = Count(ab, x) + Count(c, x)
  BY <1>1, CountConcat
<1> HIDE DEF abc
<1>3. abc \o d \in Seq(S) /\ Count(abc \o d, x) = Count(abc, x) + Count(d, x)
  BY <1>2, CountConcat
<1>4. Count(b, x) \in Nat /\ Count(c, x) \in Nat /\ Count(d, x) \in Nat
  BY CountType
<1> QED BY <1>1, <1>2, <1>3, <1>4 DEF abc, ab

\* What is reported of the names of a document's tracks of a kind.
SaidOf(d, kind) ==
  ReportedIn(Sorted(Tracks(Records(d, kind))), TableOf(kind), WidthOf(kind), kind, Unmatched(kind))

LEMMA SaidCount ==
  ASSUME NEW d, IsDoc(d), NEW kind \in NamedKinds
  PROVE  /\ SaidOf(d, kind) \in Seq(Reports(BindCodes, NamedKinds))
         /\ \A c, o : o # kind => Count(SaidOf(d, kind), <<c, o>>) = 0
         /\ Count(SaidOf(d, kind), <<Unmatched(kind), kind>>)
              = Cardinality(Nothing(NamesIn(Records(d, kind)), TableOf(kind), WidthOf(kind)))
         /\ Count(SaidOf(d, kind), <<"MOTION_AMBIGUOUS_NAME", kind>>)
              = Cardinality(Several(NamesIn(Records(d, kind)), TableOf(kind), WidthOf(kind)))
<1>1. Records(d, kind) \in KeyLists
  <2>1. kind \in Kinds
    BY SectionNames DEF NamedKinds
  <2> QED BY <2>1, RecordsAre, KeysOfKind
<1>2. TableOf(kind) \in Tables /\ WidthOf(kind) \in Nat
  BY TableOfKind
<1> DEFINE rs == Records(d, kind)
           T == TableOf(kind)
           W == WidthOf(kind)
<1> HIDE DEF rs, T, W
<1>3. rs \in KeyLists /\ T \in Tables /\ W \in Nat /\ SaidOf(d, kind) = ReportedIn(Sorted(Tracks(rs)), T, W, kind, Unmatched(kind))
  BY <1>1, <1>2 DEF SaidOf, rs, T, W
<1>4. LET q == ReportedIn(Sorted(Tracks(rs)), T, W, kind, Unmatched(kind)) IN
         /\ q \in Seq(Reports(BindCodes, NamedKinds))
         /\ \A c, o : o # kind => Count(q, <<c, o>>) = 0
         /\ Count(q, <<Unmatched(kind), kind>>) = Cardinality(Nothing(NamesIn(rs), T, W))
         /\ Count(q, <<"MOTION_AMBIGUOUS_NAME", kind>>) = Cardinality(Several(NamesIn(rs), T, W))
  BY <1>3, ReportedCount
<1> QED BY <1>3, <1>4 DEF rs, T, W

LEMMA SaidOnly ==
  ASSUME NEW d, IsDoc(d), NEW kind \in NamedKinds, NEW c, NEW o, o # kind
  PROVE  Count(SaidOf(d, kind), <<c, o>>) = 0
<1>1. \A b, p : p # kind => Count(SaidOf(d, kind), <<b, p>>) = 0
  BY ZenonT(60), SaidCount
<1> QED BY <1>1

\* A pair of reports of this code speaks of no other.
LEMMA UnencodableCount ==
  ASSUME NEW c, c # "MOTION_UNENCODABLE_NAME", NEW kind
  PROVE  LET q == <<ReportUnencodable(Bones, "bones"), ReportUnencodable(Morphs, "morphs")>>
         IN  q \in Seq(Reports(BindCodes, NamedKinds)) /\ Count(q, <<c, kind>>) = 0
<1> DEFINE x == ReportUnencodable(Bones, "bones")
           y == ReportUnencodable(Morphs, "morphs")
           A == <<"MOTION_UNENCODABLE_NAME", "bones">>
           B == <<"MOTION_UNENCODABLE_NAME", "morphs">>
           R == Reports(BindCodes, NamedKinds)
           q == <<x, y>>
           D == <<c, kind>>
<1>1. x \in {A, Silence} /\ y \in {B, Silence}
  BY DEF ReportUnencodable
<1>2. A \in R /\ B \in R /\ Silence \in R
  BY DEF Reports, BindCodes, NamedKinds
<1>3. A # D /\ B # D /\ Silence # D
  BY DEF Silence
<1> HIDE DEF A, B, R, D, x, y
<1>4. q \in Seq(R) /\ Len(q) = 2 /\ q[1] = x /\ q[2] = y
  BY <1>1, <1>2
<1> HIDE DEF q
<1>5. 1..Len(q) = {1, 2}
  BY <1>4
<1>6. Positions1(q, D) = {}
  BY <1>1, <1>3, <1>4, <1>5 DEF Positions1
<1> QED BY <1>4, <1>6, FS_EmptySet DEF Count, q, x, y, R, D

\* The names that mean nothing, or several elements, are each told once.
LEMMA UnboundCount ==
  ASSUME IsDoc(doc), NEW kind \in NamedKinds
  PROVE  /\ CountOf(bound.list, Unmatched(kind), kind)
              = Cardinality(Nothing(NamesIn(Records(doc, kind)), TableOf(kind), WidthOf(kind)))
         /\ CountOf(bound.list, "MOTION_AMBIGUOUS_NAME", kind)
              = Cardinality(Several(NamesIn(Records(doc, kind)), TableOf(kind), WidthOf(kind)))
<1> DEFINE R == Reports(BindCodes, NamedKinds)
           a == <<ReportUnencodable(Bones, "bones"), ReportUnencodable(Morphs, "morphs")>>
           b == SaidOf(doc, "bones")
           m == SaidOf(doc, "morphs")
           i == SaidOf(doc, "ik")
           q == a \o b \o m \o i
<1>1. ReportedOf(motion) = q
  <2>1. /\ motion.bones = Sorted(Tracks(doc.bones)) /\ motion.morphs = Sorted(Tracks(doc.morphs))
        /\ motion.ik = Sorted(Tracks(States(doc.ik)))
    BY BuildIs DEF motion
  <2>2. Records(doc, "bones") = doc.bones /\ Records(doc, "morphs") = doc.morphs /\ Records(doc, "ik") = States(doc.ik)
    BY DEF Records
  <2>3. /\ TableOf("bones") = Bones /\ TableOf("morphs") = Morphs /\ TableOf("ik") = Bones
        /\ WidthOf("bones") = BoneField /\ WidthOf("morphs") = BoneField /\ WidthOf("ik") = IkField
        /\ Unmatched("bones") = "MOTION_UNMATCHED_BONE" /\ Unmatched("ik") = "MOTION_UNMATCHED_BONE"
        /\ Unmatched("morphs") = "MOTION_UNMATCHED_MORPH"
    BY DEF TableOf, WidthOf, Unmatched
  <2> QED BY <2>1, <2>2, <2>3 DEF ReportedOf, SaidOf
<1>2. bound.list = Taken(AddedAll(q))
  BY <1>1 DEF bound, Bind
<1>3. "bones" \in NamedKinds /\ "morphs" \in NamedKinds /\ "ik" \in NamedKinds
  BY DEF NamedKinds
<1>4. \A c : c # "MOTION_UNENCODABLE_NAME" => a \in Seq(R) /\ Count(a, <<c, kind>>) = 0
  <2> SUFFICES ASSUME NEW c, c # "MOTION_UNENCODABLE_NAME" PROVE a \in Seq(R) /\ Count(a, <<c, kind>>) = 0
    OBVIOUS
  <2> QED BY UnencodableCount
<1>5. b \in Seq(R) /\ m \in Seq(R) /\ i \in Seq(R)
  BY <1>3, SaidCount
<1>6. ASSUME NEW c \in {Unmatched(kind), "MOTION_AMBIGUOUS_NAME"}
      PROVE  CountOf(bound.list, c, kind) = Count(SaidOf(doc, kind), <<c, kind>>)
  <2> DEFINE D == <<c, kind>>
  <2>1. a \in Seq(R) /\ Count(a, D) = 0
    BY <1>4 DEF Unmatched
  <2>2. /\ kind # "bones" => Count(b, D) = 0
        /\ kind # "morphs" => Count(m, D) = 0
        /\ kind # "ik" => Count(i, D) = 0
    <3>1. ASSUME NEW o \in NamedKinds, kind # o PROVE Count(SaidOf(doc, o), D) = 0
      BY <3>1, SaidOnly
    <3> QED BY <1>3, <3>1
  <2> HIDE DEF a, b, m, i, R
  <2>3. /\ q \in Seq(R) /\ Count(q, D) = Count(a, D) + Count(b, D) + Count(m, D) + Count(i, D)
        /\ Count(b, D) \in Nat /\ Count(m, D) \in Nat /\ Count(i, D) \in Nat
    BY <1>5, <2>1, CountFour
  <2> HIDE DEF q
  <2>4. CountOf(Taken(AddedAll(q)), c, kind) = Count(q, D)
    BY <2>3, AddedAllTells DEF R
  <2> HIDE DEF D
  <2>5. CASE kind = "bones"
    <3>1. Count(q, D) = Count(b, D)
      BY <2>1, <2>2, <2>3, <2>5
    <3> QED BY <1>2, <2>4, <2>5, <3>1 DEF b, D
  <2>6. CASE kind = "morphs"
    <3>1. Count(q, D) = Count(m, D)
      BY <2>1, <2>2, <2>3, <2>6
    <3> QED BY <1>2, <2>4, <2>6, <3>1 DEF m, D
  <2>7. CASE kind = "ik"
    <3>1. Count(q, D) = Count(i, D)
      BY <2>1, <2>2, <2>3, <2>7
    <3> QED BY <1>2, <2>4, <2>7, <3>1 DEF i, D
  <2> QED BY <2>5, <2>6, <2>7 DEF NamedKinds
<1> QED BY <1>6, SaidCount

-----------------------------------------------------------------------------
(* What is reported of the frames of a document *)

LostOf(d, kind) == DuplicatesIn(kind, Tracks(Records(d, kind)))

LEMMA ReportsWiden ==
  ASSUME NEW C, NEW P, NEW Q, P \subseteq Q, NEW q \in Seq(Reports(C, P))
  PROVE  q \in Seq(Reports(C, Q))
<1>1. Reports(C, P) \subseteq Reports(C, Q)
  BY DEF Reports
<1> QED BY <1>1

LEMMA LostCount ==
  ASSUME NEW d, IsDoc(d), NEW kind \in NamedKinds, Rises(Records(d, kind))
  PROVE  /\ LostOf(d, kind) \in Seq(Reports({Dup}, Kinds))
         /\ \A o : o # kind => Count(LostOf(d, kind), <<Dup, o>>) = 0
         /\ Count(LostOf(d, kind), <<Dup, kind>>) = Cardinality(Twice(Members(Records(d, kind))))
<1> DEFINE rs == Records(d, kind)
           q == DuplicatesIn(kind, Tracks(rs))
<1>1. rs \in KeyLists /\ NamedKinds \subseteq Kinds
  <2>1. NamedKinds \subseteq Kinds
    BY SectionNames DEF NamedKinds
  <2> QED BY <2>1, RecordsAre, KeysOfKind
<1>2. Rises(rs)
  OBVIOUS
<1> HIDE DEF rs
<1>3. /\ q \in Seq(Reports({Dup}, NamedKinds))
      /\ \A o : o # kind => Count(q, <<Dup, o>>) = 0
      /\ Count(q, <<Dup, kind>>) = Cardinality(Twice(Members(rs)))
  BY <1>1, <1>2, DuplicatesCount
<1> HIDE DEF q
<1>4. q \in Seq(Reports({Dup}, Kinds))
  BY <1>1, <1>3, ReportsWiden
<1> QED BY <1>3, <1>4 DEF LostOf, q, rs

\* The names with a frame written twice, and what the stage shows, are each
\* told once.
LEMMA DoubledCount ==
  ASSUME IsDoc(doc), RankedIn(doc, keys), NEW kind \in NamedKinds
  PROVE  CountOf(motion.list, Dup, kind)
           = Cardinality(Twice(Members(Records(doc, kind))))
             + IF kind = "ik" /\ Clash(Members(Records(doc, "visibility"))) THEN 1 ELSE 0
<1> DEFINE R == Reports({Dup}, Kinds)
           v == Visibility(doc.ik)
           b == LostOf(doc, "bones")
           m == LostOf(doc, "morphs")
           s == <<ReportDuplicates(doc.cameras, "cameras"), ReportDuplicates(doc.lights, "lights"),
                  ReportDuplicates(doc.shadows, "shadows"), ReportDuplicates(v, "ik")>>
           i == LostOf(doc, "ik")
           q == b \o m \o s \o i
           D == <<Dup, kind>>
           one == IF kind = "ik" /\ Len(SortAndDeduplicate(v)) < Len(v) THEN 1 ELSE 0
<1>1. DuplicatesOf(doc) = q
  <2>1. Records(doc, "bones") = doc.bones /\ Records(doc, "morphs") = doc.morphs /\ Records(doc, "ik") = States(doc.ik)
    BY DEF Records
  <2> QED BY <2>1 DEF DuplicatesOf, LostOf
<1>2. motion.list = Taken(AddedAll(q))
  BY <1>1 DEF motion, BuildMotion
<1>3. "bones" \in NamedKinds /\ "morphs" \in NamedKinds /\ "ik" \in NamedKinds /\ NamedKinds \subseteq Kinds /\ "visibility" \in Kinds
  BY SectionNames DEF NamedKinds
<1>4. \A o \in Kinds : Rises(Records(doc, o))
  BY DEF RankedIn
<1>5. b \in Seq(R) /\ m \in Seq(R) /\ i \in Seq(R)
  BY <1>3, <1>4, LostCount
<1>6. s \in Seq(R) /\ Count(s, D) = one
  BY StageCount
<1>7. /\ kind # "bones" => Count(b, D) = 0
      /\ kind # "morphs" => Count(m, D) = 0
      /\ kind # "ik" => Count(i, D) = 0
  BY <1>3, <1>4, LostCount
<1>8. one = IF kind = "ik" /\ Clash(Members(v)) THEN 1 ELSE 0
  <2>1. v = Records(doc, "visibility")
    BY DEF Records
  <2>2. v \in KeyLists
    BY <1>3, <2>1, RecordsAre, KeysOfKind
  <2>3. Rises(v)
    BY <1>3, <1>4, <2>1
  <2> HIDE DEF v
  <2>4. Len(SortAndDeduplicate(v)) < Len(v) <=> Clash(Members(v))
    BY <2>2, <2>3, LostKeys
  <2> QED BY <2>4
<1>9. v = Records(doc, "visibility")
  BY DEF Records
<1> HIDE DEF R, b, m, s, i, one, v
<1>10. /\ q \in Seq(R) /\ Count(q, D) = Count(b, D) + Count(m, D) + Count(s, D) + Count(i, D)
       /\ Count(b, D) \in Nat /\ Count(m, D) \in Nat /\ Count(i, D) \in Nat
  BY <1>5, <1>6, CountFour
<1> HIDE DEF q
<1>11. CountOf(motion.list, Dup, kind) = Count(q, D)
  <2>1. CountOf(Taken(AddedAll(q)), Dup, kind) = Count(q, D)
    BY <1>10, AddedAllTells DEF R
  <2> QED BY <1>2, <2>1
<1>12. one \in Nat
  BY <1>8
<1>13. Count(q, D) = Count(LostOf(doc, kind), D) + one
  <2> HIDE DEF D
  <2>1. CASE kind = "bones"
    <3>1. Count(q, D) = Count(b, D) + one
      BY <1>6, <1>7, <1>10, <1>12, <2>1
    <3> QED BY <2>1, <3>1 DEF b
  <2>2. CASE kind = "morphs"
    <3>1. Count(q, D) = Count(m, D) + one
      BY <1>6, <1>7, <1>10, <1>12, <2>2
    <3> QED BY <2>2, <3>1 DEF m
  <2>3. CASE kind = "ik"
    <3>1. Count(q, D) = Count(i, D) + one
      BY <1>6, <1>7, <1>10, <1>12, <2>3
    <3> QED BY <2>3, <3>1 DEF i
  <2> QED BY <2>1, <2>2, <2>3 DEF NamedKinds
<1>14. Count(LostOf(doc, kind), D) = Cardinality(Twice(Members(Records(doc, kind))))
  BY <1>3, <1>4, LostCount
<1> QED BY <1>8, <1>9, <1>11, <1>13, <1>14

-----------------------------------------------------------------------------
(* What is dropped is reported *)

LEMMA DroppedAre == SampleInv => WhatIsDroppedIsReported
<1> SUFFICES ASSUME SampleInv PROVE WhatIsDroppedIsReported
  OBVIOUS
<1>1. IsDoc(doc) /\ keys \in KeyLists /\ RankedIn(doc, keys)
  BY DEF SampleInv, Reading
<1>2. DOMAIN BoundTracks = NamedKinds
  BY DEF BoundTracks, NamedIn, NamedKinds
<1>3. ASSUME NEW kind \in NamedKinds PROVE Ascends(BoundTracks[kind])
  <2> DEFINE rs == Records(doc, kind)
             T == TableOf(kind)
             W == WidthOf(kind)
  <2>1. rs \in KeyLists
    <3>1. kind \in Kinds
      BY SectionNames DEF NamedKinds
    <3> QED BY <1>1, <3>1, RecordsAre, KeysOfKind
  <2>2. T \in Tables /\ W \in Nat
    BY TableOfKind
  <2>3. BoundTracks[kind] = Bound(Sorted(Tracks(rs)), T, W)
    BY BoundTracksAre
  <2> HIDE DEF rs, T, W
  <2> QED BY <2>1, <2>2, <2>3, BoundIs
<1>4. ASSUME NEW kind \in NamedKinds
      PROVE  LET mine == {k \in Range(keys) : k.kind = kind}
                 names == {k.name : k \in mine}
                 twice == {n \in names : \E k, l \in mine :
                             k.name = n /\ l.name = n /\ k.frame = l.frame /\ k.value # l.value}
                 shown == {k \in Range(keys) : k.kind = "visibility"}
                 stage == IF kind = "ik" /\ \E k, l \in shown : k.frame = l.frame /\ k.value # l.value
                          THEN 1 ELSE 0
                 Of(n) == ByName([kind |-> kind, name |-> n], Means)
                 unmatched == IF kind = "morphs" THEN "MOTION_UNMATCHED_MORPH" ELSE "MOTION_UNMATCHED_BONE"
             IN  /\ CountOf(bound.list, unmatched, kind) = Cardinality({n \in names : Of(n) = {}})
                 /\ CountOf(bound.list, "MOTION_AMBIGUOUS_NAME", kind)
                      = Cardinality({n \in names : Cardinality(Of(n)) > 1})
                 /\ CountOf(motion.list, "MOTION_DUPLICATE_KEYFRAME", kind) = Cardinality(twice) + stage
  <2> DEFINE mine == {k \in Range(keys) : k.kind = kind}
             names == {k.name : k \in mine}
             twice == {n \in names : \E k, l \in mine :
                         k.name = n /\ l.name = n /\ k.frame = l.frame /\ k.value # l.value}
             shown == {k \in Range(keys) : k.kind = "visibility"}
             stage == IF kind = "ik" /\ \E k, l \in shown : k.frame = l.frame /\ k.value # l.value
                      THEN 1 ELSE 0
             Of(n) == ByName([kind |-> kind, name |-> n], Means)
             unmatched == IF kind = "morphs" THEN "MOTION_UNMATCHED_MORPH" ELSE "MOTION_UNMATCHED_BONE"
             M == Members(Records(doc, kind))
             N == NamesIn(Records(doc, kind))
             T == TableOf(kind)
             W == WidthOf(kind)
  <2>1. kind \in Kinds /\ "visibility" \in Kinds
    BY SectionNames DEF NamedKinds
  <2>2. Range(keys) = Members(keys)
    BY <1>1, KeysOfList DEF Range, Members
  <2>3. M = mine /\ Members(Records(doc, "visibility")) = shown
    BY <1>1, <2>1, <2>2 DEF RankedIn, OfKind
  <2>4. N = names
    BY <2>3, NamesAre
  <2>5. \A n : Of(n) = Means(T, W, n)
    <3> SUFFICES ASSUME NEW n PROVE Of(n) = Means(T, W, n)
      OBVIOUS
    <3> DEFINE k == [kind |-> kind, name |-> n]
    <3>1. k.kind = kind /\ k.name = n
      OBVIOUS
    <3> HIDE DEF k
    <3>2. ByName(k, Means) = Means(T, W, n)
      <4>1. CASE kind = "bones"
        BY <3>1, <4>1 DEF ByName, TableOf, WidthOf
      <4>2. CASE kind = "morphs"
        BY <3>1, <4>2 DEF ByName, TableOf, WidthOf
      <4>3. CASE kind = "ik"
        BY <3>1, <4>3 DEF ByName, TableOf, WidthOf
      <4> QED BY <4>1, <4>2, <4>3 DEF NamedKinds
    <3> QED BY <3>2 DEF k
  <2>6. unmatched = Unmatched(kind)
    BY DEF Unmatched
  <2>7. Twice(M) = twice
    BY <2>3 DEF Twice, Clash
  <2>8. stage = IF kind = "ik" /\ Clash(Members(Records(doc, "visibility"))) THEN 1 ELSE 0
    BY <2>3 DEF Clash
  <2>9. CountOf(motion.list, Dup, kind)
          = Cardinality(Twice(M)) + IF kind = "ik" /\ Clash(Members(Records(doc, "visibility"))) THEN 1 ELSE 0
    BY <1>1, DoubledCount
  <2>10. /\ CountOf(bound.list, Unmatched(kind), kind) = Cardinality(Nothing(N, T, W))
         /\ CountOf(bound.list, "MOTION_AMBIGUOUS_NAME", kind) = Cardinality(Several(N, T, W))
    BY <1>1, UnboundCount
  <2> HIDE DEF M, N, T, W, mine, names, twice, shown, stage, Of, unmatched
  <2>11. Nothing(N, T, W) = {n \in names : Of(n) = {}} /\ Several(N, T, W) = {n \in names : Cardinality(Of(n)) > 1}
    BY <2>4, <2>5 DEF Nothing, Several
  <2>12. CountOf(bound.list, unmatched, kind) = Cardinality({n \in names : Of(n) = {}})
    BY <2>6, <2>10, <2>11
  <2>13. CountOf(bound.list, "MOTION_AMBIGUOUS_NAME", kind) = Cardinality({n \in names : Cardinality(Of(n)) > 1})
    BY <2>10, <2>11
  <2>14. CountOf(motion.list, "MOTION_DUPLICATE_KEYFRAME", kind) = Cardinality(twice) + stage
    BY <2>7, <2>8, <2>9 DEF Dup
  <2> QED BY <2>12, <2>13, <2>14 DEF mine, names, twice, shown, stage, Of, unmatched
<1> QED BY <1>2, <1>3, <1>4 DEF WhatIsDroppedIsReported, NamedKinds

\* No key is dropped in silence: a name that means nothing, a name that means
\* several elements and a frame written twice are told once per name, whatever
\* the limit of the list, and no element has two tracks.
THEOREM DroppedKeysAreReported == ImportSpec => []WhatIsDroppedIsReported
BY SampleInvHolds, DroppedAre, PTL
===============================================================================
