----------------------------- MODULE DataProofs -----------------------------
(***************************************************************************)
(* Lemmas about the data that the components pass around, for the proofs   *)
(* of the modules that use them.                                           *)
(*   - Places and lists: what goes from each place of a list to the next   *)
(*     goes for all of them, and a function given place by place exists    *)
(*     (Ladder, Iteration); what each of the three list operations of the  *)
(*     C code does to the sequence that the list spells.  S is the set of  *)
(*     nodes; next is the table of next fields before the operation, nx    *)
(*     after it.                                                           *)
(*   - Modbus frames: the CRC is the one of the standard (CrcAsReference), *)
(*     every frame that is made is sound (FramesSound) and survives its    *)
(*     way through text (TextAndBack).                                     *)
(*   - cJSON: whichever allocation fails, parsing, building and printing   *)
(*     own exactly the blocks that are live (ParseOwns, AddObjectBuilds,   *)
(*     PrintIs), printing stays within its buffer and writes what the      *)
(*     items say, and the items of a text say what the text says           *)
(*     (ParseTells), also to those who look for a name (LookUp).           *)
(***************************************************************************)
EXTENDS LinkedList, Frames, Cjson, SequenceTheorems, FiniteSetTheorems, WellFoundedInduction, TLAPS

-----------------------------------------------------------------------------
(* Places.                                                                 *)

\* The least of a set of places.
LEMMA MinProperties ==
  ASSUME NEW n \in Nat, NEW S, S \subseteq 0 .. n, S # {}
  PROVE  Min(S) \in S /\ \A y \in S : Min(S) <= y
<1> DEFINE Smaller(x) == {y \in S : y < x}
           T == {Smaller(x) : x \in S}
<1>1. IsFiniteSet(S)
  <2>1. IsFiniteSet(0 .. n)
    BY FS_Interval
  <2> QED BY <2>1, FS_Subset
<1>2. T \subseteq SUBSET S /\ T # {}
  OBVIOUS
<1>3. PICK B \in T : \A C \in T : ~ (<<C, B>> \in StrictSubsetOrdering(S))
  <2>1. IsWellFoundedOn(StrictSubsetOrdering(S), SUBSET S)
    BY <1>1, FS_StrictSubsetOrderingWellFounded, FS_FiniteSubsetsOfFinite
  <2> QED BY <2>1, <1>2, WFMin
<1>4. PICK x \in S : B = Smaller(x)
  OBVIOUS
<1>5. \A y \in S : x <= y
  <2> SUFFICES ASSUME NEW y \in S, y < x PROVE FALSE
    OBVIOUS
  <2>0. \A z \in S : z \in Int
    OBVIOUS
  <2>1. y \in Smaller(x) /\ y \notin Smaller(y)
    BY <2>0
  <2>3. \A z \in Smaller(y) : z \in Smaller(x)
    <3> SUFFICES ASSUME NEW z \in S, z < y PROVE z < x
      OBVIOUS
    <3> QED BY <2>0
  <2>2. <<Smaller(y), B>> \in StrictSubsetOrdering(S)
    BY <1>4, <2>1, <2>3 DEF StrictSubsetOrdering
  <2> QED BY <1>3, <2>2
<1> QED BY <1>5 DEF Min

\* What goes from each place to the next goes for all.
LEMMA Ladder ==
  ASSUME NEW n \in Nat, NEW P, 0 \in P, \A i \in 1 .. n : i - 1 \in P => i \in P
  PROVE  \A i \in 0 .. n : i \in P
<1> DEFINE S == {i \in 0 .. n : i \notin P}
<1> SUFFICES ASSUME S # {} PROVE FALSE
  OBVIOUS
<1>1. Min(S) \in S /\ \A y \in S : Min(S) <= y
  <2>1. S \subseteq 0 .. n
    OBVIOUS
  <2> HIDE DEF S
  <2> QED BY <2>1, MinProperties
<1>2. Min(S) \in 1 .. n /\ Min(S) \notin P
  BY <1>1
<1>3. Min(S) - 1 \in 0 .. n /\ ~ (Min(S) <= Min(S) - 1)
  BY <1>2
<1>4. Min(S) - 1 \in P
  BY <1>1, <1>3
<1> QED BY <1>2, <1>4

\* A value at every place, each from the one before it: there is such a function.
Iterates(n, D, base, step) ==
  \E f \in [0 .. n -> D] : f[0] = base /\ \A i \in 1 .. n : f[i] = step[i][f[i - 1]]

LEMMA Iteration ==
  ASSUME NEW n \in Nat, NEW D, NEW base \in D, NEW step \in [1 .. n -> [D -> D]]
  PROVE  Iterates(n, D, base, step)
<1> DEFINE Good(f, k) == f[0] = base /\ \A i \in 1 .. k : f[i] = step[i][f[i - 1]]
           P == {k \in 0 .. n : \E f \in [0 .. k -> D] : Good(f, k)}
<1>1. 0 \in P
  <2> DEFINE g == [i \in 0 .. 0 |-> base]
  <2>1. g \in [0 .. 0 -> D] /\ g[0] = base /\ 1 .. 0 = {}
    OBVIOUS
  <2> HIDE DEF g
  <2>2. \E f \in [0 .. 0 -> D] : Good(f, 0)
    BY <2>1
  <2>3. 0 \in 0 .. n
    OBVIOUS
  <2> HIDE DEF Good
  <2> QED BY <2>2, <2>3
<1>2. ASSUME NEW k \in 1 .. n, k - 1 \in P PROVE k \in P
  <2>1. PICK f \in [0 .. k - 1 -> D] : Good(f, k - 1)
    BY <1>2
  <2> DEFINE g == [i \in 0 .. k |-> IF i = k THEN step[k][f[k - 1]] ELSE f[i]]
  <2>2. f[k - 1] \in D
    <3>1. k - 1 \in 0 .. k - 1
      OBVIOUS
    <3> QED BY <3>1
  <2>3. step[k][f[k - 1]] \in D
    BY <2>2
  <2>4. ASSUME NEW i \in 0 .. k, i # k PROVE f[i] \in D
    <3>1. i \in 0 .. k - 1
      BY <2>4
    <3> QED BY <3>1
  <2>5. g \in [0 .. k -> D]
    BY <2>3, <2>4
  <2>6. g[0] = base
    BY <2>1
  <2>7. ASSUME NEW i \in 1 .. k PROVE g[i] = step[i][g[i - 1]]
    <3>1. CASE i = k
      <4>1. i - 1 # k /\ i - 1 \in 0 .. k
        BY <3>1
      <4> QED BY <3>1, <4>1
    <3>2. CASE i # k
      <4>1. i \in 1 .. k - 1 /\ i - 1 \in 0 .. k /\ i - 1 # k /\ i \in 0 .. k
        BY <3>2
      <4>2. f[i] = step[i][f[i - 1]]
        BY <2>1, <4>1
      <4> QED BY <3>2, <4>1, <4>2
    <3> QED BY <3>1, <3>2
  <2> HIDE DEF g
  <2>8. \E h \in [0 .. k -> D] : Good(h, k)
    BY <2>5, <2>6, <2>7
  <2>9. k \in 0 .. n
    OBVIOUS
  <2> HIDE DEF Good
  <2> QED BY <2>8, <2>9
<1> HIDE DEF P
<1>3. \A i \in 0 .. n : i \in P
  BY <1>1, <1>2, Ladder
<1>4. n \in P
  BY <1>3
<1> QED BY <1>4 DEF P, Iterates

-----------------------------------------------------------------------------
(* Linked lists.                                                           *)

\* In a spelled list either pointer is NULL exactly when the list is empty.
LEMMA EmptyList ==
  ASSUME NEW S, NEW NULL, NULL \notin S, NEW order \in Seq(S),
         NEW head, NEW tail, NEW next, Spells(order, head, tail, next, NULL)
  PROVE  /\ head = NULL <=> order = <<>>
         /\ tail = NULL <=> order = <<>>
         /\ order # <<>> => Len(order) \in Nat \ {0} /\ head \in Range(order) /\ tail \in Range(order)
<1>1. CASE order = <<>>
  BY <1>1 DEF Spells
<1>2. CASE order # <<>>
  <2>1. Len(order) \in Nat \ {0} /\ DOMAIN order = 1 .. Len(order)
    BY <1>2
  <2>2. order[1] \in S /\ order[Len(order)] \in S
    BY <2>1
  <2>3. head = order[1] /\ tail = order[Len(order)]
    BY <1>2 DEF Spells
  <2>4. 1 \in DOMAIN order /\ Len(order) \in DOMAIN order
    BY <2>1
  <2> QED BY <1>2, <2>1, <2>2, <2>3, <2>4 DEF Range
<1> QED BY <1>1, <1>2

\* Writing next fields of nodes outside the list does not touch it.
LEMMA OtherNext ==
  ASSUME NEW S, NEW NULL, NEW order \in Seq(S), NEW head, NEW tail, NEW next, NEW nx,
         Spells(order, head, tail, next, NULL),
         \A m \in Range(order) : nx[m] = next[m]
  PROVE  Spells(order, head, tail, nx, NULL)
BY DEF Spells, Range

\* wsclient.c:90-95: a node that is not in the list becomes its first.
LEMMA PushFront ==
  ASSUME NEW S, NEW NULL, NULL \notin S, NEW order \in Seq(S),
         NEW head, NEW tail, NEW next, Spells(order, head, tail, next, NULL),
         NEW n \in S, n \notin Range(order),
         NEW nx, nx[n] = head, \A m \in Range(order) : nx[m] = next[m]
  PROVE  /\ <<n>> \o order \in Seq(S)
         /\ <<n>> \o order # <<>>
         /\ Range(<<n>> \o order) = Range(order) \cup {n}
         /\ Spells(<<n>> \o order, n, IF head = NULL THEN n ELSE tail, nx, NULL)
<1> DEFINE o == <<n>> \o order
<1>1. /\ o \in Seq(S)
      /\ Len(o) = Len(order) + 1
      /\ o[1] = n
      /\ \A i \in 1 .. Len(order) : o[i + 1] = order[i]
  OBVIOUS
<1>2. /\ Len(order) \in Nat
      /\ DOMAIN order = 1 .. Len(order)
      /\ DOMAIN o = 1 .. Len(order) + 1
  BY <1>1
<1> HIDE DEF o
<1>3. \A i \in DOMAIN o : i # 1 => i - 1 \in DOMAIN order /\ o[i] = order[i - 1]
  BY <1>1, <1>2
<1>4. o # <<>>
  BY <1>1, <1>2
<1>5. Range(o) = Range(order) \cup {n}
  <2>1. ASSUME NEW i \in DOMAIN o PROVE o[i] \in Range(order) \cup {n}
    BY <1>1, <1>3 DEF Range
  <2>2. n \in Range(o)
    BY <1>1, <1>2 DEF Range
  <2>3. ASSUME NEW i \in DOMAIN order PROVE order[i] \in Range(o)
    <3>1. i + 1 \in DOMAIN o /\ o[i + 1] = order[i]
      BY <1>1, <1>2
    <3> QED BY <3>1 DEF Range
  <2> QED BY <2>1, <2>2, <2>3 DEF Range
<1>6. IsInjective(o)
  <2> SUFFICES ASSUME NEW i \in DOMAIN o, NEW j \in DOMAIN o, o[i] = o[j] PROVE i = j
    BY DEF IsInjective
  <2>1. CASE i = 1 \/ j = 1
    BY <2>1, <1>1, <1>3 DEF Range
  <2>2. CASE i # 1 /\ j # 1
    <3>1. order[i - 1] = order[j - 1] /\ i - 1 \in DOMAIN order /\ j - 1 \in DOMAIN order
      BY <2>2, <1>3
    <3>2. i - 1 = j - 1
      BY <3>1 DEF Spells, IsInjective
    <3> QED BY <3>2, <1>2
  <2> QED BY <2>1, <2>2
<1>7. (IF head = NULL THEN n ELSE tail) = o[Len(o)]
  <2>1. CASE order = <<>>
    <3>1. head = NULL /\ Len(o) = 1
      BY <2>1, <1>1 DEF Spells
    <3> QED BY <3>1, <1>1
  <2>2. CASE order # <<>>
    <3>1. Len(order) \in 1 .. Len(order)
      BY <2>2, EmptyList
    <3>2. o[Len(order) + 1] = order[Len(order)]
      BY <3>1, <1>1
    <3>3. head # NULL /\ tail = order[Len(order)]
      BY <2>2, EmptyList DEF Spells
    <3> QED BY <3>2, <3>3, <1>1
  <2> QED BY <2>1, <2>2
<1>8. ASSUME NEW i \in DOMAIN o
      PROVE  nx[o[i]] = IF i = Len(o) THEN NULL ELSE o[i + 1]
  <2>1. CASE i = 1
    <3>1. CASE order = <<>>
      <4>1. head = NULL /\ Len(o) = 1
        BY <3>1, <1>1 DEF Spells
      <4> QED BY <4>1, <2>1, <1>1
    <3>2. CASE order # <<>>
      <4>1. 1 \in 1 .. Len(order) /\ Len(o) # 1
        BY <3>2, <1>1, EmptyList
      <4>2. o[1 + 1] = order[1] /\ head = order[1]
        BY <4>1, <1>1, <3>2 DEF Spells
      <4> QED BY <4>1, <4>2, <2>1, <1>1
    <3> QED BY <3>1, <3>2
  <2>2. CASE i # 1
    <3>1. i - 1 \in DOMAIN order /\ o[i] = order[i - 1]
      BY <2>2, <1>3
    <3>2. nx[o[i]] = next[order[i - 1]]
      BY <3>1 DEF Range
    <3>3. next[order[i - 1]] = IF i - 1 = Len(order) THEN NULL ELSE order[i - 1 + 1]
      BY <3>1 DEF Spells
    <3>4. CASE i = Len(o)
      BY <3>2, <3>3, <3>4, <1>1, <1>2
    <3>5. CASE i # Len(o)
      <4>1. i + 1 \in DOMAIN o /\ i + 1 # 1 /\ i - 1 # Len(order)
        BY <3>5, <1>1, <1>2
      <4>2. o[i + 1] = order[i + 1 - 1] /\ i + 1 - 1 = i /\ i - 1 + 1 = i
        BY <4>1, <1>2, <1>3
      <4> QED BY <3>2, <3>3, <3>5, <4>1, <4>2
    <3> QED BY <3>4, <3>5
  <2> QED BY <2>1, <2>2
<1>9. Spells(o, n, IF head = NULL THEN n ELSE tail, nx, NULL)
  BY <1>1, <1>4, <1>6, <1>7, <1>8 DEF Spells
<1> QED BY <1>1, <1>4, <1>5, <1>9 DEF o

\* wsclient.c:97-109 and mqtt.c:90-99: a node that is not in the list becomes
\* its last.
LEMMA PushBack ==
  ASSUME NEW S, NEW NULL, NULL \notin S, NEW order \in Seq(S),
         NEW head, NEW tail, NEW next, Spells(order, head, tail, next, NULL),
         NEW n \in S, n \notin Range(order),
         NEW nx, nx[n] = NULL, tail # NULL => nx[tail] = n,
         \A m \in Range(order) : m # tail => nx[m] = next[m]
  PROVE  /\ Append(order, n) \in Seq(S)
         /\ Append(order, n) # <<>>
         /\ Range(Append(order, n)) = Range(order) \cup {n}
         /\ Spells(Append(order, n), IF head = NULL THEN n ELSE head, n, nx, NULL)
<1> DEFINE o == Append(order, n)
<1>1. /\ o \in Seq(S)
      /\ Len(o) = Len(order) + 1
      /\ o[Len(order) + 1] = n
      /\ \A i \in 1 .. Len(order) : o[i] = order[i]
  OBVIOUS
<1>2. /\ Len(order) \in Nat
      /\ DOMAIN order = 1 .. Len(order)
      /\ DOMAIN o = 1 .. Len(order) + 1
  BY <1>1
<1> HIDE DEF o
<1>3. \A i \in DOMAIN o : i # Len(o) => i \in DOMAIN order /\ o[i] = order[i]
  BY <1>1, <1>2
<1>4. o # <<>> /\ Len(o) \in DOMAIN o
  BY <1>1, <1>2
<1>5. Range(o) = Range(order) \cup {n}
  <2>1. ASSUME NEW i \in DOMAIN o PROVE o[i] \in Range(order) \cup {n}
    BY <1>1, <1>3 DEF Range
  <2>2. n \in Range(o)
    BY <1>1, <1>4 DEF Range
  <2>3. ASSUME NEW i \in DOMAIN order PROVE order[i] \in Range(o)
    <3>1. i \in DOMAIN o /\ o[i] = order[i]
      BY <1>1, <1>2
    <3> QED BY <3>1 DEF Range
  <2> QED BY <2>1, <2>2, <2>3 DEF Range
<1>6. IsInjective(o)
  <2> SUFFICES ASSUME NEW i \in DOMAIN o, NEW j \in DOMAIN o, o[i] = o[j] PROVE i = j
    BY DEF IsInjective
  <2>1. CASE i = Len(o) \/ j = Len(o)
    BY <2>1, <1>1, <1>3 DEF Range
  <2>2. CASE i # Len(o) /\ j # Len(o)
    BY <2>2, <1>3 DEF Spells, IsInjective
  <2> QED BY <2>1, <2>2
<1>7. (IF head = NULL THEN n ELSE head) = o[1]
  <2>1. CASE order = <<>>
    <3>1. head = NULL /\ Len(order) = 0
      BY <2>1 DEF Spells
    <3> QED BY <3>1, <1>1
  <2>2. CASE order # <<>>
    <3>1. 1 \in 1 .. Len(order)
      BY <2>2, EmptyList
    <3>2. head # NULL /\ head = order[1]
      BY <2>2, EmptyList DEF Spells
    <3> QED BY <3>1, <3>2, <1>1
  <2> QED BY <2>1, <2>2
<1>8. ASSUME NEW i \in DOMAIN o
      PROVE  nx[o[i]] = IF i = Len(o) THEN NULL ELSE o[i + 1]
  <2>1. CASE i = Len(o)
    BY <2>1, <1>1
  <2>2. CASE i # Len(o)
    <3>1. i \in DOMAIN order /\ o[i] = order[i] /\ order # <<>>
      BY <2>2, <1>2, <1>3
    <3>2. tail # NULL /\ tail = order[Len(order)] /\ Len(order) \in DOMAIN order
      BY <3>1, <1>2, EmptyList DEF Spells
    <3>3. CASE i = Len(order)
      BY <3>1, <3>2, <3>3, <1>1, <2>2
    <3>4. CASE i # Len(order)
      <4>1. order[i] # tail
        BY <3>1, <3>2, <3>4 DEF Spells, IsInjective
      <4>2. nx[order[i]] = next[order[i]]
        BY <4>1, <3>1 DEF Range
      <4>3. next[order[i]] = order[i + 1]
        BY <3>1, <3>4 DEF Spells
      <4>4. i + 1 \in 1 .. Len(order)
        BY <3>1, <3>4, <1>2
      <4> QED BY <4>2, <4>3, <4>4, <3>1, <1>1, <2>2
    <3> QED BY <3>3, <3>4
  <2> QED BY <2>1, <2>2
<1>9. Spells(o, IF head = NULL THEN n ELSE head, n, nx, NULL)
  BY <1>1, <1>4, <1>6, <1>7, <1>8 DEF Spells
<1> QED BY <1>1, <1>4, <1>5, <1>9 DEF o

\* wsclient.c:129-139 and mqtt.c:119-126: the first node of a list that is not
\* empty leaves it.
LEMMA PopFront ==
  ASSUME NEW S, NEW NULL, NULL \notin S, NEW order \in Seq(S), order # <<>>,
         NEW head, NEW tail, NEW next, Spells(order, head, tail, next, NULL)
  PROVE  /\ head = Head(order) /\ head \in Range(order) /\ head # NULL
         /\ Tail(order) \in Seq(S)
         /\ Range(Tail(order)) = Range(order) \ {head}
         /\ Spells(Tail(order),
                   IF head = tail THEN NULL ELSE next[head],
                   IF head = tail THEN NULL ELSE tail,
                   next, NULL)
<1> DEFINE o == Tail(order)
<1>1. /\ o \in Seq(S)
      /\ Len(order) \in Nat \ {0}
      /\ Len(o) = Len(order) - 1
      /\ \A i \in 1 .. Len(o) : o[i] = order[i + 1]
  OBVIOUS
<1>2. DOMAIN order = 1 .. Len(order) /\ DOMAIN o = 1 .. Len(order) - 1
  BY <1>1
<1>3. head = order[1] /\ head = Head(order) /\ head \in Range(order) /\ head # NULL
  BY EmptyList DEF Spells
<1> HIDE DEF o
<1>4. \A i \in DOMAIN o : i + 1 \in DOMAIN order /\ i + 1 # 1 /\ o[i] = order[i + 1]
  BY <1>1, <1>2
<1>5. Range(o) = Range(order) \ {head}
  <2>1. ASSUME NEW i \in DOMAIN o PROVE o[i] \in Range(order) \ {head}
    <3>1. i + 1 \in DOMAIN order /\ 1 \in DOMAIN order /\ i + 1 # 1 /\ o[i] = order[i + 1]
      BY <1>4, <1>1, <1>2
    <3>2. order[i + 1] # order[1]
      BY <3>1 DEF Spells, IsInjective
    <3> QED BY <3>1, <3>2, <1>3 DEF Range
  <2>2. ASSUME NEW i \in DOMAIN order, order[i] # head PROVE order[i] \in Range(o)
    <3>1. i # 1
      BY <2>2, <1>3
    <3>2. i - 1 \in DOMAIN o /\ i - 1 + 1 = i
      BY <3>1, <1>1, <1>2
    <3>3. o[i - 1] = order[i]
      BY <3>2, <1>4
    <3> QED BY <3>2, <3>3 DEF Range
  <2> QED BY <2>1, <2>2 DEF Range
<1>6. IsInjective(o)
  <2> SUFFICES ASSUME NEW i \in DOMAIN o, NEW j \in DOMAIN o, o[i] = o[j] PROVE i = j
    BY DEF IsInjective
  <2>1. i + 1 = j + 1
    BY <1>4 DEF Spells, IsInjective
  <2> QED BY <2>1, <1>1, <1>2
<1>7. tail = order[Len(order)]
  BY DEF Spells
<1>8. head = tail <=> Len(order) = 1
  <2>1. 1 \in DOMAIN order /\ Len(order) \in DOMAIN order
    BY <1>1, <1>2
  <2> QED BY <2>1, <1>3, <1>7 DEF Spells, IsInjective
<1>9. o = <<>> <=> Len(order) = 1
  BY <1>1
<1>10. (IF head = tail THEN NULL ELSE next[head]) = IF o = <<>> THEN NULL ELSE o[1]
  <2>1. CASE Len(order) = 1
    BY <2>1, <1>8, <1>9
  <2>2. CASE Len(order) # 1
    <3>1. 1 \in DOMAIN order /\ 1 \in DOMAIN o /\ o[1] = order[1 + 1]
      BY <2>2, <1>1, <1>2
    <3>2. next[order[1]] = order[1 + 1]
      BY <3>1, <2>2 DEF Spells
    <3> QED BY <3>1, <3>2, <2>2, <1>3, <1>8, <1>9
  <2> QED BY <2>1, <2>2
<1>11. (IF head = tail THEN NULL ELSE tail) = IF o = <<>> THEN NULL ELSE o[Len(o)]
  <2>1. CASE Len(order) = 1
    BY <2>1, <1>8, <1>9
  <2>2. CASE Len(order) # 1
    <3>1. Len(o) \in DOMAIN o /\ Len(o) + 1 = Len(order)
      BY <2>2, <1>1, <1>2
    <3>2. o[Len(o)] = order[Len(order)]
      BY <3>1, <1>4
    <3> QED BY <3>2, <2>2, <1>7, <1>8, <1>9
  <2> QED BY <2>1, <2>2
<1>12. ASSUME NEW i \in DOMAIN o
       PROVE  next[o[i]] = IF i = Len(o) THEN NULL ELSE o[i + 1]
  <2>1. i + 1 \in DOMAIN order /\ o[i] = order[i + 1]
    BY <1>4
  <2>2. next[order[i + 1]] = IF i + 1 = Len(order) THEN NULL ELSE order[i + 1 + 1]
    BY <2>1 DEF Spells
  <2>3. CASE i = Len(o)
    BY <2>1, <2>2, <2>3, <1>1
  <2>4. CASE i # Len(o)
    <3>1. i + 1 \in DOMAIN o /\ i + 1 # Len(order)
      BY <2>4, <1>1, <1>2
    <3>2. o[i + 1] = order[i + 1 + 1]
      BY <3>1, <1>4
    <3> QED BY <3>1, <3>2, <2>1, <2>2, <2>4
  <2> QED BY <2>3, <2>4
<1>13. Spells(o, IF head = tail THEN NULL ELSE next[head], IF head = tail THEN NULL ELSE tail, next, NULL)
  BY <1>6, <1>10, <1>11, <1>12 DEF Spells
<1> QED BY <1>1, <1>3, <1>5, <1>13 DEF o

-----------------------------------------------------------------------------
(* The same three operations on the texts.  S is the set of nodes, T that  *)
(* of texts.                                                               *)

\* The texts of a sequence of nodes form a sequence of the same length.
LEMMA TextsSeq ==
  ASSUME NEW S, NEW T, NEW msg, NEW s \in Seq(S), \A i \in DOMAIN s : msg[s[i]] \in T
  PROVE  /\ Texts(s, msg) \in Seq(T)
         /\ Len(Texts(s, msg)) = Len(s)
         /\ \A i \in 1 .. Len(s) : Texts(s, msg)[i] = msg[s[i]]
<1>1. DOMAIN s = 1 .. Len(s) /\ Len(s) \in Nat
  OBVIOUS
<1> QED BY <1>1 DEF Texts

LEMMA TextsPushFront ==
  ASSUME NEW S, NEW T, NEW msg, NEW s \in Seq(S), \A i \in DOMAIN s : msg[s[i]] \in T,
         NEW n \in S, msg[n] \in T
  PROVE  Texts(<<n>> \o s, msg) = <<msg[n]>> \o Texts(s, msg)
<1> DEFINE o == <<n>> \o s
           t == Texts(s, msg)
           r == <<msg[n]>> \o t
<1>1. /\ o \in Seq(S) /\ Len(o) = Len(s) + 1 /\ DOMAIN o = 1 .. Len(s) + 1 /\ Len(s) \in Nat
      /\ \A i \in 1 .. Len(s) + 1 :
           /\ o[i] = IF i = 1 THEN n ELSE s[i - 1]
           /\ i # 1 => i - 1 \in 1 .. Len(s)
  OBVIOUS
<1>2. t \in Seq(T) /\ Len(t) = Len(s) /\ \A i \in 1 .. Len(s) : t[i] = msg[s[i]]
  BY TextsSeq DEF Texts
<1> HIDE DEF o, t
<1>3. /\ r \in Seq(T) /\ Len(r) = Len(s) + 1
      /\ \A i \in 1 .. Len(s) + 1 : r[i] = IF i = 1 THEN msg[n] ELSE t[i - 1]
  BY <1>1, <1>2
<1> HIDE DEF r
<1>4. ASSUME NEW i \in DOMAIN o PROVE msg[o[i]] = r[i] /\ msg[o[i]] \in T
  <2>1. CASE i = 1
    BY <2>1, <1>1, <1>3
  <2>2. CASE i # 1
    <3>1. i - 1 \in 1 .. Len(s) /\ o[i] = s[i - 1] /\ r[i] = t[i - 1]
      BY <2>2, <1>1, <1>3
    <3>2. t[i - 1] = msg[s[i - 1]] /\ t[i - 1] \in T
      BY <3>1, <1>2
    <3> QED BY <3>1, <3>2
  <2> QED BY <2>1, <2>2
<1>5. /\ Texts(o, msg) \in Seq(T) /\ Len(Texts(o, msg)) = Len(o)
      /\ \A i \in 1 .. Len(o) : Texts(o, msg)[i] = msg[o[i]]
  BY <1>1, <1>4, TextsSeq DEF Texts
<1>6. Texts(o, msg) = r
  <2>1. \A i \in 1 .. Len(Texts(o, msg)) : Texts(o, msg)[i] = r[i]
    BY <1>1, <1>4, <1>5
  <2>2. Len(Texts(o, msg)) = Len(r)
    BY <1>1, <1>3, <1>5
  <2> QED BY <2>1, <2>2, <1>3, <1>5, SeqEqual
<1> QED BY <1>6 DEF o, t, r

LEMMA TextsPushBack ==
  ASSUME NEW S, NEW T, NEW msg, NEW s \in Seq(S), \A i \in DOMAIN s : msg[s[i]] \in T,
         NEW n \in S, msg[n] \in T
  PROVE  Texts(Append(s, n), msg) = Append(Texts(s, msg), msg[n])
<1> DEFINE o == Append(s, n)
           t == Texts(s, msg)
<1>1. /\ o \in Seq(S) /\ Len(o) = Len(s) + 1 /\ DOMAIN o = 1 .. Len(s) + 1 /\ Len(s) \in Nat
      /\ \A i \in 1 .. Len(s) + 1 :
           /\ o[i] = IF i = Len(s) + 1 THEN n ELSE s[i]
           /\ i # Len(s) + 1 => i \in 1 .. Len(s)
  OBVIOUS
<1>2. t \in Seq(T) /\ Len(t) = Len(s) /\ \A i \in 1 .. Len(s) : t[i] = msg[s[i]]
  BY TextsSeq DEF Texts
<1> HIDE DEF o, t
<1>3. /\ Append(t, msg[n]) \in Seq(T) /\ Len(Append(t, msg[n])) = Len(s) + 1
      /\ \A i \in 1 .. Len(s) + 1 :
           Append(t, msg[n])[i] = IF i = Len(s) + 1 THEN msg[n] ELSE t[i]
  BY <1>1, <1>2
<1>4. \A i \in DOMAIN o : msg[o[i]] = Append(t, msg[n])[i] /\ msg[o[i]] \in T
  <2>1. \A i \in 1 .. Len(s) : t[i] \in T
    BY <1>2
  <2> QED BY <2>1, <1>1, <1>2, <1>3
<1>5. /\ Texts(o, msg) \in Seq(T) /\ Len(Texts(o, msg)) = Len(o)
      /\ \A i \in 1 .. Len(o) : Texts(o, msg)[i] = msg[o[i]]
  BY <1>1, <1>4, TextsSeq DEF Texts
<1>6. Texts(o, msg) = Append(t, msg[n])
  BY <1>1, <1>3, <1>4, <1>5, SeqEqual
<1> QED BY <1>6 DEF o, t

LEMMA TextsPopFront ==
  ASSUME NEW S, NEW T, NEW msg, NEW s \in Seq(S), s # <<>>, \A i \in DOMAIN s : msg[s[i]] \in T
  PROVE  /\ Texts(s, msg) # <<>>
         /\ Head(Texts(s, msg)) = msg[Head(s)]
         /\ Texts(Tail(s), msg) = Tail(Texts(s, msg))
<1> DEFINE o == Tail(s)
           t == Texts(s, msg)
<1>1. /\ o \in Seq(S) /\ Len(s) \in Nat \ {0} /\ Len(o) = Len(s) - 1
      /\ Head(s) = s[1] /\ 1 \in 1 .. Len(s)
      /\ DOMAIN o = 1 .. Len(s) - 1
      /\ \A i \in 1 .. Len(s) - 1 : o[i] = s[i + 1] /\ i + 1 \in 1 .. Len(s)
  OBVIOUS
<1>2. t \in Seq(T) /\ Len(t) = Len(s) /\ \A i \in 1 .. Len(s) : t[i] = msg[s[i]]
  BY TextsSeq DEF Texts
<1> HIDE DEF o, t
<1>3. /\ t # <<>> /\ Head(t) = t[1]
      /\ Tail(t) \in Seq(T) /\ Len(Tail(t)) = Len(s) - 1
      /\ \A i \in 1 .. Len(s) - 1 : Tail(t)[i] = t[i + 1]
  BY <1>1, <1>2
<1>4. \A i \in DOMAIN o : msg[o[i]] = Tail(t)[i] /\ msg[o[i]] \in T
  <2>1. \A i \in 1 .. Len(s) : t[i] \in T
    BY <1>2
  <2> QED BY <2>1, <1>1, <1>2, <1>3
<1>5. /\ Texts(o, msg) \in Seq(T) /\ Len(Texts(o, msg)) = Len(o)
      /\ \A i \in 1 .. Len(o) : Texts(o, msg)[i] = msg[o[i]]
  BY <1>1, <1>4, TextsSeq DEF Texts
<1>6. Texts(o, msg) = Tail(t)
  BY <1>1, <1>3, <1>4, <1>5, SeqEqual
<1> QED BY <1>1, <1>2, <1>3, <1>6 DEF o, t

-----------------------------------------------------------------------------
(* The ^ of C: bit by bit, any order, no carry from byte to byte.          *)

\* One bit more in front of the others.
WithBit(f) == [c \in Nat |-> [d \in Nat |-> ((c + d) % 2) + 2 * f[c \div 2][d \div 2]]]
\* The function that Xor is made of.
Levels ==
  CHOOSE xor : xor =
    [bits \in 0 .. 16 |->
       [c \in Nat |-> [d \in Nat |->
          IF bits = 0 THEN 0 ELSE ((c + d) % 2) + 2 * xor[bits - 1][c \div 2][d \div 2]]]]

LEMMA XorIs == \A a, b : Xor(a, b) = Levels[16][a][b]
BY DEF Xor, Levels

LEMMA Halves ==
  ASSUME NEW n \in Nat
  PROVE  n \div 2 \in Nat /\ n % 2 \in {0, 1} /\ n = 2 * (n \div 2) + (n % 2)
OBVIOUS

LEMMA WithBitType ==
  ASSUME NEW f \in [Nat -> [Nat -> Nat]]
  PROVE  WithBit(f) \in [Nat -> [Nat -> Nat]]
<1>1. ASSUME NEW c \in Nat, NEW d \in Nat PROVE ((c + d) % 2) + 2 * f[c \div 2][d \div 2] \in Nat
  <2>1. c \div 2 \in Nat /\ d \div 2 \in Nat /\ (c + d) % 2 \in Nat
    OBVIOUS
  <2>2. f[c \div 2][d \div 2] \in Nat
    BY <2>1
  <2> DEFINE x == f[c \div 2][d \div 2]
             y == (c + d) % 2
  <2>3. x \in Nat /\ y \in Nat
    BY <2>1, <2>2
  <2> HIDE DEF x, y
  <2>4. y + 2 * x \in Nat
    BY ONLY <2>3
  <2> QED BY <2>4 DEF x, y
<1> QED BY <1>1 DEF WithBit

\* That there is one: the CHOOSE of a recursive definition is what its equation says.
LEMMA LevelsStep ==
  /\ Levels \in [0 .. 16 -> [Nat -> [Nat -> Nat]]]
  /\ \A a, b \in Nat : Levels[0][a][b] = 0
  /\ \A k \in 1 .. 16 : \A a, b \in Nat :
       Levels[k][a][b] = ((a + b) % 2) + 2 * Levels[k - 1][a \div 2][b \div 2]
<1> DEFINE D == [Nat -> [Nat -> Nat]]
           none == [c \in Nat |-> [d \in Nat |-> 0]]
           step == [k \in 1 .. 16 |-> [f \in D |-> WithBit(f)]]
           Row(xor, k) ==
             [c \in Nat |-> [d \in Nat |->
                IF k = 0 THEN 0 ELSE ((c + d) % 2) + 2 * xor[k - 1][c \div 2][d \div 2]]]
           Made(xor) == [bits \in 0 .. 16 |-> Row(xor, bits)]
<1>1. none \in D
  OBVIOUS
<1>2. ASSUME NEW f \in D PROVE WithBit(f) \in D
  BY WithBitType
<1>l. \A xor : Row(xor, 0) = none /\ \A k \in 1 .. 16 : Row(xor, k) = WithBit(xor[k - 1])
  <2> SUFFICES ASSUME NEW xor, NEW k \in 1 .. 16 PROVE Row(xor, 0) = none /\ Row(xor, k) = WithBit(xor[k - 1])
    OBVIOUS
  <2>1. k # 0
    OBVIOUS
  <2> QED BY <2>1 DEF WithBit
<1> HIDE DEF D, none, Row
<1>3. step \in [1 .. 16 -> [D -> D]]
  BY <1>2
<1>4. PICK f \in [0 .. 16 -> D] : f[0] = none /\ \A k \in 1 .. 16 : f[k] = step[k][f[k - 1]]
  <2> HIDE DEF step
  <2>1. Iterates(16, D, none, step)
    BY <1>1, <1>3, Iteration
  <2> QED BY <2>1 DEF Iterates
<1>5. \A k \in 1 .. 16 : f[k] = WithBit(f[k - 1])
  <2> SUFFICES ASSUME NEW k \in 1 .. 16 PROVE f[k] = WithBit(f[k - 1])
    OBVIOUS
  <2>1. k - 1 \in 0 .. 16
    OBVIOUS
  <2>2. f[k - 1] \in D
    BY <2>1
  <2> QED BY <1>4, <2>2
<1>6. f = Made(f)
  <2>1. ASSUME NEW k \in 0 .. 16 PROVE  f[k] = Row(f, k)
    <3>1. CASE k = 0
      BY <1>4, <1>l, <3>1
    <3>2. CASE k # 0
      <4>1. k \in 1 .. 16
        BY <3>2
      <4> QED BY <1>5, <1>l, <4>1
    <3> QED BY <3>1, <3>2
  <2> QED BY <2>1
<1>7. Levels = Made(Levels)
  <2> HIDE DEF Made
  <2>1. Levels = CHOOSE xor : xor = Made(xor)
    BY DEF Levels, Made, Row
  <2> QED BY <1>6, <2>1
<1> DEFINE g == Levels
<1>8. g = Made(g)
  <2> HIDE DEF Made
  <2> QED BY <1>7
<1> HIDE DEF g
<1>9. g[0] = none
  <2>1. 0 \in 0 .. 16
    OBVIOUS
  <2> QED BY <1>8, <1>l, <2>1
<1>10. \A k \in 1 .. 16 : g[k] = WithBit(g[k - 1])
  <2> SUFFICES ASSUME NEW k \in 1 .. 16 PROVE g[k] = WithBit(g[k - 1])
    OBVIOUS
  <2>1. k \in 0 .. 16
    OBVIOUS
  <2> QED BY <1>8, <1>l, <2>1
<1>12. \A k \in 0 .. 16 : g[k] \in D
  <2> DEFINE P == {k \in 0 .. 16 : g[k] \in D}
  <2>1. 0 \in P
    BY <1>1, <1>9
  <2>2. \A k \in 1 .. 16 : k - 1 \in P => k \in P
    BY <1>2, <1>10
  <2> HIDE DEF P
  <2>3. \A k \in 0 .. 16 : k \in P
    BY <2>1, <2>2, Ladder
  <2> QED BY <2>3 DEF P
<1>13. g \in [0 .. 16 -> D]
  <2>1. g = [k \in 0 .. 16 |-> g[k]]
    BY <1>8
  <2> HIDE DEF Made
  <2> QED BY <1>12, <2>1
<1>14. \A a, b \in Nat : g[0][a][b] = 0
  BY <1>9 DEF none
<1>15. ASSUME NEW k \in 1 .. 16, NEW a \in Nat, NEW b \in Nat
       PROVE  g[k][a][b] = ((a + b) % 2) + 2 * g[k - 1][a \div 2][b \div 2]
  <2>1. g[k] = WithBit(g[k - 1])
    BY <1>10
  <2> QED BY <2>1 DEF WithBit
<1> HIDE DEF Made
<1> QED BY <1>13, <1>14, <1>15 DEF g, D

\* The bound of a number of so many bits.
Bound == <<1, 2, 4, 8, 16, 32, 64, 128, 256,
           2 * 256, 4 * 256, 8 * 256, 16 * 256, 32 * 256, 64 * 256, 128 * 256, 256 * 256>>

LEMMA BoundDoubles ==
  /\ Bound[1] = 1 /\ Bound[9] = 256 /\ Bound[17] = 256 * 256
  /\ \A k \in 1 .. 17 : Bound[k] \in Nat
  /\ \A k \in 1 .. 16 : Bound[k + 1] = 2 * Bound[k]
<1>1. ASSUME NEW k \in 1 .. 16 PROVE Bound[k + 1] = 2 * Bound[k] /\ Bound[k] \in Nat
  <2>1. k = 1 \/ k = 2 \/ k = 3 \/ k = 4 \/ k = 5 \/ k = 6 \/ k = 7 \/ k = 8 \/ k = 9 \/ k = 10
        \/ k = 11 \/ k = 12 \/ k = 13 \/ k = 14 \/ k = 15 \/ k = 16
    OBVIOUS
  <2> QED BY <2>1 DEF Bound
<1>2. Bound[17] = 256 * 256 /\ Bound[1] = 1 /\ Bound[9] = 256
  BY DEF Bound
<1>3. ASSUME NEW k \in 1 .. 17 PROVE Bound[k] \in Nat
  <2>1. k \in 1 .. 16 \/ k = 17
    OBVIOUS
  <2> QED BY <1>1, <1>2, <2>1
<1> QED BY <1>1, <1>2, <1>3

\* The lowest bits of a result, so many of them.
Level(k, a, b) == Levels[k][a][b]

\* The lowest bit and the rest of a result.
Bits(k, a, b) ==
  /\ Level(k, a, b) \in Nat
  /\ Level(k, a, b) % 2 = (a + b) % 2
  /\ Level(k, a, b) \div 2 = Level(k - 1, a \div 2, b \div 2)
  /\ Level(k - 1, a \div 2, b \div 2) \in Nat

LEMMA LevelsZero == \A a, b \in Nat : Level(0, a, b) = 0
BY LevelsStep DEF Level

LEMMA LevelsNat == \A k \in 0 .. 16 : \A a, b \in Nat : Level(k, a, b) \in Nat
<1>1. ASSUME NEW k \in 0 .. 16, NEW a \in Nat, NEW b \in Nat
      PROVE  Level(k, a, b) \in Nat
  <2>1. Levels[k] \in [Nat -> [Nat -> Nat]]
    BY LevelsStep
  <2> DEFINE f == Levels[k]
  <2> HIDE DEF f
  <2>2. f[a] \in [Nat -> Nat]
    BY <2>1 DEF f
  <2>3. f[a][b] \in Nat
    BY <2>2
  <2> QED BY <2>3 DEF Level, f
<1> QED BY <1>1

LEMMA LevelsBits == \A k \in 1 .. 16 : \A a, b \in Nat : Bits(k, a, b)
<1>1. ASSUME NEW k \in 1 .. 16, NEW a \in Nat, NEW b \in Nat
      PROVE  Bits(k, a, b)
  <2> DEFINE x == Level(k, a, b)
             y == Level(k - 1, a \div 2, b \div 2)
             z == (a + b) % 2
  <2>1. x = z + 2 * y
    BY LevelsStep DEF Level
  <2>2. a \div 2 \in Nat /\ b \div 2 \in Nat /\ k - 1 \in 0 .. 16 /\ k \in 0 .. 16
    OBVIOUS
  <2>3. x \in Nat /\ y \in Nat
    BY <2>2, LevelsNat
  <2>4. z = 0 \/ z = 1
    BY Halves
  <2> HIDE DEF x, y, z
  <2>5. x % 2 = z /\ x \div 2 = y
    BY ONLY <2>1, <2>3, <2>4
  <2> QED BY <2>3, <2>5 DEF x, y, z, Bits
<1> QED BY <1>1

\* Equal halves and equal lowest bits.
LEMMA SameNumber ==
  ASSUME NEW m \in Nat, NEW n \in Nat, m % 2 = n % 2, m \div 2 = n \div 2
  PROVE  m = n
OBVIOUS

\* In any order.
LEMMA LevelsCommute == \A k \in 0 .. 16 : \A a, b \in Nat : Level(k, a, b) = Level(k, b, a)
<1> DEFINE P == {k \in 0 .. 16 : \A a, b \in Nat : Level(k, a, b) = Level(k, b, a)}
<1>1. 0 \in P
  BY LevelsZero
<1>2. ASSUME NEW k \in 1 .. 16, k - 1 \in P PROVE k \in P
  <2>1. ASSUME NEW a \in Nat, NEW b \in Nat PROVE Level(k, a, b) = Level(k, b, a)
    <3>1. a \div 2 \in Nat /\ b \div 2 \in Nat /\ a + b = b + a
      OBVIOUS
    <3>2. Level(k - 1, a \div 2, b \div 2) = Level(k - 1, b \div 2, a \div 2)
      BY <1>2, <3>1
    <3>3. Bits(k, a, b) /\ Bits(k, b, a)
      BY LevelsBits
    <3> QED BY <3>1, <3>2, <3>3, SameNumber DEF Bits
  <2> QED BY <2>1
<1> HIDE DEF P
<1>3. \A k \in 0 .. 16 : k \in P
  BY <1>1, <1>2, Ladder
<1> QED BY <1>3 DEF P

LEMMA LevelsAssociate ==
  \A k \in 0 .. 16 : \A a, b, c \in Nat : Level(k, Level(k, a, b), c) = Level(k, a, Level(k, b, c))
<1> DEFINE P == {k \in 0 .. 16 : \A a, b, c \in Nat :
                   Level(k, Level(k, a, b), c) = Level(k, a, Level(k, b, c))}
<1>1. 0 \in P
  BY LevelsZero, LevelsNat
<1>2. ASSUME NEW k \in 1 .. 16, k - 1 \in P PROVE k \in P
  <2>1. ASSUME NEW a \in Nat, NEW b \in Nat, NEW c \in Nat
        PROVE  Level(k, Level(k, a, b), c) = Level(k, a, Level(k, b, c))
    <3> DEFINE ab == Level(k, a, b)
               bc == Level(k, b, c)
               l == Level(k, ab, c)
               r == Level(k, a, bc)
    <3>1. ab \in Nat /\ ab % 2 = (a + b) % 2 /\ ab \div 2 = Level(k - 1, a \div 2, b \div 2)
      <4>1. Bits(k, a, b)
        BY LevelsBits
      <4> QED BY <4>1 DEF Bits
    <3>2. bc \in Nat /\ bc % 2 = (b + c) % 2 /\ bc \div 2 = Level(k - 1, b \div 2, c \div 2)
      <4>1. Bits(k, b, c)
        BY LevelsBits
      <4> QED BY <4>1 DEF Bits
    <3> HIDE DEF ab, bc
    <3>3. l \in Nat /\ l % 2 = (ab + c) % 2 /\ l \div 2 = Level(k - 1, ab \div 2, c \div 2)
      <4>1. Bits(k, ab, c)
        BY <3>1, LevelsBits
      <4> QED BY <4>1 DEF Bits
    <3>4. r \in Nat /\ r % 2 = (a + bc) % 2 /\ r \div 2 = Level(k - 1, a \div 2, bc \div 2)
      <4>1. Bits(k, a, bc)
        BY <3>2, LevelsBits
      <4> QED BY <4>1 DEF Bits
    <3>5. a \div 2 \in Nat /\ b \div 2 \in Nat /\ c \div 2 \in Nat
      OBVIOUS
    <3>6. l \div 2 = r \div 2
      BY <1>2, <3>1, <3>2, <3>3, <3>4, <3>5
    <3> HIDE DEF l, r
    <3>7. l % 2 = r % 2
      <4>1. ab % 2 = (a + b) % 2 /\ bc % 2 = (b + c) % 2 /\ ab \in Nat /\ bc \in Nat
        BY <3>1, <3>2
      <4>2. (ab + c) % 2 = (a + bc) % 2
        BY ONLY <4>1, a \in Nat, b \in Nat, c \in Nat
      <4> QED BY <4>2, <3>3, <3>4
    <3>8. l = r
      BY <3>3, <3>4, <3>6, <3>7, SameNumber
    <3> QED BY <3>8 DEF ab, bc, l, r
  <2> QED BY <2>1
<1> HIDE DEF P
<1>3. \A k \in 0 .. 16 : k \in P
  BY <1>1, <1>2, Ladder
<1> QED BY <1>3 DEF P

\* A number of so many bits and 0.
LEMMA LevelsNeutral == \A k \in 0 .. 16 : \A a \in Nat : a < Bound[k + 1] => Level(k, a, 0) = a
<1> DEFINE P == {k \in 0 .. 16 : \A a \in Nat : a < Bound[k + 1] => Level(k, a, 0) = a}
<1>1. 0 \in P
  <2>1. Bound[0 + 1] = 1 /\ \A a \in Nat : a < 1 => a = 0
    BY BoundDoubles
  <2>2. 0 \in 0 .. 16
    OBVIOUS
  <2> QED BY <2>1, <2>2, LevelsZero
<1>2. ASSUME NEW k \in 1 .. 16, k - 1 \in P PROVE k \in P
  <2>1. ASSUME NEW a \in Nat, a < Bound[k + 1] PROVE Level(k, a, 0) = a
    <3>1. Bound[k + 1] = 2 * Bound[k] /\ Bound[k] \in Nat /\ k - 1 + 1 = k
      BY BoundDoubles
    <3>2. a \div 2 \in Nat /\ a \div 2 < Bound[k] /\ 0 \div 2 = 0
      BY <2>1, <3>1
    <3>3. Level(k - 1, a \div 2, 0 \div 2) = a \div 2
      BY <1>2, <3>1, <3>2
    <3>4. Level(k, a, 0) \div 2 = a \div 2 /\ Level(k, a, 0) % 2 = a % 2 /\ Level(k, a, 0) \in Nat
      <4>1. Bits(k, a, 0) /\ (a + 0) % 2 = a % 2
        BY LevelsBits
      <4> QED BY <3>3, <4>1 DEF Bits
    <3> QED BY <3>4, SameNumber
  <2> QED BY <2>1
<1> HIDE DEF P
<1>3. \A k \in 0 .. 16 : k \in P
  BY <1>1, <1>2, Ladder
<1> QED BY <1>3 DEF P

\* So many levels give a number of so many bits.
LEMMA LevelsFit == \A k \in 0 .. 16 : \A a, b \in Nat : Level(k, a, b) < Bound[k + 1]
<1> DEFINE P == {k \in 0 .. 16 : \A a, b \in Nat : Level(k, a, b) < Bound[k + 1]}
<1>1. 0 \in P
  <2>1. Bound[0 + 1] = 1 /\ 0 < 1
    BY BoundDoubles
  <2>2. 0 \in 0 .. 16
    OBVIOUS
  <2> QED BY <2>1, <2>2, LevelsZero
<1>2. ASSUME NEW k \in 1 .. 16, k - 1 \in P PROVE k \in P
  <2>1. ASSUME NEW a \in Nat, NEW b \in Nat PROVE Level(k, a, b) < Bound[k + 1]
    <3> DEFINE x == Level(k, a, b)
               z == Bound[k]
    <3>1. Bound[k + 1] = 2 * z /\ z \in Nat /\ k - 1 + 1 = k
      BY BoundDoubles
    <3>2. a \div 2 \in Nat /\ b \div 2 \in Nat
      OBVIOUS
    <3>3. x \in Nat /\ x \div 2 < z
      <4>1. Bits(k, a, b)
        BY LevelsBits
      <4>2. Level(k - 1, a \div 2, b \div 2) < z
        BY <1>2, <3>1, <3>2
      <4> QED BY <4>1, <4>2 DEF Bits
    <3> HIDE DEF x, z
    <3>4. x < 2 * z
      BY ONLY <3>1, <3>3
    <3> QED BY <3>1, <3>4 DEF x
  <2> QED BY <2>1
<1> HIDE DEF P
<1>3. \A k \in 0 .. 16 : k \in P
  BY <1>1, <1>2, Ladder
<1> QED BY <1>3 DEF P

\* One level more changes nothing for numbers of so many bits.
LEMMA LevelsStable ==
  \A k \in 0 .. 15 : \A a, b \in Nat :
    a < Bound[k + 1] /\ b < Bound[k + 1] => Level(k + 1, a, b) = Level(k, a, b)
<1> DEFINE P == {k \in 0 .. 15 : \A a, b \in Nat :
                   a < Bound[k + 1] /\ b < Bound[k + 1] => Level(k + 1, a, b) = Level(k, a, b)}
<1>1. 0 \in P
  <2>1. 0 \div 2 = 0 /\ 1 - 1 = 0 /\ (0 + 0) % 2 = 0
    OBVIOUS
  <2>2. Level(1, 0, 0) = 0
    <3>1. Bits(1, 0, 0)
      BY LevelsBits
    <3>2. Level(1, 0, 0) % 2 = 0 /\ Level(1, 0, 0) \div 2 = Level(0, 0, 0) /\ Level(1, 0, 0) \in Nat
      BY <2>1, <3>1 DEF Bits
    <3>3. Level(0, 0, 0) = 0
      BY LevelsZero
    <3> QED BY <3>2, <3>3
  <2>3. Bound[0 + 1] = 1 /\ \A a \in Nat : a < 1 => a = 0
    BY BoundDoubles
  <2>4. 0 \in 0 .. 15 /\ 0 + 1 = 1
    OBVIOUS
  <2> QED BY <2>2, <2>3, <2>4, LevelsZero
<1>2. ASSUME NEW k \in 1 .. 15, k - 1 \in P PROVE k \in P
  <2>1. ASSUME NEW a \in Nat, NEW b \in Nat, a < Bound[k + 1], b < Bound[k + 1]
        PROVE  Level(k + 1, a, b) = Level(k, a, b)
    <3>1. Bound[k + 1] = 2 * Bound[k] /\ Bound[k] \in Nat /\ k - 1 + 1 = k /\ k + 1 - 1 = k /\ k + 1 \in 1 .. 16
      BY BoundDoubles
    <3>2. a \div 2 \in Nat /\ a \div 2 < Bound[k] /\ b \div 2 \in Nat /\ b \div 2 < Bound[k]
      BY <2>1, <3>1
    <3>3. Level(k, a \div 2, b \div 2) = Level(k - 1, a \div 2, b \div 2)
      BY <1>2, <3>1, <3>2
    <3>4. /\ Level(k + 1, a, b) \in Nat /\ Level(k + 1, a, b) % 2 = (a + b) % 2
          /\ Level(k + 1, a, b) \div 2 = Level(k, a \div 2, b \div 2)
      <4>1. Bits(k + 1, a, b)
        BY <3>1, LevelsBits
      <4> QED BY <3>1, <4>1 DEF Bits
    <3>5. /\ Level(k, a, b) \in Nat /\ Level(k, a, b) % 2 = (a + b) % 2
          /\ Level(k, a, b) \div 2 = Level(k - 1, a \div 2, b \div 2)
      <4>1. Bits(k, a, b)
        BY LevelsBits
      <4> QED BY <4>1 DEF Bits
    <3> QED BY <3>3, <3>4, <3>5, SameNumber
  <2> QED BY <2>1
<1> HIDE DEF P
<1>3. \A k \in 0 .. 15 : k \in P
  BY <1>1, <1>2, Ladder
<1> QED BY <1>3 DEF P

\* The bits above a place and those below it do not meet.
SplitsAt(j) ==
  \A h, g, l, m \in Nat :
    l < Bound[j + 1] /\ m < Bound[j + 1] =>
      Level(8 + j, Bound[j + 1] * h + l, Bound[j + 1] * g + m) = Bound[j + 1] * Level(8, h, g) + Level(j, l, m)

LEMMA LevelsSplit == \A j \in 0 .. 8 : SplitsAt(j)
<1> DEFINE P == {j \in 0 .. 8 : SplitsAt(j)}
<1>1. 0 \in P
  <2>1. ASSUME NEW h \in Nat, NEW g \in Nat
        PROVE  Level(8 + 0, 1 * h + 0, 1 * g + 0) = 1 * Level(8, h, g) + Level(0, 0, 0)
    <3>1. 8 + 0 = 8 /\ 1 * h + 0 = h /\ 1 * g + 0 = g
      OBVIOUS
    <3>2. Level(8, h, g) \in Nat /\ Level(0, 0, 0) = 0
      <4>1. 8 \in 0 .. 16 /\ 0 \in Nat
        OBVIOUS
      <4>2. Level(8, h, g) \in Nat
        BY <4>1, LevelsNat
      <4> QED BY <4>1, <4>2, LevelsZero
    <3>3. 1 * Level(8, h, g) + 0 = Level(8, h, g)
      BY ONLY <3>2
    <3> QED BY <3>1, <3>2, <3>3
  <2>2. Bound[0 + 1] = 1 /\ \A l \in Nat : l < 1 => l = 0
    BY BoundDoubles
  <2>3. SplitsAt(0)
    BY <2>1, <2>2 DEF SplitsAt
  <2> QED BY <2>3
<1>2. ASSUME NEW j \in 1 .. 8, j - 1 \in P PROVE j \in P
  <2>1. ASSUME NEW h \in Nat, NEW g \in Nat, NEW l \in Nat, NEW m \in Nat,
               l < Bound[j + 1], m < Bound[j + 1]
        PROVE  Level(8 + j, Bound[j + 1] * h + l, Bound[j + 1] * g + m)
                 = Bound[j + 1] * Level(8, h, g) + Level(j, l, m)
    <3> DEFINE p == Bound[j]
               q == Bound[j + 1]
               a == q * h + l
               b == q * g + m
               x == Level(8, h, g)
               y == Level(j, l, m)
               z == Level(8 + j, a, b)
               c == p * h + (l \div 2)
               d == p * g + (m \div 2)
               u == Level(j - 1, l \div 2, m \div 2)
               w == Level(8 + j - 1, c, d)
               ph == p * h
               pg == p * g
    <3>1. q = 2 * p /\ p \in Nat /\ q \in Nat /\ j - 1 + 1 = j /\ 8 + (j - 1) = 8 + j - 1 /\ 8 + j \in 1 .. 16
      BY BoundDoubles
    <3>2. l \div 2 \in Nat /\ l \div 2 < p /\ m \div 2 \in Nat /\ m \div 2 < p
      BY <2>1, <3>1
    <3>3. w = p * x + u
      BY <1>2, <3>1, <3>2 DEF SplitsAt
    <3>4. x \in Nat /\ ph \in Nat /\ pg \in Nat
      <4>1. 8 \in 0 .. 16
        OBVIOUS
      <4>2. x \in Nat
        BY <4>1, LevelsNat
      <4> HIDE DEF x, p
      <4> QED BY <3>1, <4>2
    <3>5. q * h = 2 * ph /\ q * g = 2 * pg /\ a = q * h + l /\ b = q * g + m
      BY <3>1
    <3> HIDE DEF ph, pg
    <3>6. /\ a \in Nat /\ b \in Nat
          /\ a \div 2 = ph + (l \div 2) /\ b \div 2 = pg + (m \div 2)
          /\ (a + b) % 2 = (l + m) % 2
      <4> HIDE DEF a, b, p, q
      <4>1. a = 2 * ph + l /\ b = 2 * pg + m
        BY <3>5
      <4> QED BY ONLY <4>1, <3>4, l \in Nat, m \in Nat
    <3>7. a \div 2 = c /\ b \div 2 = d
      BY <3>6 DEF ph, pg
    <3> HIDE DEF a, b, c, d
    <3>8. z \in Nat /\ z % 2 = (l + m) % 2 /\ z \div 2 = w
      <4>1. Bits(8 + j, a, b)
        BY <3>1, <3>6, LevelsBits
      <4> QED BY <3>1, <3>6, <3>7, <4>1 DEF Bits
    <3>9. y \in Nat /\ y % 2 = (l + m) % 2 /\ y \div 2 = u
      <4>1. Bits(j, l, m)
        BY LevelsBits
      <4> QED BY <4>1 DEF Bits
    <3> DEFINE px == p * x
    <3>10. q * x = 2 * px /\ px \in Nat /\ w = px + u
      BY <3>1, <3>3, <3>4
    <3> HIDE DEF z, y, w, u, px, x, p
    <3>11. z = 2 * px + y
      BY ONLY <3>8, <3>9, <3>10
    <3>12. z = q * x + y
      BY <3>10, <3>11
    <3> QED BY <3>12 DEF z, y, x, a, b, q
  <2>2. SplitsAt(j)
    BY <2>1 DEF SplitsAt
  <2> QED BY <2>2
<1> HIDE DEF P
<1>3. \A j \in 0 .. 8 : j \in P
  BY <1>1, <1>2, Ladder
<1> QED BY <1>3 DEF P

\* The values of 16 bits.
LEMMA WordIs ==
  /\ \A a \in Word16 : a \in Nat /\ a < Bound[17] /\ a \div 2 \in Word16 /\ a \div 2 < Bound[16]
  /\ \A a \in Nat : a < Bound[17] => a \in Word16
<1>1. Bound[17] = 256 * 256 /\ Bound[16] = 128 * 256
  BY DEF Bound
<1> QED BY <1>1 DEF Word16

LEMMA XorLevel == \A a, b : Xor(a, b) = Level(16, a, b)
BY XorIs DEF Level

\* Xor of words and of bytes.
LEMMA XorTypes ==
  /\ \A a, b \in Nat : Xor(a, b) \in Word16
  /\ \A l, m \in Byte : Xor(l, m) \in Byte /\ Xor(l, m) = Level(8, l, m)
<1>1. ASSUME NEW a \in Nat, NEW b \in Nat PROVE Xor(a, b) \in Word16
  <2>1. Level(16, a, b) \in Nat
    BY LevelsNat
  <2>2. Level(16, a, b) < Bound[17]
    <3>1. 16 \in 0 .. 16 /\ 16 + 1 = 17
      OBVIOUS
    <3> QED BY <3>1, LevelsFit
  <2>3. Level(16, a, b) \in Word16
    BY <2>1, <2>2, WordIs
  <2> QED BY <2>3, XorLevel
<1>2. ASSUME NEW l \in Byte, NEW m \in Byte PROVE Xor(l, m) \in Byte /\ Xor(l, m) = Level(8, l, m)
  <2>1. l \in Nat /\ m \in Nat /\ l < 256 /\ m < 256 /\ 0 \in Nat
    BY DEF Byte
  <2>2. SplitsAt(8) /\ Bound[8 + 1] = 256 /\ 8 + 8 = 16 /\ 8 \in 0 .. 16
    BY LevelsSplit, BoundDoubles
  <2>3. Level(16, 256 * 0 + l, 256 * 0 + m) = 256 * Level(8, 0, 0) + Level(8, l, m)
    BY <2>1, <2>2 DEF SplitsAt
  <2>4. 256 * 0 + l = l /\ 256 * 0 + m = m
    BY <2>1
  <2>5. Level(8, 0, 0) = 0
    <3>1. 0 < Bound[8 + 1]
      BY <2>2
    <3> QED BY <2>1, <2>2, <3>1, LevelsNeutral
  <2>6. Level(8, l, m) \in Nat /\ Level(8, l, m) < 256
    <3>1. Level(8, l, m) < Bound[8 + 1]
      BY <2>1, <2>2, LevelsFit
    <3> QED BY <2>1, <2>2, <3>1, LevelsNat
  <2>7. Level(16, l, m) = Level(8, l, m)
    BY <2>3, <2>4, <2>5, <2>6
  <2> QED BY <2>6, <2>7, XorLevel DEF Byte
<1> QED BY <1>1, <1>2

LEMMA XorCommutes == \A a, b \in Nat : Xor(a, b) = Xor(b, a)
<1>1. 16 \in 0 .. 16
  OBVIOUS
<1> QED BY <1>1, LevelsCommute, XorLevel

LEMMA XorAssociates == \A a, b, c \in Nat : Xor(Xor(a, b), c) = Xor(a, Xor(b, c))
<1>1. 16 \in 0 .. 16
  OBVIOUS
<1> QED BY <1>1, LevelsAssociate, XorLevel

LEMMA XorNothing == \A a \in Word16 : Xor(a, 0) = a /\ Xor(0, a) = a
<1> SUFFICES ASSUME NEW a \in Word16 PROVE Xor(a, 0) = a /\ Xor(0, a) = a
  OBVIOUS
<1>1. 16 \in 0 .. 16 /\ 16 + 1 = 17 /\ a \in Nat /\ a < Bound[17] /\ 0 \in Nat
  BY WordIs
<1>2. Level(16, a, 0) = a
  BY <1>1, LevelsNeutral
<1> QED BY <1>1, <1>2, XorCommutes, XorLevel

\* High bytes and low bytes do not meet.
LEMMA XorOfBytes ==
  ASSUME NEW h \in Byte, NEW g \in Byte, NEW l \in Byte, NEW m \in Byte
  PROVE  Xor(256 * h + l, 256 * g + m) = 256 * Xor(h, g) + Xor(l, m)
<1>1. l \in Nat /\ m \in Nat /\ l < 256 /\ m < 256 /\ h \in Nat /\ g \in Nat
  BY DEF Byte
<1>2. SplitsAt(8) /\ Bound[8 + 1] = 256 /\ 8 + 8 = 16
  BY LevelsSplit, BoundDoubles
<1>3. Level(16, 256 * h + l, 256 * g + m) = 256 * Level(8, h, g) + Level(8, l, m)
  BY <1>1, <1>2 DEF SplitsAt
<1> QED BY <1>3, XorTypes, XorLevel

\* The lowest bit and the rest of the Xor of two words.
LEMMA XorBits ==
  ASSUME NEW a \in Word16, NEW b \in Word16
  PROVE  /\ Xor(a, b) % 2 = (a + b) % 2
         /\ Xor(a, b) \div 2 = Xor(a \div 2, b \div 2)
         /\ a \div 2 \in Word16 /\ b \div 2 \in Word16
<1>1. /\ a \in Nat /\ b \in Nat /\ a \div 2 \in Word16 /\ b \div 2 \in Word16
      /\ a \div 2 \in Nat /\ b \div 2 \in Nat /\ a \div 2 < Bound[16] /\ b \div 2 < Bound[16]
  BY WordIs
<1>2. Bits(16, a, b)
  BY <1>1, LevelsBits
<1>3. 15 \in 0 .. 15 /\ 15 + 1 = 16 /\ 16 - 1 = 15
  OBVIOUS
<1>4. Level(16, a \div 2, b \div 2) = Level(15, a \div 2, b \div 2)
  BY <1>1, <1>3, LevelsStable
<1> QED BY <1>1, <1>2, <1>3, <1>4, XorLevel DEF Bits

-----------------------------------------------------------------------------
(* The CRC.                                                                *)

LEMMA ShiftedWord == \A a \in Word16 : Shifted(a) \in Word16
<1> SUFFICES ASSUME NEW a \in Word16 PROVE Shifted(a) \in Word16
  OBVIOUS
<1>1. a \div 2 \in Nat /\ a \div 2 \in Word16
  BY WordIs
<1>2. 160 * 256 + 1 \in Nat
  OBVIOUS
<1> QED BY <1>1, <1>2, XorTypes DEF Shifted

\* The remainder of a sum is the sum of the remainders.
LEMMA ShiftedXor == \A a, b \in Word16 : Shifted(Xor(a, b)) = Xor(Shifted(a), Shifted(b))
<1> SUFFICES ASSUME NEW a \in Word16, NEW b \in Word16
             PROVE  Shifted(Xor(a, b)) = Xor(Shifted(a), Shifted(b))
  OBVIOUS
<1> DEFINE x == Xor(a, b)
           p == a \div 2
           q == b \div 2
           c == 160 * 256 + 1
           pq == Xor(p, q)
<1>1. x \in Word16 /\ x % 2 = (a + b) % 2 /\ x \div 2 = pq /\ p \in Word16 /\ q \in Word16
  BY XorBits, XorTypes, WordIs
<1>c. c \in Word16 /\ c \in Nat
  BY DEF Word16
<1>2. p \in Nat /\ q \in Nat /\ c \in Nat /\ c \in Word16 /\ pq \in Word16 /\ pq \in Nat
  BY <1>1, <1>c, XorTypes, WordIs
<1> HIDE DEF c
<1>3. /\ Shifted(a) = IF a % 2 = 1 THEN Xor(p, c) ELSE p
      /\ Shifted(b) = IF b % 2 = 1 THEN Xor(q, c) ELSE q
      /\ Shifted(x) = IF x % 2 = 1 THEN Xor(pq, c) ELSE pq
  BY <1>1 DEF Shifted, c
<1>4. Xor(c, c) = 0
  <2>4. \A k \in 0 .. 16 : \A n \in Nat : Level(k, n, n) = 0
    <3> DEFINE P == {k \in 0 .. 16 : \A n \in Nat : Level(k, n, n) = 0}
    <3>1. 0 \in P
      BY LevelsZero
    <3>2. ASSUME NEW k \in 1 .. 16, k - 1 \in P PROVE k \in P
      <4>1. ASSUME NEW n \in Nat PROVE Level(k, n, n) = 0
        <5>1. Bits(k, n, n) /\ n \div 2 \in Nat
          BY LevelsBits
        <5>2. Level(k - 1, n \div 2, n \div 2) = 0 /\ (n + n) % 2 = 0
          BY <3>2, <5>1
        <5> QED BY <5>1, <5>2 DEF Bits
      <4> QED BY <4>1
    <3> HIDE DEF P
    <3>3. \A k \in 0 .. 16 : k \in P
      BY <3>1, <3>2, Ladder
    <3> QED BY <3>3 DEF P
  <2>5. 16 \in 0 .. 16
    OBVIOUS
  <2> QED BY <1>2, <2>4, <2>5, XorLevel
<1>5. Xor(p, Xor(q, c)) = Xor(pq, c)
  BY <1>2, XorAssociates
<1>6. Xor(Xor(p, c), q) = Xor(pq, c)
  BY <1>2, XorAssociates, XorCommutes
<1>7. Xor(Xor(p, c), Xor(q, c)) = pq
  <2>1. Xor(p, c) \in Nat /\ Xor(q, c) \in Nat
    BY <1>2, XorTypes, WordIs
  <2>2. Xor(Xor(p, c), Xor(q, c)) = Xor(Xor(Xor(p, c), q), c)
    BY <1>2, <2>1, XorAssociates
  <2>3. Xor(Xor(pq, c), c) = Xor(pq, Xor(c, c))
    BY <1>2, XorAssociates
  <2>4. Xor(pq, 0) = pq
    BY <1>2, XorNothing
  <2> QED BY <1>4, <1>6, <2>2, <2>3, <2>4
<1>8. a \in Nat /\ b \in Nat
  BY WordIs
<1> HIDE DEF pq, p, q, x
<1>9. CASE a % 2 = 1 /\ b % 2 = 1
  <2>1. x % 2 # 1
    BY <1>1, <1>8, <1>9
  <2> QED BY <1>3, <1>7, <1>9, <2>1 DEF x
<1>10. CASE a % 2 = 1 /\ b % 2 # 1
  <2>1. x % 2 = 1
    BY <1>1, <1>8, <1>10
  <2> QED BY <1>3, <1>6, <1>10, <2>1 DEF x
<1>11. CASE a % 2 # 1 /\ b % 2 = 1
  <2>1. x % 2 = 1
    BY <1>1, <1>8, <1>11
  <2> QED BY <1>3, <1>5, <1>11, <2>1 DEF x
<1>12. CASE a % 2 # 1 /\ b % 2 # 1
  <2>1. x % 2 # 1
    BY <1>1, <1>8, <1>12
  <2> QED BY <1>3, <1>12, <2>1 DEF x, pq
<1> QED BY <1>9, <1>10, <1>11, <1>12

LEMMA ShiftedByteXor ==
  ASSUME NEW a \in Word16, NEW b \in Word16
  PROVE  /\ ShiftedByte(a) \in Word16
         /\ ShiftedByte(Xor(a, b)) = Xor(ShiftedByte(a), ShiftedByte(b))
<1>0. a \in Nat /\ b \in Nat
  BY WordIs
<1> DEFINE a1 == Shifted(a)  a2 == Shifted(a1) a3 == Shifted(a2) a4 == Shifted(a3)
           a5 == Shifted(a4) a6 == Shifted(a5) a7 == Shifted(a6) a8 == Shifted(a7)
           b1 == Shifted(b)  b2 == Shifted(b1) b3 == Shifted(b2) b4 == Shifted(b3)
           b5 == Shifted(b4) b6 == Shifted(b5) b7 == Shifted(b6) b8 == Shifted(b7)
<1>1. a1 \in Word16 /\ b1 \in Word16 /\ Shifted(Xor(a, b)) = Xor(a1, b1)
  BY ShiftedWord, ShiftedXor
<1> HIDE DEF a1, b1
<1>2. a2 \in Word16 /\ b2 \in Word16 /\ Shifted(Xor(a1, b1)) = Xor(a2, b2)
  BY <1>1, ShiftedWord, ShiftedXor
<1> HIDE DEF a2, b2
<1>3. a3 \in Word16 /\ b3 \in Word16 /\ Shifted(Xor(a2, b2)) = Xor(a3, b3)
  BY <1>2, ShiftedWord, ShiftedXor
<1> HIDE DEF a3, b3
<1>4. a4 \in Word16 /\ b4 \in Word16 /\ Shifted(Xor(a3, b3)) = Xor(a4, b4)
  BY <1>3, ShiftedWord, ShiftedXor
<1> HIDE DEF a4, b4
<1>5. a5 \in Word16 /\ b5 \in Word16 /\ Shifted(Xor(a4, b4)) = Xor(a5, b5)
  BY <1>4, ShiftedWord, ShiftedXor
<1> HIDE DEF a5, b5
<1>6. a6 \in Word16 /\ b6 \in Word16 /\ Shifted(Xor(a5, b5)) = Xor(a6, b6)
  BY <1>5, ShiftedWord, ShiftedXor
<1> HIDE DEF a6, b6
<1>7. a7 \in Word16 /\ b7 \in Word16 /\ Shifted(Xor(a6, b6)) = Xor(a7, b7)
  BY <1>6, ShiftedWord, ShiftedXor
<1> HIDE DEF a7, b7
<1>8. a8 \in Word16 /\ b8 \in Word16 /\ Shifted(Xor(a7, b7)) = Xor(a8, b8)
  BY <1>7, ShiftedWord, ShiftedXor
<1> HIDE DEF a8, b8
<1>9. ShiftedByte(a) = a8 /\ ShiftedByte(b) = b8
  BY DEF ShiftedByte, a8, a7, a6, a5, a4, a3, a2, a1, b8, b7, b6, b5, b4, b3, b2, b1
<1>10. ShiftedByte(Xor(a, b)) = Xor(a8, b8)
  BY <1>1, <1>2, <1>3, <1>4, <1>5, <1>6, <1>7, <1>8 DEF ShiftedByte
<1> QED BY <1>8, <1>9, <1>10

\* Eight shifts of a high byte alone bring it down.
LEMMA ShiftedHighByte == ASSUME NEW h \in Byte PROVE ShiftedByte(256 * h) = h
<1>1. \A n \in Nat : Shifted(2 * n) = n
  <2> SUFFICES ASSUME NEW n \in Nat PROVE Shifted(2 * n) = n
    OBVIOUS
  <2>1. (2 * n) % 2 # 1 /\ (2 * n) \div 2 = n
    OBVIOUS
  <2> QED BY <2>1 DEF Shifted
<1>2. h \in Nat
  BY DEF Byte
<1>3. /\ 256 * h = 2 * (128 * h) /\ 128 * h = 2 * (64 * h) /\ 64 * h = 2 * (32 * h)
      /\ 32 * h = 2 * (16 * h) /\ 16 * h = 2 * (8 * h) /\ 8 * h = 2 * (4 * h) /\ 4 * h = 2 * (2 * h)
      /\ 128 * h \in Nat /\ 64 * h \in Nat /\ 32 * h \in Nat /\ 16 * h \in Nat
      /\ 8 * h \in Nat /\ 4 * h \in Nat /\ 2 * h \in Nat
  BY <1>2
<1>4. /\ Shifted(256 * h) = 128 * h /\ Shifted(128 * h) = 64 * h /\ Shifted(64 * h) = 32 * h
      /\ Shifted(32 * h) = 16 * h /\ Shifted(16 * h) = 8 * h /\ Shifted(8 * h) = 4 * h
      /\ Shifted(4 * h) = 2 * h /\ Shifted(2 * h) = h
  BY <1>1, <1>2, <1>3
<1> QED BY <1>4 DEF ShiftedByte

LEMMA ByteIs ==
  /\ \A b \in Byte : b \in Nat /\ b < 256 /\ b \in Word16
  /\ \A h, l \in Byte : 256 * h + l \in Word16 /\ 256 * h + l \in Nat
BY DEF Byte, Word16

\* One byte of the loop: the tables give eight shifts of the remainder.
LEMMA TableStep ==
  ASSUME NEW h \in Byte, NEW l \in Byte, NEW byte \in Byte
  PROVE  /\ Xor(l, byte) \in Byte
         /\ CrcStep([high_byte |-> h, low_byte |-> l], byte) \in [low_byte : Byte, high_byte : Byte]
         /\ LET c == CrcStep([high_byte |-> h, low_byte |-> l], byte)
            IN ShiftedByte(Xor(256 * h + l, byte)) = 256 * c.high_byte + c.low_byte
<1> DEFINE i == Xor(l, byte)
           low == crc_low[i + 1]
           high == crc_hi[i + 1]
           c == CrcStep([high_byte |-> h, low_byte |-> l], byte)
<1>1. i \in Byte
  BY XorTypes
<1>2. low \in Byte /\ high \in Byte /\ ShiftedByte(i) = 256 * low + high
  BY <1>1, CrcTables
<1>3. c.low_byte = Xor(h, high) /\ c.high_byte = low /\ c = [low_byte |-> Xor(h, high), high_byte |-> low]
  BY DEF CrcStep
<1> HIDE DEF i, low, high, c
<1>4. Xor(h, high) \in Byte
  BY <1>2, XorTypes
<1>5. c \in [low_byte : Byte, high_byte : Byte]
  BY <1>2, <1>3, <1>4
<1>6. Xor(256 * h + l, byte) = 256 * h + i
  <2>1. 0 \in Byte /\ 256 * 0 + byte = byte
    BY DEF Byte
  <2>2. Xor(256 * h + l, 256 * 0 + byte) = 256 * Xor(h, 0) + Xor(l, byte)
    BY <2>1, XorOfBytes
  <2>3. Xor(h, 0) = h
    BY ByteIs, XorNothing
  <2> QED BY <2>1, <2>2, <2>3 DEF i
<1>7. 256 * h + i = Xor(256 * h, i)
  <2>1. 0 \in Byte /\ 256 * 0 + i = i /\ 256 * h + 0 = 256 * h
    BY <1>1 DEF Byte
  <2>2. Xor(256 * h + 0, 256 * 0 + i) = 256 * Xor(h, 0) + Xor(0, i)
    BY <1>1, <2>1, XorOfBytes
  <2>3. Xor(h, 0) = h /\ Xor(0, i) = i
    BY <1>1, ByteIs, XorNothing
  <2> QED BY <2>1, <2>2, <2>3
<1>8. ShiftedByte(Xor(256 * h, i)) = Xor(ShiftedByte(256 * h), ShiftedByte(i))
  <2>1. 0 \in Byte /\ 256 * h + 0 = 256 * h
    BY DEF Byte
  <2>2. 256 * h \in Word16 /\ i \in Word16
    BY <1>1, <2>1, ByteIs
  <2> QED BY <2>2, ShiftedByteXor
<1>9. Xor(h, 256 * low + high) = 256 * low + Xor(h, high)
  <2>1. 0 \in Byte /\ 256 * 0 + h = h
    BY DEF Byte
  <2>2. Xor(256 * 0 + h, 256 * low + high) = 256 * Xor(0, low) + Xor(h, high)
    BY <1>2, <2>1, XorOfBytes
  <2>3. Xor(0, low) = low
    BY <1>2, ByteIs, XorNothing
  <2> QED BY <2>1, <2>2, <2>3
<1>10. ShiftedByte(Xor(256 * h + l, byte)) = 256 * c.high_byte + c.low_byte
  BY <1>2, <1>3, <1>6, <1>7, <1>8, <1>9, ShiftedHighByte
<1> QED BY <1>1, <1>5, <1>10 DEF i, c

\* The remainders after each byte.
Remainders(crc, data) ==
  /\ crc \in [0 .. Len(data) -> Word16]
  /\ crc[0] = 255 * 256 + 255
  /\ \A i \in 1 .. Len(data) : crc[i] = ShiftedByte(Xor(crc[i - 1], data[i]))

\* CrcReference: the CHOOSE of its recursive function has its values.
LEMMA ReferenceSteps ==
  ASSUME NEW data \in Seq(Byte)
  PROVE  \E crc : Remainders(crc, data) /\ CrcReference(data) = crc[Len(data)]
<1> DEFINE n == Len(data)
           base == 255 * 256 + 255
           step == [i \in 1 .. n |-> [w \in Word16 |-> ShiftedByte(Xor(w, data[i]))]]
           Value(crc, i) == IF i = 0 THEN base ELSE ShiftedByte(Xor(crc[i - 1], data[i]))
           Made(crc) == [i \in 0 .. n |-> Value(crc, i)]
           g == CHOOSE crc : crc =
                  [i \in 0 .. Len(data) |->
                     IF i = 0 THEN 255 * 256 + 255 ELSE ShiftedByte(Xor(crc[i - 1], data[i]))]
<1>0. n \in Nat /\ \A i \in 1 .. n : data[i] \in Byte
  OBVIOUS
<1>1. base \in Word16
  BY DEF Word16
<1>2. \A i \in 1 .. n : \A w \in Word16 : ShiftedByte(Xor(w, data[i])) \in Word16
  <2> SUFFICES ASSUME NEW i \in 1 .. n, NEW w \in Word16 PROVE ShiftedByte(Xor(w, data[i])) \in Word16
    OBVIOUS
  <2>1. w \in Nat /\ data[i] \in Nat
    BY <1>0, WordIs, ByteIs
  <2>2. Xor(w, data[i]) \in Word16
    BY <2>1, XorTypes
  <2> QED BY <2>2, ShiftedByteXor
<1>3. step \in [1 .. n -> [Word16 -> Word16]]
  BY <1>2
<1>4. CrcReference(data) = g[n]
  BY DEF CrcReference
<1>5. g = CHOOSE crc : crc = Made(crc)
  OBVIOUS
<1>6. \A crc : Value(crc, 0) = base /\
               \A i \in 1 .. n : Value(crc, i) = ShiftedByte(Xor(crc[i - 1], data[i]))
  OBVIOUS
<1> HIDE DEF base, Value, g
<1>7. PICK f \in [0 .. n -> Word16] : f[0] = base /\ \A i \in 1 .. n : f[i] = step[i][f[i - 1]]
  <2> HIDE DEF step, n
  <2>1. Iterates(n, Word16, base, step)
    BY <1>0, <1>1, <1>3, Iteration
  <2> QED BY <2>1 DEF Iterates
<1>8. \A i \in 1 .. n : f[i] = ShiftedByte(Xor(f[i - 1], data[i]))
  <2> SUFFICES ASSUME NEW i \in 1 .. n PROVE f[i] = ShiftedByte(Xor(f[i - 1], data[i]))
    OBVIOUS
  <2>1. i - 1 \in 0 .. n
    OBVIOUS
  <2>2. f[i - 1] \in Word16
    BY <2>1
  <2> QED BY <1>7, <2>2
<1> HIDE DEF n
<1>9. f = Made(f)
  <2>1. ASSUME NEW i \in 0 .. n PROVE f[i] = Value(f, i)
    <3>1. CASE i = 0
      BY <1>6, <1>7, <3>1
    <3>2. CASE i # 0
      <4>1. i \in 1 .. n
        BY <1>0, <3>2
      <4> QED BY <1>6, <1>8, <4>1
    <3> QED BY <3>1, <3>2
  <2> QED BY <2>1
<1>10. g = Made(g)
  <2> HIDE DEF Made
  <2> QED BY <1>5, <1>9
<1>11. g[0] = base
  <2>1. 0 \in 0 .. n
    BY <1>0
  <2> QED BY <1>10, <1>6, <2>1
<1>12. \A i \in 1 .. n : g[i] = ShiftedByte(Xor(g[i - 1], data[i]))
  <2> SUFFICES ASSUME NEW i \in 1 .. n PROVE g[i] = ShiftedByte(Xor(g[i - 1], data[i]))
    OBVIOUS
  <2>1. i \in 0 .. n
    BY <1>0
  <2> QED BY <1>10, <1>6, <2>1
<1>13. \A i \in 0 .. n : g[i] \in Word16
  <2> DEFINE P == {i \in 0 .. n : g[i] \in Word16}
  <2>1. 0 \in P
    BY <1>0, <1>1, <1>11
  <2>2. \A i \in 1 .. n : i - 1 \in P => i \in P
    BY <1>2, <1>12
  <2> HIDE DEF P
  <2>3. \A i \in 0 .. n : i \in P
    BY <1>0, <2>1, <2>2, Ladder
  <2> QED BY <2>3 DEF P
<1>14. g \in [0 .. n -> Word16]
  <2>1. g = [i \in 0 .. n |-> g[i]]
    BY <1>10
  <2> HIDE DEF Made
  <2> QED BY <1>13, <2>1
<1>15. Remainders(g, data)
  BY <1>11, <1>12, <1>14 DEF Remainders, n, base
<1> QED BY <1>4, <1>15 DEF n

\* The two bytes after each pass of the loop.
Passes(crc, data) ==
  /\ crc \in [0 .. Len(data) -> [low_byte : Byte, high_byte : Byte]]
  /\ crc[0] = [high_byte |-> 255, low_byte |-> 255]
  /\ \A i \in 1 .. Len(data) : crc[i] = CrcStep(crc[i - 1], data[i])

LEMMA PairIs ==
  \A p \in [low_byte : Byte, high_byte : Byte] :
    p.high_byte \in Byte /\ p.low_byte \in Byte /\ p = [high_byte |-> p.high_byte, low_byte |-> p.low_byte]
OBVIOUS

\* modbus_CRC16 likewise.
LEMMA PassesSteps ==
  ASSUME NEW data \in Seq(Byte)
  PROVE  \E crc : /\ Passes(crc, data)
                  /\ modbus_CRC16(data) = crc[Len(data)].high_byte * 256 + crc[Len(data)].low_byte
<1> DEFINE n == Len(data)
           D == [low_byte : Byte, high_byte : Byte]
           base == [high_byte |-> 255, low_byte |-> 255]
           step == [i \in 1 .. n |-> [p \in D |-> CrcStep(p, data[i])]]
           Value(crc, i) == IF i = 0 THEN base ELSE CrcStep(crc[i - 1], data[i])
           Made(crc) == [i \in 0 .. n |-> Value(crc, i)]
           g == CHOOSE crc : crc =
                  [i \in 0 .. Len(data) |->
                     IF i = 0 THEN [high_byte |-> 255, low_byte |-> 255]
                     ELSE CrcStep(crc[i - 1], data[i])]
<1>0. n \in Nat /\ \A i \in 1 .. n : data[i] \in Byte
  OBVIOUS
<1>1. base \in D
  BY DEF Byte
<1>2. \A i \in 1 .. n : \A p \in D : CrcStep(p, data[i]) \in D
  <2> SUFFICES ASSUME NEW i \in 1 .. n, NEW p \in D PROVE CrcStep(p, data[i]) \in D
    OBVIOUS
  <2>1. p.high_byte \in Byte /\ p.low_byte \in Byte /\ p = [high_byte |-> p.high_byte, low_byte |-> p.low_byte]
    BY PairIs
  <2>2. CrcStep([high_byte |-> p.high_byte, low_byte |-> p.low_byte], data[i]) \in D
    BY <1>0, <2>1, TableStep
  <2> QED BY <2>1, <2>2
<1> HIDE DEF D
<1>3. step \in [1 .. n -> [D -> D]]
  BY <1>2
<1>4. modbus_CRC16(data) = g[n].high_byte * 256 + g[n].low_byte
  BY DEF modbus_CRC16
<1>5. g = CHOOSE crc : crc = Made(crc)
  OBVIOUS
<1>6. \A crc : Value(crc, 0) = base /\
               \A i \in 1 .. n : Value(crc, i) = CrcStep(crc[i - 1], data[i])
  OBVIOUS
<1> HIDE DEF base, Value, g
<1>7. PICK f \in [0 .. n -> D] : f[0] = base /\ \A i \in 1 .. n : f[i] = step[i][f[i - 1]]
  <2> HIDE DEF step, n
  <2>1. Iterates(n, D, base, step)
    BY <1>0, <1>1, <1>3, Iteration
  <2> QED BY <2>1 DEF Iterates
<1>8. \A i \in 1 .. n : f[i] = CrcStep(f[i - 1], data[i])
  <2> SUFFICES ASSUME NEW i \in 1 .. n PROVE f[i] = CrcStep(f[i - 1], data[i])
    OBVIOUS
  <2>1. i - 1 \in 0 .. n
    OBVIOUS
  <2>2. f[i - 1] \in D
    BY <2>1
  <2> QED BY <1>7, <2>2
<1> HIDE DEF n
<1>9. f = Made(f)
  <2>1. ASSUME NEW i \in 0 .. n PROVE f[i] = Value(f, i)
    <3>1. CASE i = 0
      BY <1>6, <1>7, <3>1
    <3>2. CASE i # 0
      <4>1. i \in 1 .. n
        BY <1>0, <3>2
      <4> QED BY <1>6, <1>8, <4>1
    <3> QED BY <3>1, <3>2
  <2> QED BY <2>1
<1>10. g = Made(g)
  <2> HIDE DEF Made
  <2> QED BY <1>5, <1>9
<1>11. g[0] = base
  <2>1. 0 \in 0 .. n
    BY <1>0
  <2> QED BY <1>10, <1>6, <2>1
<1>12. \A i \in 1 .. n : g[i] = CrcStep(g[i - 1], data[i])
  <2> SUFFICES ASSUME NEW i \in 1 .. n PROVE g[i] = CrcStep(g[i - 1], data[i])
    OBVIOUS
  <2>1. i \in 0 .. n
    BY <1>0
  <2> QED BY <1>10, <1>6, <2>1
<1>13. \A i \in 0 .. n : g[i] \in D
  <2> DEFINE P == {i \in 0 .. n : g[i] \in D}
  <2>1. 0 \in P
    BY <1>0, <1>1, <1>11
  <2>2. \A i \in 1 .. n : i - 1 \in P => i \in P
    BY <1>2, <1>12
  <2> HIDE DEF P
  <2>3. \A i \in 0 .. n : i \in P
    BY <1>0, <2>1, <2>2, Ladder
  <2> QED BY <2>3 DEF P
<1>14. g \in [0 .. n -> D]
  <2>1. g = [i \in 0 .. n |-> g[i]]
    BY <1>10
  <2> HIDE DEF Made
  <2> QED BY <1>13, <2>1
<1>15. Passes(g, data)
  BY <1>11, <1>12, <1>14 DEF Passes, n, base, D
<1> QED BY <1>4, <1>15 DEF n

\* crc.c:47-63: for every sequence of bytes the two tables compute the
\* CRC-16/MODBUS of the polynomial, bit by bit.
THEOREM CrcAsReference ==
  ASSUME NEW data \in Seq(Byte)
  PROVE  modbus_CRC16(data) = CrcReference(data) /\ modbus_CRC16(data) \in Word16
<1> DEFINE n == Len(data)
<1>1. PICK r : Remainders(r, data) /\ CrcReference(data) = r[n]
  BY ReferenceSteps
<1>2. PICK m : Passes(m, data) /\ modbus_CRC16(data) = m[n].high_byte * 256 + m[n].low_byte
  BY PassesSteps
<1>3. n \in Nat /\ \A i \in 1 .. n : data[i] \in Byte
  OBVIOUS
<1> HIDE DEF n
<1> DEFINE P == {i \in 0 .. n : r[i] = 256 * m[i].high_byte + m[i].low_byte}
<1>4. 0 \in P
  <2>1. m[0].high_byte = 255 /\ m[0].low_byte = 255
    BY <1>2 DEF Passes
  <2>2. r[0] = 255 * 256 + 255
    BY <1>1 DEF Remainders
  <2> QED BY <1>3, <2>1, <2>2
<1>5. ASSUME NEW i \in 1 .. n, i - 1 \in P PROVE i \in P
  <2> DEFINE p == m[i - 1]
             h == p.high_byte
             l == p.low_byte
             c == CrcStep([high_byte |-> h, low_byte |-> l], data[i])
  <2>1. i \in 1 .. Len(data) /\ i - 1 \in 0 .. Len(data) /\ data[i] \in Byte
    BY <1>3 DEF n
  <2>2. p \in [low_byte : Byte, high_byte : Byte] /\ m[i] = CrcStep(p, data[i])
    BY <1>2, <2>1, SMTT(30) DEF Passes
  <2>3. r[i] = ShiftedByte(Xor(r[i - 1], data[i]))
    BY <1>1, <2>1 DEF Remainders
  <2>4. r[i - 1] = 256 * h + l
    BY <1>5
  <2> HIDE DEF p
  <2>5. h \in Byte /\ l \in Byte /\ p = [high_byte |-> h, low_byte |-> l]
    BY <2>2, PairIs
  <2>6. m[i] = c
    BY <2>2, <2>5
  <2> HIDE DEF h, l
  <2>7. ShiftedByte(Xor(256 * h + l, data[i])) = 256 * c.high_byte + c.low_byte
    BY <2>1, <2>5, TableStep
  <2> HIDE DEF c
  <2>8. r[i] = 256 * m[i].high_byte + m[i].low_byte
    BY <2>3, <2>4, <2>6, <2>7
  <2> QED BY <2>8
<1>6. \A i \in 0 .. n : i \in P
  <2> HIDE DEF P
  <2> QED BY <1>3, <1>4, <1>5, Ladder
<1>7. n \in 0 .. n
  BY <1>3
<1>8. r[n] = 256 * m[n].high_byte + m[n].low_byte
  BY <1>6, <1>7
<1>9. m[n].high_byte \in Byte /\ m[n].low_byte \in Byte /\ r[n] \in Word16
  <2>1. m[n] \in [low_byte : Byte, high_byte : Byte] /\ r[n] \in Word16
    BY <1>1, <1>2, <1>7 DEF Passes, Remainders, n
  <2> QED BY <2>1, PairIs
<1> DEFINE x == m[n].high_byte
           y == m[n].low_byte
<1>10. x \in Nat /\ y \in Nat
  BY <1>9, ByteIs
<1> HIDE DEF x, y
<1>11. x * 256 + y = 256 * x + y
  BY ONLY <1>10
<1> QED BY <1>1, <1>2, <1>8, <1>9, <1>11 DEF x, y

-----------------------------------------------------------------------------
(* Frames and their text.                                                  *)

\* The two bytes of the CRC behind the bytes.
LEMMA BytesOfWord ==
  ASSUME NEW w \in Word16
  PROVE  /\ w % 256 \in Byte /\ w \div 256 \in Byte
         /\ (w % 256) + 256 * (w \div 256) = w
BY DEF Byte, Word16

\* Two bytes more.
WithTwo(s, x, y) == s \o <<x, y>>

LEMMA TwoMore ==
  ASSUME NEW s \in Seq(Byte), NEW x \in Byte, NEW y \in Byte
  PROVE  /\ WithTwo(s, x, y) \in Seq(Byte)
         /\ Len(WithTwo(s, x, y)) = Len(s) + 2 /\ Len(s) \in Nat
         /\ \A i \in 1 .. Len(s) : WithTwo(s, x, y)[i] = s[i]
         /\ WithTwo(s, x, y)[Len(s) + 1] = x /\ WithTwo(s, x, y)[Len(s) + 2] = y
BY DEF WithTwo

LEMMA FirstOfTwoMore ==
  ASSUME NEW s \in Seq(Byte), NEW t \in Seq(Byte), Len(t) = Len(s) + 2, \A i \in 1 .. Len(s) : t[i] = s[i]
  PROVE  SubSeq(t, 1, Len(s)) = s
<1> DEFINE u == SubSeq(t, 1, Len(s))
<1>1. u \in Seq(Byte) /\ Len(u) = Len(s) /\ \A i \in 1 .. Len(s) : u[i] = t[i]
  <2>1. Len(s) \in Nat /\ \A i \in 1 .. Len(s) : t[i] \in Byte /\ 1 + i - 1 = i
    OBVIOUS
  <2> QED BY <2>1
<1> HIDE DEF u
<1>2. Len(u) = Len(s) /\ \A i \in 1 .. Len(u) : u[i] = s[i]
  BY <1>1
<1>3. u = s
  BY ONLY <1>1, <1>2, s \in Seq(Byte), SeqEqual
<1> QED BY <1>3 DEF u

\* crc.c and the frames of statusquery.c and mqtt.c: whatever bytes they begin with, a frame
\* is sound for the receiver and carries them unchanged.
THEOREM FramesSound ==
  ASSUME NEW bytes \in Seq(Byte), bytes # <<>>
  PROVE  /\ Framed(bytes) \in Seq(Byte)
         /\ Len(Framed(bytes)) = Len(bytes) + 2
         /\ \A i \in 1 .. Len(bytes) : Framed(bytes)[i] = bytes[i]
         /\ Sound(Framed(bytes))
<1> DEFINE n == Len(bytes)
           c == modbus_CRC16(bytes)
           x == c % 256
           y == c \div 256
           t == WithTwo(bytes, x, y)
<1>1. c \in Word16 /\ c = CrcReference(bytes)
  BY CrcAsReference
<1>2. x \in Byte /\ y \in Byte /\ x + 256 * y = c
  BY <1>1, BytesOfWord
<1>3. n \in Nat /\ n > 0
  OBVIOUS
<1>4. Framed(bytes) = t
  BY DEF Framed, WithTwo
<1> HIDE DEF c, x, y, n
<1>5. /\ t \in Seq(Byte) /\ Len(t) = n + 2
      /\ \A i \in 1 .. n : t[i] = bytes[i]
      /\ t[n + 1] = x /\ t[n + 2] = y /\ SubSeq(t, 1, n) = bytes
  <2>1. bytes \in Seq(Byte)
    OBVIOUS
  <2>2. /\ t \in Seq(Byte) /\ Len(t) = Len(bytes) + 2
        /\ \A i \in 1 .. Len(bytes) : t[i] = bytes[i]
        /\ t[Len(bytes) + 1] = x /\ t[Len(bytes) + 2] = y
    BY ONLY <2>1, <1>2, TwoMore
  <2> HIDE DEF t
  <2>3. SubSeq(t, 1, Len(bytes)) = bytes
    BY ONLY <2>1, <2>2, FirstOfTwoMore
  <2> QED BY <2>2, <2>3 DEF n
<1> HIDE DEF t
<1>6. Sound(t)
  <2>1. Len(t) > 2 /\ Len(t) - 2 = n /\ Len(t) - 1 = n + 1
    BY <1>3, <1>5
  <2>2. CrcReference(SubSeq(t, 1, Len(t) - 2)) = t[Len(t) - 1] + 256 * t[Len(t)]
    BY <1>1, <1>2, <1>5, <2>1, ZenonT(60)
  <2> QED BY <2>1, <2>2 DEF Sound
<1> QED BY <1>4, <1>5, <1>6 DEF n

\* A digit is read as what it was written for.
LEMMA DigitAndBack ==
  ASSUME NEW half \in 0 .. 15
  PROVE  Digit(half) \in (48 .. 57) \cup (65 .. 70) /\ DigitValue(Digit(half)) = half
<1>1. CASE half <= 9
  <2>1. Digit(half) = half + 48 /\ half + 48 \in 48 .. 57 /\ half + 48 - 48 = half
    BY <1>1 DEF Digit
  <2> QED BY <2>1 DEF DigitValue
<1>2. CASE ~ (half <= 9)
  <2>1. Digit(half) = half - 10 + 65 /\ half - 10 + 65 \in 65 .. 70 /\ half - 10 + 65 - 55 = half
    BY <1>2 DEF Digit
  <2>2. ~ (half - 10 + 65 \in 48 .. 57)
    BY <2>1
  <2> QED BY <2>1, <2>2 DEF DigitValue
<1> QED BY <1>1, <1>2

LEMMA HalvesOfByte ==
  ASSUME NEW b \in Byte
  PROVE  /\ b \div 16 \in Nat /\ b % 16 \in Nat /\ 16 * (b \div 16) + (b % 16) = b
         /\ DigitValue(Digit(b \div 16)) = b \div 16 /\ DigitValue(Digit(b % 16)) = b % 16
         /\ Digit(b \div 16) \in (48 .. 57) \cup (65 .. 70)
         /\ Digit(b % 16) \in (48 .. 57) \cup (65 .. 70)
<1> DEFINE x == b \div 16
           y == b % 16
<1>1. b \in Nat /\ b < 256
  BY ByteIs
<1>2. x \in 0 .. 15
  BY <1>1
<1>3. y \in 0 .. 15
  BY <1>1
<1>4. 16 * x + y = b
  BY <1>1
<1> HIDE DEF x, y
<1>5. x \in Nat /\ y \in Nat
  BY <1>2, <1>3
<1>6. /\ DigitValue(Digit(x)) = x /\ DigitValue(Digit(y)) = y
      /\ Digit(x) \in (48 .. 57) \cup (65 .. 70) /\ Digit(y) \in (48 .. 57) \cup (65 .. 70)
  BY ONLY <1>2, <1>3, DigitAndBack
<1> QED BY <1>4, <1>5, <1>6 DEF x, y

\* strtol of two digits.
LEMMA NumberOfTwo ==
  ASSUME NEW ascii, NEW high \in Nat, NEW low \in Nat, low = high + 1,
         DigitValue(ascii[high]) \in Nat, DigitValue(ascii[low]) \in Nat
  PROVE  Number(ascii, high, low) = 16 * DigitValue(ascii[high]) + DigitValue(ascii[low])
<1> DEFINE d1 == DigitValue(ascii[high])
           d2 == DigitValue(ascii[low])
           Value(upto, k) == IF k < high THEN 0 ELSE upto[k - 1] * 16 + DigitValue(ascii[k])
           Made(upto) == [k \in high - 1 .. low |-> Value(upto, k)]
           f == [k \in high - 1 .. low |-> IF k < high THEN 0 ELSE IF k = high THEN d1 ELSE 16 * d1 + d2]
           g == CHOOSE upto : upto =
                  [k \in high - 1 .. low |->
                     IF k < high THEN 0 ELSE upto[k - 1] * 16 + DigitValue(ascii[k])]
<1>1. Number(ascii, high, low) = g[low]
  BY DEF Number
<1>2. g = CHOOSE upto : upto = Made(upto)
  OBVIOUS
<1>3. /\ \A upto : Value(upto, high - 1) = 0
      /\ \A upto : Value(upto, high) = upto[high - 1] * 16 + d1
      /\ \A upto : Value(upto, low) = upto[high] * 16 + d2
  <2>1. high - 1 < high /\ ~ (high < high) /\ ~ (low < high) /\ low - 1 = high
    OBVIOUS
  <2> QED BY <2>1
<1>4. f[high - 1] = 0 /\ f[high] = d1 /\ f[low] = 16 * d1 + d2 /\ DOMAIN f = high - 1 .. low
  OBVIOUS
<1>5. /\ high - 1 \in high - 1 .. low /\ high \in high - 1 .. low /\ low \in high - 1 .. low
      /\ \A k \in high - 1 .. low : k = high - 1 \/ k = high \/ k = low
  OBVIOUS
<1>6. f = [k \in high - 1 .. low |-> f[k]]
  OBVIOUS
<1>7. d1 \in Nat /\ d2 \in Nat
  OBVIOUS
<1> HIDE DEF Value, f, g, d1, d2
<1>8. 0 * 16 + d1 = d1 /\ d1 * 16 + d2 = 16 * d1 + d2
  BY ONLY <1>7
<1>9. f = Made(f)
  <2>1. ASSUME NEW k \in high - 1 .. low PROVE f[k] = Value(f, k)
    BY <1>3, <1>4, <1>5, <1>8
  <2> QED BY <1>6, <2>1
<1>10. g = Made(g)
  <2> HIDE DEF Made
  <2> QED BY <1>2, <1>9
<1>11. g[high - 1] = 0 /\ g[high] = g[high - 1] * 16 + d1 /\ g[low] = g[high] * 16 + d2
  BY <1>3, <1>5, <1>10
<1> QED BY <1>1, <1>8, <1>11 DEF d1, d2

\* hex2ascii and ascii2hex: what goes as text through JSON comes back byte by byte.
THEOREM TextAndBack ==
  ASSUME NEW bytes \in Seq(Byte)
  PROVE  /\ hex2ascii(bytes) \in Seq((48 .. 57) \cup (65 .. 70))
         /\ Len(hex2ascii(bytes)) = 2 * Len(bytes)
         /\ ascii2hex(hex2ascii(bytes)) = bytes
<1> DEFINE n == Len(bytes)
           C == (48 .. 57) \cup (65 .. 70)
           text == hex2ascii(bytes)
<1>1. n \in Nat /\ bytes \in [1 .. n -> Byte]
  OBVIOUS
<1> HIDE DEF n, C
<1> DEFINE Char(j) == Digit(IF j % 2 = 1 THEN bytes[(j + 1) \div 2] \div 16 ELSE bytes[(j + 1) \div 2] % 16)
<1>3. text = [j \in 1 .. 2 * n |-> Char(j)]
  BY DEF hex2ascii, n
<1>4. \A k \in 1 .. n : /\ 2 * k - 1 \in 1 .. 2 * n /\ 2 * k \in 1 .. 2 * n
                        /\ (2 * k - 1) % 2 = 1 /\ (2 * k) % 2 = 0
                        /\ (2 * k - 1 + 1) \div 2 = k /\ (2 * k + 1) \div 2 = k
                        /\ 2 * k - 1 \in Nat /\ 2 * k \in Nat /\ 2 * k = 2 * k - 1 + 1
  BY <1>1
<1>5. \A j \in 1 .. 2 * n : \E k \in 1 .. n : j = 2 * k - 1 \/ j = 2 * k
  <2> SUFFICES ASSUME NEW j \in 1 .. 2 * n PROVE \E k \in 1 .. n : j = 2 * k - 1 \/ j = 2 * k
    OBVIOUS
  <2> DEFINE k == (j + 1) \div 2
  <2>1. k \in 1 .. n /\ (j = 2 * k - 1 \/ j = 2 * k)
    BY <1>1
  <2> HIDE DEF k
  <2> QED BY <2>1
<1>6. \A k \in 1 .. n : Char(2 * k - 1) = Digit(bytes[k] \div 16) /\ Char(2 * k) = Digit(bytes[k] % 16)
  BY <1>4
<1> HIDE DEF Char, text
<1>7. ASSUME NEW k \in 1 .. n
      PROVE  /\ bytes[k] \in Byte
             /\ text[2 * k - 1] = Digit(bytes[k] \div 16) /\ text[2 * k] = Digit(bytes[k] % 16)
             /\ text[2 * k - 1] \in C /\ text[2 * k] \in C
  <2>1. bytes[k] \in Byte
    BY <1>1
  <2>2. text[2 * k - 1] = Digit(bytes[k] \div 16) /\ text[2 * k] = Digit(bytes[k] % 16)
    BY <1>3, <1>4, <1>6
  <2>3. Digit(bytes[k] \div 16) \in C /\ Digit(bytes[k] % 16) \in C
    BY <2>1, HalvesOfByte DEF C
  <2> QED BY <2>1, <2>2, <2>3
<1>8. text \in Seq(C) /\ Len(text) = 2 * n
  <2>1. \A j \in 1 .. 2 * n : text[j] \in C
    BY <1>5, <1>7
  <2>2. text = [j \in 1 .. 2 * n |-> text[j]]
    BY <1>3
  <2>3. text \in [1 .. 2 * n -> C] /\ 2 * n \in Nat
    BY <1>1, <2>1, <2>2
  <2> QED BY ONLY <2>3
<1>9. ASSUME NEW k \in 1 .. n PROVE Number(text, 2 * k - 1, 2 * k) = bytes[k]
  <2> DEFINE high == 2 * k - 1
             low == 2 * k
             b == bytes[k]
  <2>1. high \in Nat /\ low \in Nat /\ low = high + 1
    BY <1>4
  <2>2. b \in Byte /\ text[high] = Digit(b \div 16) /\ text[low] = Digit(b % 16)
    BY <1>7
  <2> HIDE DEF high, low, b
  <2>3. /\ DigitValue(text[high]) \in Nat /\ DigitValue(text[low]) \in Nat
        /\ 16 * DigitValue(text[high]) + DigitValue(text[low]) = b
    BY ONLY <2>2, HalvesOfByte
  <2>4. Number(text, high, low) = b
    BY <2>1, <2>3, NumberOfTwo
  <2> QED BY <2>4 DEF high, low, b
<1>10. ascii2hex(text) = bytes
  <2>1. Len(text) \div 2 = n
    BY <1>1, <1>8
  <2>2. ascii2hex(text) = [k \in 1 .. n |-> Number(text, 2 * k - 1, 2 * k)]
    BY <2>1 DEF ascii2hex
  <2>3. bytes = [k \in 1 .. n |-> bytes[k]]
    BY <1>1
  <2> QED BY <1>9, <2>2, <2>3
<1> QED BY <1>8, <1>10 DEF text, n, C

\* A text that the receiver takes for a function code and two words.
Asks(text, target, code, one, two) ==
  LET frame == ascii2hex(text)
  IN /\ Sound(frame) /\ Len(frame) = 8
     /\ frame[1] = target % 256 /\ frame[2] = code
     /\ frame[3] * 256 + frame[4] = one % (256 * 256)
     /\ frame[5] * 256 + frame[6] = two % (256 * 256)

LEMMA WordOfBytes ==
  ASSUME NEW n \in Int
  PROVE  /\ (n \div 256) % 256 \in Byte /\ n % 256 \in Byte
         /\ ((n \div 256) % 256) * 256 + (n % 256) = n % (256 * 256)
<1>1. (n \div 256) % 256 \in Byte
  BY DEF Byte
<1>2. n % 256 \in Byte
  BY DEF Byte
<1>3. ((n \div 256) % 256) * 256 + (n % 256) = n % (256 * 256)
  OBVIOUS
<1> QED BY <1>1, <1>2, <1>3

LEMMA SixBytes ==
  ASSUME NEW a \in Byte, NEW code \in Byte, NEW b \in Byte, NEW c \in Byte, NEW d \in Byte, NEW e \in Byte,
         NEW all, all = <<a, code>> \o <<b, c>> \o <<d, e>>
  PROVE  /\ all \in Seq(Byte) /\ Len(all) = 6 /\ all # <<>>
         /\ all[1] = a /\ all[2] = code /\ all[3] = b /\ all[4] = c /\ all[5] = d /\ all[6] = e
<1> DEFINE s == <<a, code>>
           t == WithTwo(s, b, c)
           u == WithTwo(t, d, e)
<1>1. s \in Seq(Byte) /\ Len(s) = 2 /\ s[1] = a /\ s[2] = code
  OBVIOUS
<1> HIDE DEF s
<1>2. /\ t \in Seq(Byte) /\ Len(t) = Len(s) + 2 /\ \A i \in 1 .. Len(s) : t[i] = s[i]
      /\ t[Len(s) + 1] = b /\ t[Len(s) + 2] = c
  <2>1. s \in Seq(Byte) /\ b \in Byte /\ c \in Byte
    BY <1>1
  <2> QED BY ONLY <2>1, TwoMore
<1> HIDE DEF t
<1>3. t \in Seq(Byte) /\ Len(t) = 4 /\ t[1] = a /\ t[2] = code /\ t[3] = b /\ t[4] = c
  BY <1>1, <1>2
<1>4. /\ u \in Seq(Byte) /\ Len(u) = Len(t) + 2 /\ \A i \in 1 .. Len(t) : u[i] = t[i]
      /\ u[Len(t) + 1] = d /\ u[Len(t) + 2] = e
  <2>1. t \in Seq(Byte) /\ d \in Byte /\ e \in Byte
    BY <1>3
  <2> QED BY ONLY <2>1, TwoMore
<1>5. all = u
  BY DEF u, t, s, WithTwo
<1> HIDE DEF u
<1> QED BY <1>3, <1>4, <1>5

\* The frame of a command or of a query, as text and back.
LEMMA Arrives ==
  ASSUME NEW target \in Int, NEW code \in Byte, NEW one \in Int, NEW two \in Int
  PROVE  Asks(hex2ascii(Framed(<<target % 256, code>> \o Bytes2(one) \o Bytes2(two))), target, code, one, two)
<1> DEFINE a == target % 256
           b == (one \div 256) % 256
           c == one % 256
           d == (two \div 256) % 256
           e == two % 256
           all == <<a, code>> \o Bytes2(one) \o Bytes2(two)
           frame == Framed(all)
<1>1. a \in Byte
  BY WordOfBytes
<1>2. b \in Byte /\ c \in Byte /\ b * 256 + c = one % (256 * 256)
  BY WordOfBytes
<1>3. d \in Byte /\ e \in Byte /\ d * 256 + e = two % (256 * 256)
  BY WordOfBytes
<1>4. all = <<a, code>> \o <<b, c>> \o <<d, e>>
  BY DEF Bytes2
<1> HIDE DEF all, a, b, c, d, e
<1>5. /\ all \in Seq(Byte) /\ Len(all) = 6 /\ all # <<>>
      /\ all[1] = a /\ all[2] = code /\ all[3] = b /\ all[4] = c /\ all[5] = d /\ all[6] = e
  BY ONLY <1>1, <1>2, <1>3, <1>4, code \in Byte, SixBytes
<1>7. frame \in Seq(Byte) /\ Len(frame) = 8 /\ Sound(frame) /\ \A i \in 1 .. 6 : frame[i] = all[i]
  <2>1. /\ Framed(all) \in Seq(Byte) /\ Len(Framed(all)) = Len(all) + 2
        /\ \A i \in 1 .. Len(all) : Framed(all)[i] = all[i]
        /\ Sound(Framed(all))
    BY <1>5, FramesSound
  <2> QED BY <1>5, <2>1
<1> HIDE DEF frame
<1>8. frame[1] = a /\ frame[2] = code /\ frame[3] = b /\ frame[4] = c /\ frame[5] = d /\ frame[6] = e
  BY <1>5, <1>7
<1>9. ascii2hex(hex2ascii(frame)) = frame
  BY <1>7, TextAndBack
<1>10. Asks(hex2ascii(frame), target, code, one, two)
  BY <1>2, <1>3, <1>7, <1>8, <1>9 DEF Asks, a
<1> QED BY <1>10 DEF frame, all, a

\* mqtt.c:510, "Compose the Modbus frame to write the control command", statusquery.c: for
\* every PLC, register and value, what the receiver reads from the text of a command
\* is a sound frame with this PLC, register and value (of the value its 16 low bits),
\* and likewise for a query.
THEOREM CommandsReadable ==
  ASSUME NEW target \in Int, NEW plc_channel \in Int, NEW value \in Int,
         NEW start \in Int, NEW num_reg \in Int
  PROVE  /\ Asks(hex2ascii(WriteFrame(target, plc_channel, value)), target, FC_WRITE, plc_channel, value)
         /\ Asks(hex2ascii(ReadFrame(target, start, num_reg)), target, FC_READ, start, num_reg)
<1>1. FC_WRITE \in Byte /\ FC_READ \in Byte
  BY DEF FC_WRITE, FC_READ, Byte
<1> HIDE DEF FC_WRITE, FC_READ
<1> QED BY <1>1, Arrives DEF WriteFrame, ReadFrame

-----------------------------------------------------------------------------
(* The heap.                                                               *)

TextBlocks == [at : Nat, s : Words, n : Seq(Int)]
Items == [at : Nat, level : Nat, type : Kind \cup {"invalid"}, string : TextBlocks, valuestring : TextBlocks, valuedouble : Seq(Int)]
Heaps == [fails : Nat, made : Nat, live : SUBSET Nat, lost : SUBSET Nat, wild : BOOLEAN, over : BOOLEAN]

\* Every live block has been allocated, and no other has been freed.
Sane(heap) == heap \in Heaps /\ heap.live \subseteq 1 .. heap.made /\ heap.wild = FALSE

LEMMA HeapSane == ASSUME NEW k \in Nat PROVE Sane(Heap(k)) /\ Heap(k).live = {} /\ Heap(k).lost = {} /\ Heap(k).fails = k /\ Heap(k).made = 0
BY DEF Sane, Heap, Heaps

\* A call of malloc gives a new block, or none.
LEMMA Allocated ==
  ASSUME NEW heap, Sane(heap)
  PROVE  LET h == allocate(heap)
         IN /\ Sane(h) /\ h.made = heap.made + 1 /\ h.made \in Nat \ {0} /\ h.made \notin heap.live
            /\ h.live = IF Granted(h) THEN heap.live \cup {h.made} ELSE heap.live
            /\ h.lost = heap.lost /\ h.fails = heap.fails /\ h.over = heap.over
<1> DEFINE h == allocate(heap)
<1>1. /\ heap \in Heaps /\ heap.made \in Nat /\ heap.live \subseteq 1 .. heap.made /\ heap.live \subseteq Nat
      /\ heap.fails \in Nat
  BY DEF Sane, Heaps
<1>2. /\ h = [heap EXCEPT !.made = heap.made + 1,
                          !.live = IF heap.made + 1 = heap.fails THEN heap.live ELSE heap.live \cup {heap.made + 1}]
  BY DEF allocate
<1>3. h \in Heaps
  <2> DEFINE live == IF heap.made + 1 = heap.fails THEN heap.live ELSE heap.live \cup {heap.made + 1}
  <2>1. live \subseteq Nat /\ heap.made + 1 \in Nat
    BY <1>1
  <2>2. h = [heap EXCEPT !.made = heap.made + 1, !.live = live]
    BY <1>2
  <2> HIDE DEF live, h
  <2> QED BY <1>1, <2>1, <2>2 DEF Heaps
<1>4. /\ h.made = heap.made + 1 /\ h.lost = heap.lost /\ h.fails = heap.fails /\ h.over = heap.over /\ h.wild = heap.wild
      /\ h.live = IF heap.made + 1 = heap.fails THEN heap.live ELSE heap.live \cup {heap.made + 1}
  BY <1>1, <1>2 DEF Heaps
<1> HIDE DEF h
<1>5. h.live \subseteq 1 .. h.made
  BY <1>1, <1>4
<1>6. h.live = IF Granted(h) THEN heap.live \cup {h.made} ELSE heap.live
  BY <1>4 DEF Granted
<1> QED BY <1>1, <1>3, <1>4, <1>5, <1>6 DEF Sane, h

\* A call of free for live blocks.
LEMMA Deallocated ==
  ASSUME NEW heap, Sane(heap), NEW blocks, blocks \subseteq heap.live
  PROVE  LET h == deallocate(heap, blocks)
         IN /\ Sane(h) /\ h.live = heap.live \ blocks
            /\ h.made = heap.made /\ h.lost = heap.lost /\ h.fails = heap.fails /\ h.over = heap.over
<1> DEFINE h == deallocate(heap, blocks)
<1>1. h = [heap EXCEPT !.live = heap.live \ blocks, !.wild = heap.wild \/ ~ blocks \subseteq heap.live]
  BY DEF deallocate
<1>2. (heap.wild \/ ~ blocks \subseteq heap.live) = FALSE
  BY DEF Sane
<1>3. h = [heap EXCEPT !.live = heap.live \ blocks, !.wild = FALSE]
  BY <1>1, <1>2
<1>4. heap \in Heaps /\ heap.live \in SUBSET Nat /\ heap.live \subseteq 1 .. heap.made
  BY DEF Sane, Heaps
<1> HIDE DEF h
<1>5. h \in Heaps /\ h.live = heap.live \ blocks /\ h.wild = FALSE
      /\ h.made = heap.made /\ h.lost = heap.lost /\ h.fails = heap.fails /\ h.over = heap.over
  BY <1>3, <1>4 DEF Heaps
<1>6. h.live \subseteq 1 .. h.made
  BY <1>4, <1>5
<1> QED BY <1>5, <1>6 DEF Sane, h

-----------------------------------------------------------------------------
(* Items and their blocks.                                                 *)

LEMMA NoTextTyped == NoText \in TextBlocks /\ NoText.at = 0
<1>1. "" \in Words
  BY CjsonAssumption
<1>2. <<>> \in Seq(Int) /\ 0 \in Nat
  OBVIOUS
<1> QED BY <1>1, <1>2 DEF NoText, TextBlocks

LEMMA ItemTyped ==
  ASSUME NEW a \in Nat, NEW level \in Nat
  PROVE  /\ Item(a, level) \in Items /\ Own(Item(a, level)) = {a} \ {0}
         /\ Item(a, level).string = NoText /\ Item(a, level).valuestring = NoText
         /\ Item(a, level).at = a
<1>1. "invalid" \in Kind \cup {"invalid"} /\ <<>> \in Seq(Int)
  OBVIOUS
<1>2. Item(a, level) \in Items
  BY <1>1, NoTextTyped DEF Item, Items
<1>3. Own(Item(a, level)) = {a, NoText.at, NoText.at} \ {0}
  BY DEF Own, Item
<1>4. Own(Item(a, level)) = {a} \ {0}
  BY <1>3, NoTextTyped
<1> QED BY <1>2, <1>4 DEF Item

LEMMA NothingTyped ==
  /\ Item(0, 0) \in Items /\ Own(Item(0, 0)) = {}
  /\ Item(0, 0).string = NoText /\ Item(0, 0).valuestring = NoText
<1>1. {0} \ {0} = {} /\ 0 \in Nat
  OBVIOUS
<1> QED BY <1>1, ItemTyped

LEMMA MarkTyped ==
  ASSUME NEW close \in Kind, NEW level \in Nat
  PROVE  /\ Mark(close, level) \in Items /\ Own(Mark(close, level)) = {}
         /\ Mark(close, level).type = close /\ Mark(close, level).level = level /\ Mark(close, level).string = NoText
<1>1. Mark(close, level) = [at |-> 0, level |-> level, type |-> close, string |-> NoText,
                           valuestring |-> NoText, valuedouble |-> <<>>]
  BY DEF Mark, Item
<1>2. <<>> \in Seq(Int) /\ 0 \in Nat
  OBVIOUS
<1>3. Mark(close, level) \in Items
  BY <1>1, <1>2, NoTextTyped DEF Items
<1>4. Own(Mark(close, level)) = {0, NoText.at, NoText.at} \ {0}
  BY <1>1 DEF Own
<1>5. Own(Mark(close, level)) = {}
  BY <1>4, NoTextTyped
<1> QED BY <1>1, <1>3, <1>5

LEMMA BlocksOfNone == Blocks(<<>>) = {}
BY DEF Blocks

LEMMA BlocksOfMore ==
  ASSUME NEW items \in Seq(Items), NEW i \in Items
  PROVE  Blocks(Append(items, i)) = Blocks(items) \cup Own(i)
<1> DEFINE more == Append(items, i)
<1>1. /\ DOMAIN more = 1 .. Len(items) + 1 /\ DOMAIN items = 1 .. Len(items) /\ Len(items) \in Nat
      /\ more[Len(items) + 1] = i /\ \A k \in 1 .. Len(items) : more[k] = items[k]
  OBVIOUS
<1> HIDE DEF more
<1>2. ASSUME NEW x \in Blocks(more) PROVE x \in Blocks(items) \cup Own(i)
  <2>1. PICK k \in 1 .. Len(items) + 1 : x \in Own(more[k])
    BY <1>1 DEF Blocks
  <2>2. CASE k = Len(items) + 1
    BY <2>1, <2>2, <1>1
  <2>3. CASE k # Len(items) + 1
    <3>1. k \in 1 .. Len(items)
      BY <1>1, <2>3
    <3> QED BY <3>1, <2>1, <1>1 DEF Blocks
  <2> QED BY <2>2, <2>3
<1>3. ASSUME NEW x \in Blocks(items) PROVE x \in Blocks(more)
  <2>1. PICK k \in 1 .. Len(items) : x \in Own(items[k])
    BY <1>1 DEF Blocks
  <2>2. k \in 1 .. Len(items) + 1
    BY <1>1
  <2> QED BY <2>1, <2>2, <1>1 DEF Blocks
<1>4. ASSUME NEW x \in Own(i) PROVE x \in Blocks(more)
  <2>1. Len(items) + 1 \in DOMAIN more
    BY <1>1
  <2> QED BY <2>1, <1>1 DEF Blocks
<1> QED BY <1>2, <1>3, <1>4 DEF more

LEMMA BlocksOfOne == ASSUME NEW i \in Items PROVE Blocks(<<i>>) = Own(i)
<1>1. <<i>> = Append(<<>>, i) /\ <<>> \in Seq(Items)
  OBVIOUS
<1> QED BY <1>1, BlocksOfNone, BlocksOfMore

-----------------------------------------------------------------------------
(* Parsing.                                                                *)

Wants == {"value", "first", "element", "name", "colon", "next", "done", "error"}
Opening == {"array", "object"}
States == [want : Wants, heap : Heaps, items : Seq(Items), item : Items, open : Seq(Opening)]

\* What is live are the blocks of the items, and of the one that is filled in.
Owning(s) ==
  /\ s \in States /\ Sane(s.heap) /\ s.heap.lost = {}
  /\ s.heap.live = Blocks(s.items) \cup Own(s.item)

\* How it is between two tokens.
Between(s) ==
  /\ Owning(s) /\ s.want # "name"
  /\ s.want \in {"first", "next", "element"} => s.open # <<>>
  /\ s.want \in {"value", "colon"} => s.item.valuestring = NoText
  /\ s.want \notin {"value", "colon"} => Own(s.item) = {}
  /\ s.want = "error" => s.items = <<>>

\* Only the heap differs.
LEMMA WithHeap ==
  ASSUME NEW s \in States, NEW h \in Heaps
  PROVE  /\ [s EXCEPT !.heap = h] \in States /\ [s EXCEPT !.heap = h].heap = h
         /\ [s EXCEPT !.heap = h].items = s.items /\ [s EXCEPT !.heap = h].item = s.item
         /\ [s EXCEPT !.heap = h].open = s.open /\ [s EXCEPT !.heap = h].want = s.want
BY DEF States

LEMMA FailedBetween ==
  ASSUME NEW s, Owning(s)
  PROVE  /\ Between(Failed(s)) /\ Failed(s).want = "error" /\ Failed(s).heap.live = {}
         /\ Failed(s).heap.fails = s.heap.fails /\ Failed(s).heap.over = s.heap.over
<1> DEFINE all == Append(s.items, s.item)
           h == cJSON_Delete(s.heap, all)
           nothing == Item(0, 0)
<1>1. s \in States /\ s.items \in Seq(Items) /\ s.item \in Items /\ Sane(s.heap)
  BY DEF Owning, States
<1>2. Blocks(all) = s.heap.live
  BY <1>1, BlocksOfMore DEF Owning
<1>3. /\ Sane(h) /\ h.live = {} /\ h.lost = {} /\ h.fails = s.heap.fails /\ h.over = s.heap.over /\ h \in Heaps
  <2>1. h = deallocate(s.heap, s.heap.live)
    BY <1>2 DEF cJSON_Delete
  <2> HIDE DEF h
  <2>2. s.heap.live \subseteq s.heap.live /\ s.heap.live \ s.heap.live = {}
    OBVIOUS
  <2>3. /\ Sane(h) /\ h.live = {} /\ h.lost = s.heap.lost /\ h.fails = s.heap.fails /\ h.over = s.heap.over
    BY <1>1, <2>1, <2>2, Deallocated
  <2> QED BY <2>3 DEF Owning, Sane
<1>4. nothing \in Items /\ Own(nothing) = {} /\ nothing.valuestring = NoText
  BY NothingTyped
<1>5. Failed(s) = [s EXCEPT !.want = "error", !.heap = h, !.items = <<>>, !.item = nothing, !.open = <<>>]
  BY DEF Failed
<1>6. <<>> \in Seq(Items) /\ <<>> \in Seq(Opening) /\ "error" \in Wants
  BY DEF Wants
<1> HIDE DEF h, nothing
<1>7. /\ Failed(s) \in States
      /\ Failed(s).want = "error" /\ Failed(s).heap = h /\ Failed(s).items = <<>>
      /\ Failed(s).item = nothing /\ Failed(s).open = <<>>
  BY <1>1, <1>3, <1>4, <1>5, <1>6 DEF States
<1> QED BY <1>3, <1>4, <1>7, BlocksOfNone DEF Between, Owning

LEMMA ReturnedBetween ==
  ASSUME NEW s \in States, Sane(s.heap), s.heap.lost = {}, NEW item \in Items, NEW open \in Seq(Opening),
         s.heap.live = Blocks(s.items) \cup Own(item)
  PROVE  /\ Between(Returned(s, item, open))
         /\ Returned(s, item, open).heap = s.heap
<1> DEFINE r == Returned(s, item, open)
           nothing == Item(0, 0)
           want == IF open = <<>> THEN "done" ELSE "next"
<1>1. /\ s.items \in Seq(Items) /\ s.heap \in Heaps /\ Append(s.items, item) \in Seq(Items)
  BY DEF States
<1>2. nothing \in Items /\ Own(nothing) = {}
  BY NothingTyped
<1>3. r = [s EXCEPT !.want = want, !.items = Append(s.items, item), !.item = nothing, !.open = open]
  BY DEF Returned
<1>4. want \in Wants
  BY DEF Wants
<1>5. want \notin {"value", "colon", "name", "error", "first", "element"} /\ (want = "next" => open # <<>>)
  OBVIOUS
<1> HIDE DEF r, nothing, want
<1>6. /\ r \in States /\ r.want = want /\ r.heap = s.heap /\ r.items = Append(s.items, item)
      /\ r.item = nothing /\ r.open = open
  BY <1>1, <1>2, <1>3, <1>4 DEF States
<1>7. Blocks(r.items) = Blocks(s.items) \cup Own(item)
  BY <1>1, <1>6, BlocksOfMore
<1> QED BY <1>2, <1>5, <1>6, <1>7 DEF Between, Owning, r

LEMMA TokenTyped == ASSUME NEW token \in Tokens PROVE token.t \in Kind /\ token.s \in Words /\ token.n \in Seq(Int)
<1>1. CASE token \in [t : {"string"}, s : Words, n : Seq(Int)]
  BY <1>1 DEF Kind
<1>2. CASE token \in [t : {"number"}, s : {""}, n : [1 .. 1 -> Int]]
  <2>1. token.t = "number" /\ token.s = "" /\ token.n \in [1 .. 1 -> Int]
    BY <1>2
  <2>2. token.n \in Seq(Int)
    <3>1. token.n = [k \in 1 .. 1 |-> token.n[k]] /\ \A k \in 1 .. 1 : token.n[k] \in Int
      BY <2>1
    <3> QED BY <3>1
  <2>3. "" \in Words
    BY CjsonAssumption
  <2> QED BY <2>1, <2>2, <2>3 DEF Kind
<1>3. CASE token \in {Punct(c) : c \in Kind \ {"string", "number"}}
  <2>1. PICK c \in Kind : token = [t |-> c, s |-> "", n |-> <<>>]
    BY <1>3 DEF Punct
  <2>2. <<>> \in Seq(Int)
    OBVIOUS
  <2>3. "" \in Words
    BY CjsonAssumption
  <2> QED BY <2>1, <2>2, <2>3
<1> QED BY <1>1, <1>2, <1>3 DEF Tokens

\* What a step of the parser keeps.
StepKeeps(r, s) == Between(r) /\ r.heap.fails = s.heap.fails /\ r.heap.over = s.heap.over

\* A failed allocation, or one whose block has been freed, changes nothing that is owned.
LEMMA OwningWith ==
  ASSUME NEW s, Owning(s), NEW h, Sane(h), h.lost = {}, h.live = s.heap.live
  PROVE  Owning([s EXCEPT !.heap = h])
BY WithHeap DEF Owning, Sane

LEMMA FailedKeeps ==
  ASSUME NEW s, Owning(s), NEW h, Sane(h), h.lost = {}, h.live = s.heap.live, h.fails = s.heap.fails, h.over = s.heap.over
  PROVE  StepKeeps(Failed([s EXCEPT !.heap = h]), s)
<1> DEFINE r == [s EXCEPT !.heap = h]
<1>1. Owning(r) /\ r.heap = h
  BY OwningWith, WithHeap DEF Owning, Sane
<1> HIDE DEF r
<1>2. StepKeeps(Failed(r), s)
  BY <1>1, FailedBetween DEF StepKeeps
<1> QED BY <1>2 DEF r

LEMMA FailedKeepsSame == ASSUME NEW s, Owning(s) PROVE StepKeeps(Failed(s), s)
BY FailedBetween DEF StepKeeps

\* An item with other fields.
LEMMA ItemNamed ==
  ASSUME NEW i \in Items, NEW x \in TextBlocks, NEW j, j = [i EXCEPT !.string = x]
  PROVE  /\ j \in Items /\ j.string = x /\ j.at = i.at /\ j.level = i.level /\ j.type = i.type
         /\ j.valuestring = i.valuestring /\ j.valuedouble = i.valuedouble
         /\ i.string = NoText /\ x.at # 0 => Own(j) = Own(i) \cup {x.at}
<1>1. /\ j \in Items /\ j.string = x /\ j.at = i.at /\ j.level = i.level /\ j.type = i.type
      /\ j.valuestring = i.valuestring /\ j.valuedouble = i.valuedouble
  BY DEF Items
<1>2. i.string = NoText /\ x.at # 0 => Own(j) = Own(i) \cup {x.at}
  BY <1>1, NoTextTyped DEF Own
<1> QED BY <1>1, <1>2

LEMMA ItemText ==
  ASSUME NEW i \in Items, NEW x \in TextBlocks, NEW y \in Kind, NEW j, j = [i EXCEPT !.type = y, !.valuestring = x]
  PROVE  /\ j \in Items /\ j.string = i.string /\ j.at = i.at /\ j.level = i.level /\ j.type = y
         /\ j.valuestring = x /\ j.valuedouble = i.valuedouble
         /\ i.valuestring = NoText /\ x.at # 0 => Own(j) = Own(i) \cup {x.at}
<1>1. /\ j \in Items /\ j.string = i.string /\ j.at = i.at /\ j.level = i.level /\ j.type = y
      /\ j.valuestring = x /\ j.valuedouble = i.valuedouble
  BY DEF Items
<1>2. i.valuestring = NoText /\ x.at # 0 => Own(j) = Own(i) \cup {x.at}
  BY <1>1, NoTextTyped DEF Own
<1> QED BY <1>1, <1>2

LEMMA ItemValue ==
  ASSUME NEW i \in Items, NEW x \in Seq(Int), NEW y \in Kind, NEW j, j = [i EXCEPT !.type = y, !.valuedouble = x]
  PROVE  /\ j \in Items /\ j.string = i.string /\ j.at = i.at /\ j.level = i.level /\ j.type = y
         /\ j.valuestring = i.valuestring /\ j.valuedouble = x /\ Own(j) = Own(i)
BY DEF Items, Own

LEMMA ItemType ==
  ASSUME NEW i \in Items, NEW y \in Kind, NEW j, j = [i EXCEPT !.type = y]
  PROVE  /\ j \in Items /\ j.string = i.string /\ j.at = i.at /\ j.level = i.level /\ j.type = y
         /\ j.valuestring = i.valuestring /\ j.valuedouble = i.valuedouble /\ Own(j) = Own(i)
BY DEF Items, Own

\* The address of a new block.
LEMMA NewText ==
  ASSUME NEW token \in Tokens, NEW a \in Nat \ {0}
  PROVE  [at |-> a, s |-> token.s, n |-> token.n] \in TextBlocks
BY TokenTyped DEF TextBlocks

LEMMA StringKeeps ==
  ASSUME NEW s, Owning(s), s.want \in {"name", "value"}, NEW token \in Tokens,
         s.item.valuestring = NoText, s.want = "name" => s.item.string = NoText
  PROVE  StepKeeps(parse_string(s, token, allocate(s.heap)), s)
<1> DEFINE h == allocate(s.heap)
           string == [at |-> h.made, s |-> token.s, n |-> token.n]
           r == parse_string(s, token, h)
<1>1. s \in States /\ s.item \in Items /\ Sane(s.heap) /\ s.items \in Seq(Items) /\ s.open \in Seq(Opening)
      /\ s.heap.lost = {}
  BY DEF Owning, States
<1>2. /\ Sane(h) /\ h.made \in Nat \ {0} /\ h.made \notin s.heap.live
      /\ h.live = IF Granted(h) THEN s.heap.live \cup {h.made} ELSE s.heap.live
      /\ h.lost = {} /\ h.fails = s.heap.fails /\ h.over = s.heap.over
  BY <1>1, Allocated
<1>3. string \in TextBlocks /\ string.at = h.made
  BY <1>2, NewText
<1>4. r = CASE token.t \notin Strings -> Failed(s)
       [] token.t \in Strings /\ ~ Granted(h) -> Failed([s EXCEPT !.heap = h])
       [] token.t = "badstring" /\ Granted(h) -> Failed([s EXCEPT !.heap = deallocate(h, {h.made})])
       [] token.t = "string" /\ Granted(h) /\ s.want = "name" ->
            [s EXCEPT !.want = "colon", !.heap = h, !.item.string = string]
       [] token.t = "string" /\ Granted(h) /\ s.want = "value" ->
            Returned([s EXCEPT !.heap = h], [s.item EXCEPT !.type = "string", !.valuestring = string], s.open)
  BY DEF parse_string
<1>5. "string" \in Strings /\ "badstring" \in Strings /\ \A x \in Strings : x = "string" \/ x = "badstring"
  BY DEF Strings
<1> HIDE DEF h, string, r
<1>6. CASE token.t \notin Strings
  <2>1. r = Failed(s)
    BY <1>4, <1>5, <1>6
  <2> QED BY <2>1, FailedKeepsSame DEF r, h
<1>7. CASE token.t \in Strings /\ ~ Granted(h)
  <2>1. r = Failed([s EXCEPT !.heap = h])
    BY <1>4, <1>5, <1>7
  <2> QED BY <1>2, <1>7, <2>1, FailedKeeps DEF r, h
<1>8. CASE token.t = "badstring" /\ Granted(h)
  <2> DEFINE g == deallocate(h, {h.made})
  <2>1. r = Failed([s EXCEPT !.heap = g])
    BY <1>4, <1>5, <1>8
  <2>2. {h.made} \subseteq h.live /\ h.live \ {h.made} = s.heap.live
    BY <1>2, <1>8
  <2>3. g = deallocate(h, {h.made})
    OBVIOUS
  <2> HIDE DEF g
  <2>4. Sane(g) /\ g.live = s.heap.live /\ g.lost = {} /\ g.fails = s.heap.fails /\ g.over = s.heap.over
    <3>1. /\ Sane(g) /\ g.live = h.live \ {h.made} /\ g.lost = h.lost /\ g.fails = h.fails /\ g.over = h.over
      BY <1>2, <2>2, <2>3, Deallocated
    <3> QED BY <1>2, <2>2, <3>1
  <2> QED BY <2>1, <2>4, FailedKeeps DEF r, h
<1>9. CASE token.t = "string" /\ Granted(h) /\ s.want = "name"
  <2> DEFINE i == [s.item EXCEPT !.string = string]
  <2>1. r = [s EXCEPT !.want = "colon", !.heap = h, !.item = i]
    BY <1>1, <1>4, <1>5, <1>9 DEF States
  <2>a. i = [s.item EXCEPT !.string = string]
    OBVIOUS
  <2> HIDE DEF i
  <2>2. i \in Items /\ Own(i) = Own(s.item) \cup {h.made} /\ i.valuestring = NoText
    BY <1>1, <1>2, <1>3, <1>9, <2>a, ItemNamed
  <2>3. r \in States /\ r.want = "colon" /\ r.heap = h /\ r.item = i /\ r.items = s.items
    BY <1>1, <1>2, <2>1, <2>2 DEF States, Wants, Sane
  <2>4. h.live = Blocks(s.items) \cup Own(i)
    BY <1>2, <1>9, <2>2 DEF Owning
  <2> QED BY <1>2, <2>2, <2>3, <2>4 DEF StepKeeps, Between, Owning, r, h
<1>10. CASE token.t = "string" /\ Granted(h) /\ s.want = "value"
  <2> DEFINE i == [s.item EXCEPT !.type = "string", !.valuestring = string]
             q == [s EXCEPT !.heap = h]
  <2>1. r = Returned(q, i, s.open)
    BY <1>4, <1>5, <1>10
  <2>2. "string" \in Kind
    BY DEF Kind
  <2>a. i = [s.item EXCEPT !.type = "string", !.valuestring = string]
    OBVIOUS
  <2> HIDE DEF i
  <2>3. i \in Items /\ Own(i) = Own(s.item) \cup {h.made}
    <3> DEFINE old == s.item
    <3>1. old \in Items /\ i = [old EXCEPT !.type = "string", !.valuestring = string] /\ old = s.item
      BY <1>1, <2>a
    <3> HIDE DEF old
    <3>2. /\ i \in Items /\ i.string = old.string /\ i.at = old.at /\ i.valuestring = string
      BY <3>1, <1>3, <2>2 DEF Items
    <3>3. old.valuestring = NoText /\ string.at # 0 => Own(i) = Own(old) \cup {string.at}
      BY <3>2, NoTextTyped DEF Own
    <3> QED BY <1>2, <1>3, <3>1, <3>2, <3>3
  <2>4. q \in States /\ q.heap = h /\ q.items = s.items
    BY <1>1, <1>2, WithHeap DEF Sane
  <2> HIDE DEF i, q
  <2>5. q.heap.live = Blocks(q.items) \cup Own(i)
    BY <1>2, <1>10, <2>3, <2>4 DEF Owning
  <2>6. Between(r) /\ r.heap = h
    BY <1>1, <1>2, <2>1, <2>3, <2>4, <2>5, ReturnedBetween
  <2> QED BY <1>2, <2>6 DEF StepKeeps, r, h
<1>11. StepKeeps(r, s)
  BY <1>5, <1>6, <1>7, <1>8, <1>9, <1>10 DEF r, h
<1> QED BY <1>11 DEF r, h

\* The innermost of the lists that are open.
LEMMA LastOpen ==
  ASSUME NEW open \in Seq(Opening), open # <<>>
  PROVE  /\ Last(open) \in Opening /\ Closing[Last(open)] \in {"endarray", "endobject"}
         /\ Len(open) \in Nat \ {0} /\ Len(open) - 1 \in Nat
         /\ Front(open) \in Seq(Opening) /\ Len(Front(open)) = Len(open) - 1
<1>1. Len(open) \in Nat \ {0} /\ Len(open) - 1 \in Nat
  OBVIOUS
<1>2. open[Len(open)] \in Opening
  BY <1>1
<1>3. Front(open) = SubSeq(open, 1, Len(open) - 1)
  BY DEF Front
<1>4. Front(open) \in Seq(Opening) /\ Len(Front(open)) = Len(open) - 1
  <2>1. \A k \in 1 .. Len(open) - 1 : open[k] \in Opening
    BY <1>1
  <2>2. 1 \in Int /\ Len(open) - 1 \in Int
    BY <1>1
  <2>3. /\ Front(open) \in Seq(Opening)
        /\ Len(Front(open)) = IF 1 <= Len(open) - 1 THEN Len(open) - 1 - 1 + 1 ELSE 0
    BY <1>3, <2>1, <2>2, SubSeqProperties
  <2>4. \A n \in Nat : n # 0 => (IF 1 <= n - 1 THEN n - 1 - 1 + 1 ELSE 0) = n - 1
    OBVIOUS
  <2> QED BY <1>1, <2>3, <2>4
<1>5. Last(open) = "array" \/ Last(open) = "object"
  BY <1>2 DEF Last, Opening
<1>6. Closing[Last(open)] \in {"endarray", "endobject"}
  BY <1>5 DEF Closing
<1> QED BY <1>1, <1>2, <1>4, <1>6 DEF Last

LEMMA OneMoreOpen ==
  ASSUME NEW open \in Seq(Opening), NEW c \in Opening
  PROVE  Append(open, c) \in Seq(Opening) /\ Append(open, c) # <<>>
BY AppendProperties

LEMMA ValueKeeps ==
  ASSUME NEW s, Owning(s), s.want = "value", NEW token \in Tokens, s.item.valuestring = NoText
  PROVE  StepKeeps(parse_value(s, token), s)
<1> DEFINE r == parse_value(s, token)
           v == [s.item EXCEPT !.type = token.t, !.valuedouble = token.n]
<1>1. s \in States /\ s.item \in Items /\ Sane(s.heap) /\ s.items \in Seq(Items) /\ s.open \in Seq(Opening)
      /\ s.heap.lost = {}
  BY DEF Owning, States
<1>2. token.t \in Kind /\ token.n \in Seq(Int)
  BY TokenTyped
<1>3. r = CASE token.t \in Scalar -> Returned(s, v, s.open)
            [] token.t \in Strings -> parse_string(s, token, allocate(s.heap))
            [] Opens(token.t) -> ListBegins(s, token.t)
            [] OTHER -> Failed(s)
  BY DEF parse_value
<1>4. /\ token.t \in Scalar => token.t \notin Strings /\ ~ Opens(token.t)
      /\ token.t \in Strings => ~ Opens(token.t)
      /\ Opens(token.t) => token.t \in Opening
  BY DEF Scalar, Strings, Opens, Closing, Opening
<1>5. CASE token.t \in Scalar
  <2>1. r = Returned(s, v, s.open)
    BY <1>3, <1>4, <1>5
  <2>2. v \in Items /\ Own(v) = Own(s.item)
    <3> DEFINE i == s.item
    <3>1. i \in Items /\ v = [i EXCEPT !.type = token.t, !.valuedouble = token.n] /\ i = s.item
      BY <1>1
    <3> HIDE DEF i, v
    <3>2. /\ v \in Items /\ v.string = i.string /\ v.at = i.at /\ v.valuestring = i.valuestring
      BY <1>2, <3>1 DEF Items
    <3> QED BY <3>1, <3>2 DEF Own
  <2> HIDE DEF v
  <2>3. Between(r) /\ r.heap = s.heap
    BY <1>1, <2>1, <2>2, ReturnedBetween DEF Owning
  <2> QED BY <2>3 DEF StepKeeps
<1>6. CASE token.t \in Strings
  <2>1. r = parse_string(s, token, allocate(s.heap))
    BY <1>3, <1>4, <1>6
  <2> QED BY <2>1, StringKeeps
<1>7. CASE Opens(token.t)
  <2>1. r = ListBegins(s, token.t)
    BY <1>3, <1>4, <1>7
  <2>2. CASE TooDeep(Len(s.open))
    <3>1. r = Failed(s)
      BY <2>1, <2>2 DEF ListBegins
    <3> QED BY <3>1, FailedKeepsSame
  <2>3. CASE ~ TooDeep(Len(s.open))
    <3> DEFINE i == [s.item EXCEPT !.type = token.t]
               nothing == Item(0, 0)
    <3>1. r = [s EXCEPT !.want = "first", !.items = Append(s.items, i), !.item = nothing,
                        !.open = Append(s.open, token.t)]
      BY <2>1, <2>3 DEF ListBegins
    <3>2. i \in Items /\ Own(i) = Own(s.item)
      BY <1>1, <1>2, ItemType
    <3>3. nothing \in Items /\ Own(nothing) = {}
      BY NothingTyped
    <3>4. Append(s.open, token.t) \in Seq(Opening) /\ Append(s.open, token.t) # <<>>
      BY <1>1, <1>4, <1>7, OneMoreOpen
    <3>5. Append(s.items, i) \in Seq(Items) /\ "first" \in Wants
      BY <1>1, <3>2 DEF Wants
    <3>6. Blocks(Append(s.items, i)) = s.heap.live
      BY <1>1, <3>2, BlocksOfMore DEF Owning
    <3> HIDE DEF i, nothing, r
    <3>7. /\ r \in States /\ r.want = "first" /\ r.heap = s.heap /\ r.items = Append(s.items, i)
          /\ r.item = nothing /\ r.open = Append(s.open, token.t)
      BY <1>1, <3>1, <3>3, <3>4, <3>5 DEF States
    <3> QED BY <1>1, <3>3, <3>4, <3>6, <3>7 DEF StepKeeps, Between, Owning, r
  <2> QED BY <2>2, <2>3
<1>8. CASE token.t \notin Scalar /\ token.t \notin Strings /\ ~ Opens(token.t)
  <2>1. r = Failed(s)
    BY <1>3, <1>8
  <2> QED BY <2>1, FailedKeepsSame
<1> QED BY <1>5, <1>6, <1>7, <1>8

\* The block of an element is there.
Starts(n, s, h, want) ==
  /\ Owning(n) /\ n.want = want /\ n.heap = h /\ n.items = s.items /\ n.open = s.open
  /\ n.item = Item(h.made, Len(s.open)) /\ n.item.string = NoText /\ n.item.valuestring = NoText

LEMMA NewElement ==
  ASSUME NEW s, Between(s), Own(s.item) = {}, s.open # <<>>, NEW h, h = allocate(s.heap), Granted(h),
         NEW want \in {"name", "value"},
         NEW n, n = [[s EXCEPT !.heap = h, !.item = Item(h.made, Len(s.open))] EXCEPT !.want = want]
  PROVE  Starts(n, s, h, want)
<1> DEFINE i == Item(h.made, Len(s.open))
<1>1. /\ s \in States /\ Sane(s.heap) /\ s.items \in Seq(Items) /\ s.open \in Seq(Opening) /\ s.heap.lost = {}
      /\ s.heap.live = Blocks(s.items)
  BY DEF Between, Owning, States
<1>2. /\ Sane(h) /\ h.made \in Nat \ {0} /\ h.live = s.heap.live \cup {h.made} /\ h.lost = {}
  BY <1>1, Allocated
<1>3. i \in Items /\ Own(i) = {h.made} /\ i.string = NoText /\ i.valuestring = NoText
  <2>1. Len(s.open) \in Nat /\ h.made \in Nat /\ {h.made} \ {0} = {h.made}
    BY <1>1, <1>2
  <2> QED BY <2>1, ItemTyped
<1> HIDE DEF i
<1>4. n = [s EXCEPT !.heap = h, !.item = i, !.want = want]
  BY DEF i
<1>5. want \in Wants /\ h \in Heaps
  BY <1>2 DEF Wants, Sane
<1>6. n \in States /\ n.heap = h /\ n.item = i /\ n.want = want /\ n.items = s.items /\ n.open = s.open
  BY <1>1, <1>3, <1>4, <1>5 DEF States
<1>7. h.live = Blocks(s.items) \cup Own(i)
  BY <1>1, <1>2, <1>3
<1>8. Owning(n)
  BY <1>2, <1>6, <1>7 DEF Owning
<1> QED BY <1>3, <1>6, <1>8 DEF Starts, i

LEMMA ElementKeeps ==
  ASSUME NEW s, Between(s), Own(s.item) = {}, s.open # <<>>, NEW token \in Tokens
  PROVE  StepKeeps(Element(s, token, allocate(s.heap)), s)
<1> DEFINE h == allocate(s.heap)
           new == [s EXCEPT !.heap = h, !.item = Item(h.made, Len(s.open))]
           r == Element(s, token, h)
<1>1. /\ Sane(s.heap) /\ s.heap.lost = {} /\ Owning(s) /\ s.open \in Seq(Opening)
  BY DEF Between, Owning, States
<1>2. /\ Sane(h) /\ h.live = (IF Granted(h) THEN s.heap.live \cup {h.made} ELSE s.heap.live)
      /\ h.lost = {} /\ h.fails = s.heap.fails /\ h.over = s.heap.over
  BY <1>1, Allocated
<1>3. r = CASE ~ Granted(h) -> Failed([s EXCEPT !.heap = h])
            [] Granted(h) /\ Last(s.open) = "object" -> parse_string([new EXCEPT !.want = "name"], token, allocate(h))
            [] Granted(h) /\ Last(s.open) = "array" -> parse_value([new EXCEPT !.want = "value"], token)
  BY DEF Element
<1>4. Last(s.open) \in {"array", "object"}
  BY <1>1, LastOpen DEF Opening
<1>5. h = allocate(s.heap)
  OBVIOUS
<1> HIDE DEF h, r
<1>7. CASE ~ Granted(h)
  <2>1. r = Failed([s EXCEPT !.heap = h])
    BY <1>3, <1>7
  <2>2. h.live = s.heap.live
    BY <1>2, <1>7
  <2> QED BY <1>1, <1>2, <2>1, <2>2, FailedKeeps DEF r, h
<1>8. CASE Granted(h) /\ Last(s.open) = "object"
  <2> DEFINE n == [new EXCEPT !.want = "name"]
  <2>1. r = parse_string(n, token, allocate(h))
    BY <1>3, <1>8
  <2>a. n = [[s EXCEPT !.heap = h, !.item = Item(h.made, Len(s.open))] EXCEPT !.want = "name"]
    BY SMTT(30)
  <2> HIDE DEF n
  <2>b. Starts(n, s, h, "name")
    BY <1>5, <1>8, <2>a, NewElement
  <2>2. Owning(n) /\ n.want = "name" /\ n.heap = h /\ n.item.string = NoText /\ n.item.valuestring = NoText
    BY <2>b DEF Starts
  <2> HIDE DEF n
  <2>3. StepKeeps(r, n)
    BY <2>1, <2>2, StringKeeps
  <2> QED BY <1>2, <2>2, <2>3 DEF StepKeeps, r, h
<1>9. CASE Granted(h) /\ Last(s.open) = "array"
  <2> DEFINE n == [new EXCEPT !.want = "value"]
  <2>1. r = parse_value(n, token)
    BY <1>3, <1>9
  <2>a. n = [[s EXCEPT !.heap = h, !.item = Item(h.made, Len(s.open))] EXCEPT !.want = "value"]
    OBVIOUS
  <2> HIDE DEF n
  <2>b. Starts(n, s, h, "value")
    BY <1>5, <1>9, <2>a, NewElement
  <2>2. Owning(n) /\ n.want = "value" /\ n.heap = h /\ n.item.valuestring = NoText
    BY <2>b DEF Starts
  <2> HIDE DEF n
  <2>3. StepKeeps(r, n)
    BY <2>1, <2>2, ValueKeeps
  <2> QED BY <1>2, <2>2, <2>3 DEF StepKeeps, r, h
<1> QED BY <1>4, <1>7, <1>8, <1>9

LEMMA ListKeeps ==
  ASSUME NEW s, Between(s), s.want \in {"first", "next"}, NEW token \in Tokens
  PROVE  StepKeeps(ListGoesOn(s, token), s)
<1> DEFINE r == ListGoesOn(s, token)
           m == Mark(token.t, Len(s.open) - 1)
<1>1. /\ s \in States /\ Sane(s.heap) /\ s.items \in Seq(Items) /\ s.open \in Seq(Opening) /\ s.heap.lost = {}
      /\ Owning(s) /\ s.heap.live = Blocks(s.items) /\ s.open # <<>> /\ Own(s.item) = {}
  BY DEF Between, Owning, States
<1>2. token.t \in Kind
  BY TokenTyped
<1>3. r = CASE token.t = Closing[Last(s.open)] -> Returned(s, m, Front(s.open))
            [] token.t = "comma" /\ s.want = "next" -> [s EXCEPT !.want = "element"]
            [] token.t # Closing[Last(s.open)] /\ s.want = "first" -> Element(s, token, allocate(s.heap))
            [] OTHER -> Failed(s)
  BY DEF ListGoesOn
<1>4. Last(s.open) \in {"array", "object"} /\ Closing[Last(s.open)] # "comma"
  BY <1>1, LastOpen DEF Opening
<1>5. CASE token.t = Closing[Last(s.open)]
  <2>1. r = Returned(s, m, Front(s.open))
    BY <1>3, <1>4, <1>5
  <2>2. Len(s.open) - 1 \in Nat /\ Front(s.open) \in Seq(Opening)
    BY <1>1 DEF Front
  <2>3. m \in Items /\ Own(m) = {}
    BY <1>2, <2>2, MarkTyped
  <2> HIDE DEF m
  <2>4. s.heap.live = Blocks(s.items) \cup Own(m)
    BY <1>1, <2>3
  <2>5. Between(r) /\ r.heap = s.heap
    BY <1>1, <2>1, <2>2, <2>3, <2>4, ReturnedBetween
  <2> QED BY <2>5 DEF StepKeeps
<1>6. CASE token.t = "comma" /\ s.want = "next"
  <2>1. r = [s EXCEPT !.want = "element"]
    BY <1>3, <1>4, <1>6
  <2>2. /\ r \in States /\ r.want = "element" /\ r.heap = s.heap /\ r.items = s.items /\ r.item = s.item /\ r.open = s.open
    BY <1>1, <2>1 DEF States, Wants
  <2> HIDE DEF r
  <2> QED BY <1>1, <2>2 DEF StepKeeps, Between, Owning, r
<1>7. CASE token.t # Closing[Last(s.open)] /\ s.want = "first"
  <2>1. r = Element(s, token, allocate(s.heap))
    BY <1>3, <1>7
  <2> QED BY <1>1, <2>1, ElementKeeps
<1>8. CASE token.t # Closing[Last(s.open)] /\ s.want # "first" /\ ~ (token.t = "comma" /\ s.want = "next")
  <2>1. r = Failed(s)
    BY <1>3, <1>8
  <2> QED BY <1>1, <2>1, FailedKeepsSame
<1> QED BY <1>5, <1>6, <1>7, <1>8

\* Every token leaves the parser owning what is live.
LEMMA ReadKeeps ==
  ASSUME NEW s, Between(s), NEW token \in Tokens
  PROVE  StepKeeps(Read(s, token), s)
<1> DEFINE r == Read(s, token)
<1>1. /\ s \in States /\ Owning(s) /\ s.want \in Wants
  BY DEF Between, Owning, States
<1>2. r = CASE s.want \in {"done", "error"} \/ token = Blank -> s
            [] s.want = "value" /\ token # Blank -> parse_value(s, token)
            [] s.want = "colon" /\ token # Blank -> IF token.t = "colon" THEN [s EXCEPT !.want = "value"] ELSE Failed(s)
            [] s.want = "element" /\ token # Blank -> Element(s, token, allocate(s.heap))
            [] s.want \in {"first", "next"} /\ token # Blank -> ListGoesOn(s, token)
  BY DEF Read
<1>3. CASE s.want \in {"done", "error"} \/ token = Blank
  <2>1. r = s
    BY <1>2, <1>3
  <2> QED BY <2>1 DEF StepKeeps
<1>4. CASE s.want = "value" /\ token # Blank
  <2>1. r = parse_value(s, token)
    BY <1>2, <1>4
  <2> QED BY <1>1, <1>4, <2>1, ValueKeeps DEF Between
<1>5. CASE s.want = "colon" /\ token # Blank
  <2>1. r = IF token.t = "colon" THEN [s EXCEPT !.want = "value"] ELSE Failed(s)
    BY <1>2, <1>5
  <2>2. CASE token.t = "colon"
    <3>1. /\ r \in States /\ r.want = "value" /\ r.heap = s.heap /\ r.items = s.items /\ r.item = s.item /\ r.open = s.open
      BY <1>1, <2>1, <2>2 DEF States, Wants
    <3> HIDE DEF r
    <3> QED BY <1>1, <1>5, <3>1 DEF StepKeeps, Between, Owning, r
  <2>3. CASE token.t # "colon"
    BY <1>1, <2>1, <2>3, FailedKeepsSame
  <2> QED BY <2>2, <2>3
<1>6. CASE s.want = "element" /\ token # Blank
  <2>1. r = Element(s, token, allocate(s.heap))
    BY <1>2, <1>6
  <2>2. s.open # <<>> /\ Own(s.item) = {}
    BY <1>6 DEF Between
  <2> QED BY <2>1, <2>2, ElementKeeps
<1>7. CASE s.want \in {"first", "next"} /\ token # Blank
  <2>1. r = ListGoesOn(s, token)
    BY <1>2, <1>7
  <2> QED BY <1>7, <2>1, ListKeeps
<1>8. s.want # "name"
  BY DEF Between
<1> QED BY <1>1, <1>3, <1>4, <1>5, <1>6, <1>7, <1>8 DEF Wants

LEMMA BegunBetween ==
  ASSUME NEW k \in Nat
  PROVE  LET b == Begun(allocate(Heap(k)))
         IN /\ Between(b) /\ b.heap.fails = k /\ b.heap.over = FALSE
            /\ b.items = <<>> /\ b.open = <<>> /\ b.want = IF Granted(allocate(Heap(k))) THEN "value" ELSE "error"
<1> DEFINE h == allocate(Heap(k))
           b == Begun(h)
           i == Item(IF Granted(h) THEN h.made ELSE 0, 0)
<1>1. /\ Sane(h) /\ h.made \in Nat \ {0} /\ h.live = IF Granted(h) THEN {h.made} ELSE {}
      /\ h.lost = {} /\ h.fails = k /\ h.over = FALSE
  BY HeapSane, Allocated, ZenonT(60) DEF Heap
<1>2. b = [want |-> IF Granted(h) THEN "value" ELSE "error", heap |-> h, items |-> <<>>, item |-> i, open |-> <<>>]
  BY DEF Begun
<1>3. i \in Items /\ i.valuestring = NoText /\ Own(i) = h.live
  <2>1. CASE Granted(h)
    <3>1. i = Item(h.made, 0) /\ h.made \in Nat /\ {h.made} \ {0} = {h.made} /\ 0 \in Nat
      BY <1>1, <2>1
    <3> HIDE DEF i, h
    <3> QED BY <1>1, <2>1, <3>1, ItemTyped
  <2>2. CASE ~ Granted(h)
    <3>1. i = Item(0, 0)
      BY <2>2
    <3> HIDE DEF i, h
    <3> QED BY <1>1, <2>2, <3>1, NothingTyped
  <2> QED BY <2>1, <2>2
<1>4. <<>> \in Seq(Items) /\ <<>> \in Seq(Opening) /\ "value" \in Wants /\ "error" \in Wants
  BY DEF Wants
<1> HIDE DEF h, i, b
<1>5. /\ b \in States /\ b.want = (IF Granted(h) THEN "value" ELSE "error") /\ b.heap = h /\ b.items = <<>> /\ b.item = i /\ b.open = <<>>
  BY <1>1, <1>2, <1>3, <1>4 DEF States, Sane
<1>6. b.want # "value" => Own(b.item) = {}
  BY <1>1, <1>3, <1>5
<1>7. Between(b)
  BY <1>1, <1>3, <1>5, <1>6, BlocksOfNone DEF Between, Owning
<1> QED BY <1>1, <1>5, <1>7 DEF b, h

\* Parsing is what it is defined to be, and owns what is live at every token.
Parses(p, k, text) ==
  /\ p[0] = Begun(allocate(Heap(k)))
  /\ \A i \in 1 .. Len(text) : p[i] = Read(p[i - 1], text[i])
  /\ \A i \in 0 .. Len(text) : Between(p[i]) /\ p[i].heap.fails = k /\ p[i].heap.over = FALSE

LEMMA ParsingSteps ==
  ASSUME NEW k \in Nat, NEW text \in Seq(Tokens)
  PROVE  Parses(Parsing(Heap(k), text), k, text)
<1> DEFINE n == Len(text)
           base == Begun(allocate(Heap(k)))
           D == {s \in States : Between(s) /\ s.heap.fails = k /\ s.heap.over = FALSE}
           step == [i \in 1 .. n |-> [s \in D |-> Read(s, text[i])]]
           Value(p, i) == IF i = 0 THEN base ELSE Read(p[i - 1], text[i])
           Made(p) == [i \in 0 .. n |-> Value(p, i)]
           g == CHOOSE after : after =
                  [i \in 0 .. Len(text) |->
                     IF i = 0 THEN Begun(allocate(Heap(k))) ELSE Read(after[i - 1], text[i])]
<1>0. n \in Nat /\ \A i \in 1 .. n : text[i] \in Tokens
  OBVIOUS
<1>a. \A s \in D : Between(s) /\ s.heap.fails = k /\ s.heap.over = FALSE
  OBVIOUS
<1>b. \A s : Between(s) /\ s.heap.fails = k /\ s.heap.over = FALSE => s \in D
  BY DEF Between, Owning
<1>1. base \in D
  BY <1>b, BegunBetween
<1>2. \A i \in 1 .. n : \A s \in D : Read(s, text[i]) \in D
  <2> SUFFICES ASSUME NEW i \in 1 .. n, NEW s \in D PROVE Read(s, text[i]) \in D
    OBVIOUS
  <2> HIDE DEF D, n
  <2>1. Between(s) /\ s.heap.fails = k /\ s.heap.over = FALSE /\ text[i] \in Tokens
    BY <1>0, <1>a
  <2>2. StepKeeps(Read(s, text[i]), s)
    BY <2>1, ReadKeeps
  <2> QED BY <1>b, <2>1, <2>2 DEF StepKeeps
<1>3. step \in [1 .. n -> [D -> D]]
  BY <1>2
<1>4. Parsing(Heap(k), text) = g
  BY DEF Parsing
<1>5. g = CHOOSE p : p = Made(p)
  OBVIOUS
<1>6. \A p : Value(p, 0) = base /\ \A i \in 1 .. n : Value(p, i) = Read(p[i - 1], text[i])
  OBVIOUS
<1> HIDE DEF base, Value, g
<1>7. PICK f \in [0 .. n -> D] : f[0] = base /\ \A i \in 1 .. n : f[i] = step[i][f[i - 1]]
  <2> HIDE DEF step, n, D
  <2>1. Iterates(n, D, base, step)
    BY <1>0, <1>1, <1>3, Iteration
  <2> QED BY <2>1 DEF Iterates
<1> HIDE DEF D
<1>8. \A i \in 1 .. n : f[i] = Read(f[i - 1], text[i])
  <2> SUFFICES ASSUME NEW i \in 1 .. n PROVE f[i] = Read(f[i - 1], text[i])
    OBVIOUS
  <2>1. i - 1 \in 0 .. n
    OBVIOUS
  <2>2. f[i - 1] \in D
    BY <2>1
  <2> QED BY <1>7, <2>2
<1> HIDE DEF n
<1>9. f = Made(f)
  <2>1. ASSUME NEW i \in 0 .. n PROVE f[i] = Value(f, i)
    <3>1. CASE i = 0
      BY <1>6, <1>7, <3>1
    <3>2. CASE i # 0
      <4>1. i \in 1 .. n
        BY <1>0, <3>2
      <4> QED BY <1>6, <1>8, <4>1
    <3> QED BY <3>1, <3>2
  <2> QED BY <2>1
<1>10. g = Made(g)
  <2> HIDE DEF Made
  <2> QED BY <1>5, <1>9
<1>11. g[0] = base
  <2>1. 0 \in 0 .. n
    BY <1>0
  <2> QED BY <1>10, <1>6, <2>1
<1>12. \A i \in 1 .. n : g[i] = Read(g[i - 1], text[i])
  <2> SUFFICES ASSUME NEW i \in 1 .. n PROVE g[i] = Read(g[i - 1], text[i])
    OBVIOUS
  <2>1. i \in 0 .. n
    BY <1>0
  <2> QED BY <1>10, <1>6, <2>1
<1>13. \A i \in 0 .. n : g[i] \in D
  <2> DEFINE P == {i \in 0 .. n : g[i] \in D}
  <2>1. 0 \in P
    BY <1>0, <1>1, <1>11
  <2>2. \A i \in 1 .. n : i - 1 \in P => i \in P
    BY <1>2, <1>12
  <2> HIDE DEF P
  <2>3. \A i \in 0 .. n : i \in P
    BY <1>0, <2>1, <2>2, Ladder
  <2> QED BY <2>3 DEF P
<1> QED BY <1>4, <1>11, <1>12, <1>13, <1>a DEF Parses, n, base

\* A zero byte ends the parsing.
LEMMA EndEnds ==
  ASSUME NEW s, Between(s)
  PROVE  Read(s, Punct("end")).want \in {"done", "error"}
<1> DEFINE token == Punct("end")
           r == Read(s, token)
           h == allocate(s.heap)
           new == [s EXCEPT !.heap = h, !.item = Item(h.made, Len(s.open))]
<1>1. /\ s \in States /\ Owning(s) /\ s.want \in Wants /\ s.open \in Seq(Opening) /\ Sane(s.heap)
      /\ s.heap.lost = {}
      /\ s.want # "name" /\ (s.want \in {"first", "next", "element"} => s.open # <<>> /\ Own(s.item) = {})
  BY DEF Between, Owning, States
<1>2. /\ token.t = "end" /\ token # Blank /\ token.t \notin Strings
  BY DEF Blank, Punct, Strings
<1>3. \A q : Owning(q) => Failed(q).want = "error"
  BY FailedBetween
<1>4. \A q : parse_value(q, token) = Failed(q)
  BY DEF parse_value, Scalar, Strings, Opens, Closing, Punct
<1>5. \A q, x : parse_string(q, token, x) = Failed(q)
  BY <1>2 DEF parse_string
<1>6. ASSUME s.open # <<>>, Own(s.item) = {} PROVE Element(s, token, h).want = "error"
  <2> DEFINE e == Element(s, token, h)
  <2>1. e = CASE ~ Granted(h) -> Failed([s EXCEPT !.heap = h])
            [] Granted(h) /\ Last(s.open) = "object" -> parse_string([new EXCEPT !.want = "name"], token, allocate(h))
            [] Granted(h) /\ Last(s.open) = "array" -> parse_value([new EXCEPT !.want = "value"], token)
    BY DEF Element
  <2>2. Last(s.open) \in {"array", "object"}
    BY <1>1, <1>6, LastOpen DEF Opening
  <2>3. h = allocate(s.heap)
    OBVIOUS
  <2>4. /\ Sane(h) /\ h.lost = {} /\ (~ Granted(h) => h.live = s.heap.live)
    BY <1>1, Allocated
  <2> HIDE DEF token, h, e
  <2>5. CASE ~ Granted(h)
    <3>1. e = Failed([s EXCEPT !.heap = h])
      BY <2>1, <2>5
    <3>2. Sane(h) /\ h.lost = {} /\ h.live = s.heap.live /\ Owning(s)
      BY <1>1, <2>4, <2>5
    <3>3. Owning([s EXCEPT !.heap = h])
      BY <3>2, OwningWith
    <3> QED BY <1>3, <3>1, <3>3 DEF e
  <2>6. CASE Granted(h) /\ Last(s.open) = "object"
    <3> DEFINE n == [new EXCEPT !.want = "name"]
    <3>a. n = [[s EXCEPT !.heap = h, !.item = Item(h.made, Len(s.open))] EXCEPT !.want = "name"]
      OBVIOUS
    <3>1. e = parse_string(n, token, allocate(h))
      BY <2>1, <2>6, SMTT(30)
    <3> HIDE DEF n
    <3>2. Owning(n)
      BY <1>6, <2>3, <2>6, <3>a, NewElement DEF Starts
    <3> QED BY <1>3, <1>5, <3>1, <3>2 DEF e
  <2>7. CASE Granted(h) /\ Last(s.open) = "array"
    <3> DEFINE n == [new EXCEPT !.want = "value"]
    <3>a. n = [[s EXCEPT !.heap = h, !.item = Item(h.made, Len(s.open))] EXCEPT !.want = "value"]
      OBVIOUS
    <3>1. e = parse_value(n, token)
      BY <2>1, <2>7, SMTT(30)
    <3> HIDE DEF n
    <3>2. Owning(n)
      BY <1>6, <2>3, <2>7, <3>a, NewElement DEF Starts
    <3> QED BY <1>3, <1>4, <3>1, <3>2 DEF e
  <2> QED BY <2>2, <2>5, <2>6, <2>7 DEF e
<1>7. r = CASE s.want \in {"done", "error"} \/ token = Blank -> s
            [] s.want = "value" /\ token # Blank -> parse_value(s, token)
            [] s.want = "colon" /\ token # Blank -> IF token.t = "colon" THEN [s EXCEPT !.want = "value"] ELSE Failed(s)
            [] s.want = "element" /\ token # Blank -> Element(s, token, h)
            [] s.want \in {"first", "next"} /\ token # Blank -> ListGoesOn(s, token)
  BY DEF Read
<1>8. ListGoesOn(s, token) = CASE token.t = Closing[Last(s.open)] -> Returned(s, Mark(token.t, Len(s.open) - 1), Front(s.open))
            [] token.t = "comma" /\ s.want = "next" -> [s EXCEPT !.want = "element"]
            [] token.t # Closing[Last(s.open)] /\ s.want = "first" -> Element(s, token, h)
            [] OTHER -> Failed(s)
  BY DEF ListGoesOn
<1> HIDE DEF token, h, r
<1>9. CASE s.want \in {"done", "error"}
  BY <1>7, <1>9 DEF r, token
<1>10. CASE s.want = "value"
  <2>1. r = Failed(s)
    BY <1>2, <1>4, <1>7, <1>10
  <2> QED BY <1>1, <1>3, <2>1 DEF r, token
<1>11. CASE s.want = "colon"
  <2>1. r = Failed(s)
    BY <1>2, <1>7, <1>11
  <2> QED BY <1>1, <1>3, <2>1 DEF r, token
<1>12. CASE s.want = "element"
  <2>1. r = Element(s, token, h)
    BY <1>2, <1>7, <1>12
  <2> QED BY <1>1, <1>6, <1>12, <2>1 DEF r, token
<1>13. CASE s.want \in {"first", "next"}
  <2>1. r = ListGoesOn(s, token)
    BY <1>2, <1>7, <1>13
  <2>2. Closing[Last(s.open)] \in {"endarray", "endobject"}
    BY <1>1, <1>13, LastOpen
  <2>3. CASE s.want = "first"
    <3>1. r = Element(s, token, h)
      BY <1>2, <1>8, <2>1, <2>2, <2>3
    <3> QED BY <1>1, <1>6, <2>3, <3>1 DEF r, token
  <2>4. CASE s.want = "next"
    <3>1. r = Failed(s)
      BY <1>2, <1>8, <2>1, <2>2, <2>4
    <3> QED BY <1>1, <1>3, <3>1 DEF r, token
  <2> QED BY <1>13, <2>3, <2>4
<1>14. \/ s.want \in {"done", "error"} \/ s.want = "value" \/ s.want = "colon" \/ s.want = "element"
       \/ s.want \in {"first", "next"}
  BY <1>1 DEF Wants
<1> QED BY <1>9, <1>10, <1>11, <1>12, <1>13, <1>14

LEMMA WithEnd == ASSUME NEW text \in Seq(Tokens) PROVE Append(text, Punct("end")) \in Seq(Tokens)
<1>1. Punct("end") \in Tokens
  BY DEF Tokens, Kind
<1> QED BY <1>1, AppendProperties

\* Whatever the text and whichever allocation fails: the blocks that cJSON_Parse leaves
\* are those of the items it returns.
THEOREM ParseOwns ==
  ASSUME NEW k \in Nat, NEW text \in Seq(Tokens)
  PROVE  LET r == cJSON_Parse(Heap(k), text)
         IN /\ Sane(r.heap) /\ r.heap.live = Blocks(r.items) /\ r.heap.lost = {}
            /\ r.heap.fails = k /\ r.heap.over = FALSE
            /\ r.items \in Seq(Items) /\ (~ r.ok => r.items = <<>>)
<1> DEFINE all == Append(text, Punct("end"))
           p == Parsing(Heap(k), all)
           n == Len(text) + 1
           s == p[n]
           r == cJSON_Parse(Heap(k), text)
<1>1. all \in Seq(Tokens) /\ n \in Nat /\ Len(all) = n /\ all[n] = Punct("end") /\ n \in 1 .. Len(all)
      /\ n - 1 \in 0 .. Len(all) /\ n \in 0 .. Len(all)
  BY WithEnd, AppendProperties
<1>2. r = [ok |-> s.want = "done", heap |-> s.heap, items |-> s.items]
  BY DEF cJSON_Parse
<1> HIDE DEF all, n
<1>3. Parses(p, k, all)
  BY <1>1, ParsingSteps
<1> HIDE DEF p
<1>4. Between(s) /\ s.heap.fails = k /\ s.heap.over = FALSE
  BY <1>1, <1>3 DEF Parses
<1>5. s = Read(p[n - 1], Punct("end")) /\ Between(p[n - 1])
  BY <1>1, <1>3 DEF Parses
<1>6. s.want \in {"done", "error"}
  BY <1>5, EndEnds
<1>7. s.items \in Seq(Items) /\ Sane(s.heap) /\ s.heap.live = Blocks(s.items) /\ s.heap.lost = {}
      /\ (s.want # "done" => s.items = <<>>)
  BY <1>4, <1>6 DEF Between, Owning, States
<1>8. r.heap = s.heap /\ r.items = s.items /\ (r.ok <=> s.want = "done")
  <2> HIDE DEF r, s
  <2>1. r.heap = s.heap /\ r.items = s.items
    BY <1>2
  <2>2. r.ok = (s.want = "done")
    BY <1>2, Zenon
  <2> QED BY <2>1, <2>2
<1> HIDE DEF r
<1>9. /\ Sane(r.heap) /\ r.heap.live = Blocks(r.items) /\ r.heap.lost = {}
      /\ r.heap.fails = k /\ r.heap.over = FALSE /\ r.items \in Seq(Items)
  BY <1>4, <1>7, <1>8
<1> QED BY <1>7, <1>8, <1>9 DEF r

\* Two sequences one behind the other, place by place.
LEMMA ConcatPlaces ==
  ASSUME NEW S, NEW x \in Seq(S), NEW y \in Seq(S), NEW a, a = Len(x), NEW b, b = Len(y)
  PROVE  /\ x \o y \in Seq(S) /\ Len(x \o y) = a + b /\ a \in Nat /\ b \in Nat
         /\ \A i \in 1 .. a : (x \o y)[i] = x[i]
         /\ \A i \in 1 .. b : (x \o y)[a + i] = y[i]
<1>1. a \in Nat /\ b \in Nat
  OBVIOUS
<1>2. /\ x \o y \in Seq(S) /\ Len(x \o y) = a + b
      /\ \A i \in 1 .. a + b : (x \o y)[i] = IF i <= a THEN x[i] ELSE y[i - a]
  BY ConcatProperties
<1>3. ASSUME NEW i \in 1 .. a PROVE (x \o y)[i] = x[i]
  <2>1. i \in 1 .. a + b /\ i <= a
    BY <1>1
  <2> QED BY <1>2, <2>1
<1>4. ASSUME NEW i \in 1 .. b PROVE (x \o y)[a + i] = y[i]
  <2>1. a + i \in 1 .. a + b /\ ~ (a + i <= a) /\ a + i - a = i
    BY <1>1
  <2> QED BY <1>2, <2>1
<1> QED BY <1>1, <1>2, <1>3, <1>4

\* A child with its name and its level in an object.
Lifted(child, k, name, at) ==
  [child[k] EXCEPT !.level = @ + 1, !.string = IF k = 1 THEN [at |-> at, s |-> name, n |-> <<>>] ELSE @]

IsLifted(c, i, string) ==
  /\ c \in Items /\ c.at = i.at /\ c.level = i.level + 1 /\ c.type = i.type
  /\ c.valuestring = i.valuestring /\ c.valuedouble = i.valuedouble /\ c.string = string

LEMMA ItemLifted ==
  ASSUME NEW i \in Items, NEW string \in TextBlocks, NEW c, c = [i EXCEPT !.level = i.level + 1, !.string = string]
  PROVE  IsLifted(c, i, string)
<1> DEFINE level == i.level + 1
<1>1. level \in Nat /\ level = i.level + 1
  BY DEF Items
<1>2. c = [i EXCEPT !.level = level, !.string = string]
  OBVIOUS
<1> HIDE DEF level
<1>3. /\ c \in Items /\ c.at = i.at /\ c.level = level /\ c.type = i.type
      /\ c.valuestring = i.valuestring /\ c.valuedouble = i.valuedouble /\ c.string = string
  BY <1>1, <1>2 DEF Items
<1> QED BY <1>1, <1>3 DEF IsLifted

LEMMA LiftedIs ==
  ASSUME NEW child \in Seq(Items), NEW k \in 1 .. Len(child), NEW name \in Words, NEW at \in Nat
  PROVE  LET c == Lifted(child, k, name, at)
         IN /\ c \in Items /\ c.at = child[k].at /\ c.level = child[k].level + 1 /\ c.type = child[k].type
            /\ c.valuestring = child[k].valuestring /\ c.valuedouble = child[k].valuedouble
            /\ c.string = IF k = 1 THEN [at |-> at, s |-> name, n |-> <<>>] ELSE child[k].string
<1> DEFINE i == child[k]
           string == IF k = 1 THEN [at |-> at, s |-> name, n |-> <<>>] ELSE i.string
           c == [i EXCEPT !.level = i.level + 1, !.string = string]
<1>1. i \in Items
  OBVIOUS
<1>2. [at |-> at, s |-> name, n |-> <<>>] \in TextBlocks
  <2>1. <<>> \in Seq(Int)
    OBVIOUS
  <2> QED BY <2>1 DEF TextBlocks
<1>3. i = child[k] /\ string \in TextBlocks /\ string = IF k = 1 THEN [at |-> at, s |-> name, n |-> <<>>] ELSE child[k].string
  BY <1>1, <1>2 DEF Items
<1>4. Lifted(child, k, name, at) = c
  BY DEF Lifted
<1>6. c = [i EXCEPT !.level = i.level + 1, !.string = string]
  OBVIOUS
<1> HIDE DEF i, string, c
<1>5. IsLifted(c, i, string)
  BY <1>1, <1>3, <1>6, ItemLifted
<1> QED BY <1>3, <1>4, <1>5 DEF IsLifted

\* Place by place.
LEMMA AttachedIs ==
  ASSUME NEW items \in Seq(Items), NEW child \in Seq(Items), NEW name \in Words, NEW at \in Nat, Len(items) >= 2
  PROVE  LET A == Attached(items, name, at, child)
             l == Len(items)
             m == Len(child)
         IN /\ A \in Seq(Items) /\ Len(A) = l + m
            /\ \A k \in 1 .. l - 1 : A[k] = items[k]
            /\ \A k \in 1 .. m : A[l - 1 + k] = Lifted(child, k, name, at)
            /\ A[l + m] = items[l]
<1> DEFINE A == Attached(items, name, at, child)
           l == Len(items)
           m == Len(child)
           front == Front(items)
           mid == [k \in 1 .. m |-> Lifted(child, k, name, at)]
           last == <<Last(items)>>
<1>1. l \in Nat /\ m \in Nat /\ l >= 2 /\ l - 1 \in 1 .. l /\ l \in 1 .. l /\ DOMAIN child = 1 .. m
  OBVIOUS
<1>2. front = SubSeq(items, 1, l - 1) /\ Last(items) = items[l]
  BY DEF Front, Last
<1>3. A = front \o mid \o last
  BY <1>1 DEF Attached, Lifted
<1>4. \A k \in 1 .. m : Lifted(child, k, name, at) \in Items
  BY LiftedIs
<1>5. mid \in Seq(Items) /\ Len(mid) = m /\ \A k \in 1 .. m : mid[k] = Lifted(child, k, name, at)
  BY <1>1, <1>4
<1>6. last \in Seq(Items) /\ Len(last) = 1 /\ last[1] = items[l]
  BY <1>1, <1>2
<1> HIDE DEF A, mid, last
<1>7. front \in Seq(Items) /\ Len(front) = l - 1 /\ \A k \in 1 .. l - 1 : front[k] = items[k]
  <2>1. 1 \in 1 .. Len(items) /\ l - 1 \in 1 .. Len(items)
    BY <1>1
  <2>2. \A k \in 1 .. l - 1 : items[k] \in Items
    BY <1>1
  <2> HIDE DEF front
  <2>3. /\ front \in Seq(Items) /\ Len(front) = IF 1 <= l - 1 THEN l - 1 - 1 + 1 ELSE 0
        /\ \A k \in 1 .. l - 1 - 1 + 1 : front[k] = items[1 + k - 1]
    BY <1>1, <1>2, <2>2, SubSeqProperties
  <2> HIDE DEF l
  <2>4. (IF 1 <= l - 1 THEN l - 1 - 1 + 1 ELSE 0) = l - 1 /\ l - 1 - 1 + 1 = l - 1 /\ \A k \in 1 .. l - 1 : 1 + k - 1 = k
    BY <1>1
  <2> QED BY <2>3, <2>4
<1> HIDE DEF l, m, front
<1>8. /\ front \o mid \in Seq(Items) /\ Len(front \o mid) = l - 1 + m
      /\ \A k \in 1 .. l - 1 : (front \o mid)[k] = front[k]
      /\ \A k \in 1 .. m : (front \o mid)[l - 1 + k] = mid[k]
  <2> DEFINE a == l - 1
  <2>1. a = Len(front) /\ m = Len(mid) /\ front \in Seq(Items) /\ mid \in Seq(Items)
    BY <1>5, <1>7
  <2> HIDE DEF a
  <2>2. /\ front \o mid \in Seq(Items) /\ Len(front \o mid) = a + m
        /\ \A k \in 1 .. a : (front \o mid)[k] = front[k]
        /\ \A k \in 1 .. m : (front \o mid)[a + k] = mid[k]
    BY ONLY <2>1, ConcatPlaces
  <2> QED BY <2>2 DEF a
<1>9. /\ A \in Seq(Items) /\ Len(A) = l - 1 + m + 1
      /\ \A k \in 1 .. l - 1 + m : A[k] = (front \o mid)[k]
      /\ \A k \in 1 .. 1 : A[l - 1 + m + k] = last[k]
  <2> DEFINE two == front \o mid
             more == l - 1 + m
             one == 1
  <2>1. A = two \o last /\ two \in Seq(Items) /\ more = Len(two) /\ last \in Seq(Items) /\ one = Len(last)
    BY <1>3, <1>6, <1>8
  <2>2. l - 1 + m = more /\ one = 1
    OBVIOUS
  <2> HIDE DEF two, more, one
  <2>3. /\ A \in Seq(Items) /\ Len(A) = more + one
        /\ \A k \in 1 .. more : A[k] = two[k]
        /\ \A k \in 1 .. one : A[more + k] = last[k]
    BY <2>1, ConcatPlaces
  <2> QED BY <2>2, <2>3 DEF two
<1>10. Len(A) = l + m
  BY <1>1, <1>9
<1>11. ASSUME NEW k \in 1 .. l - 1 PROVE A[k] = items[k]
  <2>1. k \in 1 .. l - 1 + m
    BY <1>1
  <2> QED BY <1>7, <1>8, <1>9, <2>1
<1>12. ASSUME NEW k \in 1 .. m PROVE A[l - 1 + k] = Lifted(child, k, name, at)
  <2>1. l - 1 + k \in 1 .. l - 1 + m
    BY <1>1
  <2> QED BY <1>5, <1>8, <1>9, <2>1
<1>13. A[l + m] = items[l]
  <2>1. l - 1 + m + 1 = l + m
    BY <1>1
  <2>2. A[l - 1 + m + 1] = last[1]
    BY <1>9
  <2> QED BY <1>6, <2>1, <2>2
<1> QED BY <1>9, <1>10, <1>11, <1>12, <1>13 DEF A, l, m

LEMMA AttachedBlocks ==
  ASSUME NEW items \in Seq(Items), NEW child \in Seq(Items), NEW name \in Words, NEW at \in Nat \ {0}, Len(items) >= 2,
         child # <<>>, child[1].string = NoText
  PROVE  Blocks(Attached(items, name, at, child)) = Blocks(items) \cup Blocks(child) \cup {at}
<1> DEFINE A == Attached(items, name, at, child)
           l == Len(items)
           m == Len(child)
<1>1. l \in Nat /\ m \in Nat /\ l >= 2 /\ m >= 1 /\ DOMAIN child = 1 .. m /\ DOMAIN items = 1 .. l
  OBVIOUS
<1>2. /\ A \in Seq(Items) /\ Len(A) = l + m
      /\ \A k \in 1 .. l - 1 : A[k] = items[k]
      /\ \A k \in 1 .. m : A[l - 1 + k] = Lifted(child, k, name, at)
      /\ A[l + m] = items[l]
  BY AttachedIs
<1>3. ASSUME NEW k \in 1 .. m
      PROVE  Own(Lifted(child, k, name, at)) = IF k = 1 THEN Own(child[k]) \cup {at} ELSE Own(child[k])
  <2> DEFINE c == Lifted(child, k, name, at)
             i == child[k]
  <2>1. /\ c.at = i.at /\ c.valuestring = i.valuestring
        /\ c.string = IF k = 1 THEN [at |-> at, s |-> name, n |-> <<>>] ELSE i.string
    BY LiftedIs
  <2> HIDE DEF c
  <2>2. CASE k = 1
    <3>1. c.string.at = at /\ i.string.at = 0 /\ at # 0
      BY <2>1, <2>2, NoTextTyped
    <3> HIDE DEF i
    <3>2. Own(c) = Own(i) \cup {at}
      BY <2>1, <3>1 DEF Own
    <3> QED BY <2>2, <3>2 DEF c, i
  <2>3. CASE k # 1
    <3> HIDE DEF i
    <3>1. Own(c) = Own(i)
      BY <2>1, <2>3 DEF Own
    <3> QED BY <2>3, <3>1 DEF c, i
  <2> QED BY <2>2, <2>3
<1> HIDE DEF A, l, m
<1>4. DOMAIN A = 1 .. l + m
  BY <1>2
<1>5. ASSUME NEW x \in Blocks(A) PROVE x \in Blocks(items) \cup Blocks(child) \cup {at}
  <2>1. PICK k \in 1 .. l + m : x \in Own(A[k])
    BY <1>4 DEF Blocks
  <2>2. CASE k \in 1 .. l - 1
    <3>1. k \in 1 .. l /\ A[k] = items[k]
      BY <1>1, <1>2, <2>2
    <3> QED BY <1>1, <2>1, <3>1 DEF Blocks
  <2>3. CASE k = l + m
    <3>1. l \in 1 .. l /\ A[k] = items[l]
      BY <1>1, <1>2, <2>3
    <3> QED BY <1>1, <2>1, <3>1 DEF Blocks
  <2>4. CASE k \notin 1 .. l - 1 /\ k # l + m
    <3>1. k - (l - 1) \in 1 .. m /\ l - 1 + (k - (l - 1)) = k
      BY <1>1, <2>4
    <3>2. A[k] = Lifted(child, k - (l - 1), name, at)
      BY <1>2, <3>1
    <3>3. x \in Own(child[k - (l - 1)]) \cup {at}
      BY <1>3, <2>1, <3>1, <3>2
    <3> QED BY <1>1, <3>1, <3>3 DEF Blocks
  <2> QED BY <2>2, <2>3, <2>4
<1>6. ASSUME NEW x \in Blocks(items) PROVE x \in Blocks(A)
  <2>1. PICK k \in 1 .. l : x \in Own(items[k])
    BY <1>1 DEF Blocks
  <2>2. CASE k = l
    <3>1. l + m \in 1 .. l + m /\ A[l + m] = items[k]
      BY <1>1, <1>2, <2>2
    <3> QED BY <1>4, <2>1, <3>1 DEF Blocks
  <2>3. CASE k # l
    <3>1. k \in 1 .. l + m /\ k \in 1 .. l - 1 /\ A[k] = items[k]
      BY <1>1, <1>2, <2>3
    <3> QED BY <1>4, <2>1, <3>1 DEF Blocks
  <2> QED BY <2>2, <2>3
<1>7. ASSUME NEW k \in 1 .. m, NEW x \in Own(Lifted(child, k, name, at)) PROVE x \in Blocks(A)
  <2>1. l - 1 + k \in 1 .. l + m /\ A[l - 1 + k] = Lifted(child, k, name, at)
    BY <1>1, <1>2
  <2> QED BY <1>4, <1>7, <2>1 DEF Blocks
<1>8. ASSUME NEW x \in Blocks(child) PROVE x \in Blocks(A)
  <2>1. PICK k \in 1 .. m : x \in Own(child[k])
    BY <1>1 DEF Blocks
  <2>2. x \in Own(Lifted(child, k, name, at))
    BY <1>3, <2>1
  <2> QED BY <1>7, <2>2
<1>9. at \in Blocks(A)
  <2>1. 1 \in 1 .. m /\ at \in Own(Lifted(child, 1, name, at))
    BY <1>1, <1>3
  <2> QED BY <1>7, <2>1
<1> QED BY <1>5, <1>6, <1>8, <1>9 DEF A

\* What creating an item adds to a heap: the blocks of the item, or nothing.
Creates(r, heap) ==
  /\ Sane(r.heap) /\ r.heap.live = heap.live \cup Blocks(r.items) /\ Blocks(r.items) \cap heap.live = {}
  /\ r.heap.lost = heap.lost /\ r.heap.fails = heap.fails /\ r.heap.over = heap.over
  /\ r.items \in Seq(Items) /\ r.ok \in BOOLEAN
  /\ r.ok => Len(r.items) >= 1 /\ r.items[1].string = NoText
  /\ ~ r.ok => r.items = <<>>
  /\ heap.fails = 0 => r.ok

\* The block is there: the item that comes of it.
Fresh(a, type, value) == [Item(a, 0) EXCEPT !.type = type, !.valuedouble = value]

LEMMA FreshIs ==
  ASSUME NEW a \in Nat \ {0}, NEW type \in Kind, NEW value \in Seq(Int)
  PROVE  LET i == Fresh(a, type, value)
         IN /\ i \in Items /\ Own(i) = {a} /\ i.string = NoText /\ i.type = type /\ i.valuedouble = value
            /\ i.valuestring = NoText /\ i.level = 0 /\ i.at = a
<1> DEFINE i == Fresh(a, type, value)
<1>1. i = [at |-> a, level |-> 0, type |-> type, string |-> NoText, valuestring |-> NoText, valuedouble |-> value]
  <2> DEFINE j == Item(a, 0)
  <2>1. j = [at |-> a, level |-> 0, type |-> "invalid", string |-> NoText, valuestring |-> NoText, valuedouble |-> <<>>]
    BY DEF Item
  <2>2. i = [j EXCEPT !.type = type, !.valuedouble = value]
    BY DEF Fresh
  <2> HIDE DEF j, i
  <2> QED BY <2>1, <2>2
<1>2. i \in Items
  BY <1>1, NoTextTyped DEF Items
<1>3. /\ i.string = NoText /\ i.type = type /\ i.valuedouble = value
      /\ i.valuestring = NoText /\ i.level = 0 /\ i.at = a
  BY <1>1
<1> HIDE DEF i
<1>4. Own(i) = {a}
  BY <1>3, NoTextTyped DEF Own
<1> QED BY <1>2, <1>3, <1>4 DEF i

LEMMA GotUnlessFails == ASSUME NEW h, h.fails = 0, h.made # 0 PROVE Granted(h)
BY DEF Granted

LEMMA NewItemCreates ==
  ASSUME NEW heap, Sane(heap), NEW type \in Kind, NEW value \in Seq(Int), NEW h, h = allocate(heap)
  PROVE  LET r == New_Item(type, value, h)
         IN /\ Creates(r, heap) /\ (r.ok <=> Granted(h)) /\ r.heap = h
            /\ (r.ok => r.items = <<Fresh(h.made, type, value)>> /\ Len(r.items) = 1)
<1> DEFINE r == New_Item(type, value, h)
           i == Fresh(h.made, type, value)
<1>1. /\ Sane(h) /\ h.made \in Nat \ {0} /\ h.made \notin heap.live
      /\ h.live = IF Granted(h) THEN heap.live \cup {h.made} ELSE heap.live
      /\ h.lost = heap.lost /\ h.fails = heap.fails /\ h.over = heap.over
  BY Allocated
<1>2. r = [ok |-> Granted(h), heap |-> h, items |-> IF Granted(h) THEN <<i>> ELSE <<>>]
  BY DEF New_Item, Fresh
<1>3. r.heap = h /\ r.items = (IF Granted(h) THEN <<i>> ELSE <<>>)
  BY <1>2
<1>4. (r.ok <=> Granted(h)) /\ r.ok \in BOOLEAN
  <2>1. r.ok = Granted(h)
    BY <1>2
  <2>2. Granted(h) \in BOOLEAN
    BY DEF Granted
  <2> HIDE DEF r
  <2> QED BY <2>1, <2>2
<1>5. i \in Items /\ Own(i) = {h.made} /\ i.string = NoText
  BY <1>1, FreshIs
<1>6. heap.fails = 0 => Granted(h)
  BY <1>1, GotUnlessFails
<1> HIDE DEF r, i
<1>7. CASE Granted(h)
  <2>1. r.items = <<i>>
    BY <1>3, <1>7
  <2>2. Blocks(r.items) = {h.made} /\ r.items \in Seq(Items) /\ Len(r.items) = 1 /\ r.items[1] = i
    BY <1>5, <2>1, BlocksOfOne
  <2>3. Creates(r, heap)
    BY <1>1, <1>3, <1>4, <1>5, <1>7, <2>2 DEF Creates
  <2> QED BY <1>3, <1>4, <2>1, <2>2, <2>3 DEF r, i
<1>8. CASE ~ Granted(h)
  <2>1. r.items = <<>> /\ ~ r.ok
    BY <1>3, <1>4, <1>8
  <2>2. Blocks(r.items) = {} /\ r.items \in Seq(Items)
    BY <2>1, BlocksOfNone
  <2>3. Creates(r, heap)
    BY <1>1, <1>3, <1>4, <1>6, <1>8, <2>1, <2>2 DEF Creates
  <2> QED BY <1>3, <1>4, <2>1, <2>3 DEF r, i
<1> QED BY <1>7, <1>8

LEMMA TwoIs == ASSUME NEW S, NEW a \in S, NEW b \in S PROVE Append(<<a>>, b) = <<a, b>>
<1> DEFINE x == <<a>>
           y == <<a, b>>
           z == Append(x, b)
<1>1. x \in Seq(S) /\ Len(x) = 1 /\ x[1] = a
  OBVIOUS
<1>2. y \in Seq(S) /\ Len(y) = 2 /\ y[1] = a /\ y[2] = b
  OBVIOUS
<1> HIDE DEF x, y
<1>3. z \in Seq(S) /\ Len(z) = 2 /\ z[1] = a /\ z[2] = b
  <2>1. z \in Seq(S) /\ Len(z) = Len(x) + 1 /\ z[Len(x) + 1] = b /\ \A i \in 1 .. Len(x) : z[i] = x[i]
    <3>1. x \in Seq(S) /\ b \in S
      BY <1>1
    <3> QED BY <3>1, AppendProperties
  <2>2. 1 \in 1 .. 1 /\ 1 + 1 = 2
    OBVIOUS
  <2> HIDE DEF z
  <2> QED BY <1>1, <2>1, <2>2
<1> HIDE DEF z
<1>4. z = y
  <2>1. \A k \in 1 .. Len(z) : z[k] = y[k]
    BY <1>2, <1>3
  <2> QED BY <1>2, <1>3, <2>1, SeqEqual
<1> QED BY <1>4 DEF x, y, z

LEMMA CreateObjectCreates ==
  ASSUME NEW heap, Sane(heap)
  PROVE  LET r == cJSON_CreateObject(heap)
             i == Fresh(allocate(heap).made, "object", <<>>)
         IN /\ Creates(r, heap) /\ r.heap = allocate(heap) /\ r = [ok |-> r.ok, heap |-> r.heap, items |-> r.items]
            /\ (r.ok => Len(r.items) = 2 /\ r.items = <<i, Mark("endobject", 0)>>)
<1> DEFINE h == allocate(heap)
           q == New_Item("object", <<>>, h)
           i == Fresh(h.made, "object", <<>>)
           m == Mark("endobject", 0)
           r == cJSON_CreateObject(heap)
<1>1. r = IF q.ok THEN [q EXCEPT !.items = Append(q.items, m)] ELSE q
  BY DEF cJSON_CreateObject
<1>2. "object" \in Kind /\ "endobject" \in Kind /\ <<>> \in Seq(Int)
  BY DEF Kind
<1>3. /\ Creates(q, heap) /\ q.heap = h
      /\ (q.ok => q.items = <<i>> /\ Len(q.items) = 1)
  <2> DEFINE g == allocate(heap)
             type == "object"
             none == <<>>
             o == New_Item(type, none, g)
  <2>1. g = allocate(heap) /\ type \in Kind /\ none \in Seq(Int)
    BY <1>2
  <2> HIDE DEF g, type, none
  <2>2. /\ Creates(o, heap) /\ o.heap = g
        /\ (o.ok => o.items = <<Fresh(g.made, type, none)>> /\ Len(o.items) = 1)
    BY <2>1, NewItemCreates
  <2> QED BY <2>2 DEF g, type, none
<1>4. m \in Items /\ Own(m) = {}
  BY <1>2, MarkTyped
<1>5. q = [ok |-> q.ok, heap |-> q.heap, items |-> q.items]
  BY DEF New_Item
<1>6. i \in Items /\ i.string = NoText
  <2>1. h.made \in Nat \ {0}
    BY Allocated
  <2> DEFINE a == h.made
             type == "object"
             none == <<>>
  <2>2. a \in Nat \ {0} /\ type \in Kind /\ none \in Seq(Int)
    BY <1>2, <2>1
  <2> HIDE DEF h, a, type, none
  <2>3. Fresh(a, type, none) \in Items /\ Fresh(a, type, none).string = NoText
    BY <2>2, FreshIs
  <2> QED BY <2>3 DEF a, type, none
<1> HIDE DEF q, m, r, h, i
<1>7. CASE q.ok
  <2>1. r.ok = q.ok /\ r.heap = q.heap /\ r.items = Append(q.items, m) /\ r = [ok |-> r.ok, heap |-> r.heap, items |-> r.items]
    BY <1>1, <1>5, <1>7
  <2>2. Blocks(r.items) = Blocks(q.items)
    BY <1>3, <1>4, <2>1, BlocksOfMore DEF Creates
  <2>3. /\ r.items = <<i, m>> /\ r.items \in Seq(Items) /\ Len(r.items) = 2 /\ r.items[1].string = NoText
    <3>1. r.items = Append(<<i>>, m)
      BY <1>3, <1>7, <2>1
    <3>2. Append(<<i>>, m) = <<i, m>>
      BY <1>4, <1>6, TwoIs
    <3>3. r.items = <<i, m>>
      BY <3>1, <3>2
    <3>4. <<i, m>> \in Seq(Items) /\ Len(<<i, m>>) = 2 /\ <<i, m>>[1] = i
      BY <1>4, <1>6
    <3>5. r.items = <<i, m>> /\ Len(r.items) = 2 /\ r.items[1] = i /\ r.items \in Seq(Items)
      BY <3>3, <3>4
    <3> QED BY <1>6, <3>5
  <2>4. Creates(r, heap)
    BY <1>3, <1>7, <2>1, <2>2, <2>3 DEF Creates
  <2> QED BY <1>3, <2>1, <2>3, <2>4 DEF r, h, m, i
<1>8. CASE ~ q.ok
  <2>1. r = q
    BY <1>1, <1>8
  <2> QED BY <1>3, <1>5, <1>8, <2>1 DEF r, h, m, i
<1> QED BY <1>7, <1>8

\* The item that stands for a token.
LeafOf(i, token) ==
  /\ i \in Items /\ i.level = 0 /\ i.string = NoText
  /\ IF token.t = "string" THEN i.type = "string" /\ i.valuestring.s = token.s /\ i.valuestring.n = token.n
     ELSE i.type = "number" /\ i.valuedouble = token.n

CreatesLeaf(r, heap, token) ==
  Creates(r, heap) /\ (r.ok => Len(r.items) = 1 /\ LeafOf(r.items[1], token))

LEMMA CreateNumberCreates ==
  ASSUME NEW heap, Sane(heap), NEW token \in Tokens, token.t = "number"
  PROVE  CreatesLeaf(cJSON_CreateNumber(heap, token), heap, token)
<1> DEFINE h == allocate(heap)
           value == token.n
           type == "number"
           r == New_Item(type, value, h)
           i == Fresh(h.made, type, value)
<1>1. cJSON_CreateNumber(heap, token) = r
  BY DEF cJSON_CreateNumber
<1>2. type \in Kind /\ value \in Seq(Int) /\ h = allocate(heap) /\ type = "number" /\ value = token.n /\ h.made \in Nat \ {0}
  BY TokenTyped, Allocated DEF Kind
<1> HIDE DEF h, type, value
<1>3. Creates(r, heap) /\ (r.ok => r.items = <<i>> /\ Len(r.items) = 1)
  BY <1>2, NewItemCreates
<1>4. i \in Items /\ i.string = NoText /\ i.type = type /\ i.valuedouble = value /\ i.level = 0
  BY <1>2, FreshIs
<1> HIDE DEF i, r
<1>5. r.ok => r.items[1] = i
  BY <1>3
<1>6. type # "string"
  BY <1>2
<1>7. LeafOf(i, token)
  BY <1>2, <1>4 DEF LeafOf
<1> QED BY <1>1, <1>3, <1>5, <1>7 DEF CreatesLeaf

\* A string has its text copied, or is deleted.
LEMMA StringCopiedIs ==
  ASSUME NEW heap, Sane(heap), NEW r, Creates(r, heap), r.ok, NEW i \in Items, r.items = <<i>>,
         r = [ok |-> r.ok, heap |-> r.heap, items |-> r.items],
         i.string = NoText, i.valuestring = NoText, i.type = "string", i.level = 0,
         NEW token \in Tokens, token.t = "string", NEW h, h = allocate(r.heap)
  PROVE  CreatesLeaf(StringCopied(r, token, h), heap, token)
<1> DEFINE q == StringCopied(r, token, h)
           x == [at |-> h.made, s |-> token.s, n |-> token.n]
           j == [i EXCEPT !.valuestring = x]
<1>1. /\ Sane(h) /\ h.made \in Nat \ {0} /\ h.made \notin r.heap.live
      /\ h.live = IF Granted(h) THEN r.heap.live \cup {h.made} ELSE r.heap.live
      /\ h.lost = heap.lost /\ h.fails = heap.fails /\ h.over = heap.over
  BY Allocated DEF Creates
<1>2. x \in TextBlocks /\ x.at = h.made /\ x.s = token.s /\ x.n = token.n
  BY <1>1, NewText
<1>a. r.items[1] = i /\ Blocks(r.items) = Own(i)
  BY BlocksOfOne
<1>b. r.heap.live = heap.live \cup Own(i) /\ Own(i) \cap heap.live = {}
  BY <1>a DEF Creates
<1>3. CASE Granted(h)
  <2>1. j \in Items /\ j.string = NoText /\ j.level = 0 /\ j.type = "string" /\ j.valuestring = x /\ j.at = i.at
    <3> HIDE DEF x
    <3> QED BY <1>2 DEF Items
  <2>2. q = [r EXCEPT !.heap = h, !.items = <<[r.items[1] EXCEPT !.valuestring = x]>>]
    BY <1>3 DEF StringCopied
  <2>3. q = [r EXCEPT !.heap = h, !.items = <<j>>]
    BY <1>a, <2>2
  <2> HIDE DEF x, j, q
  <2>4. q.ok = r.ok /\ q.heap = h /\ q.items = <<j>>
    BY <2>3
  <2>5. Own(j) = Own(i) \cup {h.made}
    <3>1. Own(i) = {i.at} \ {0}
      BY NoTextTyped DEF Own
    <3>2. Own(j) = {i.at, 0, h.made} \ {0}
      BY <1>2, <2>1, NoTextTyped DEF Own
    <3> QED BY <1>1, <3>1, <3>2
  <2>6. Blocks(q.items) = Own(i) \cup {h.made} /\ q.items \in Seq(Items) /\ Len(q.items) = 1 /\ q.items[1] = j
    BY <2>1, <2>4, <2>5, BlocksOfOne
  <2>7. h.made \notin heap.live
    BY <1>1, <1>b
  <2>8. Creates(q, heap)
    <3>1. q.ok \in BOOLEAN /\ q.ok
      BY <2>4 DEF Creates
    <3>2. q.heap.live = heap.live \cup Blocks(q.items) /\ Blocks(q.items) \cap heap.live = {}
      BY <1>1, <1>3, <1>b, <2>4, <2>6, <2>7
    <3> QED BY <1>1, <2>1, <2>4, <2>6, <3>1, <3>2 DEF Creates
  <2>9. LeafOf(j, token)
    BY <1>2, <2>1 DEF LeafOf
  <2> QED BY <2>6, <2>8, <2>9 DEF CreatesLeaf, q
<1>4. CASE ~ Granted(h)
  <2> DEFINE g == cJSON_Delete(h, r.items)
  <2>1. q = [ok |-> FALSE, heap |-> g, items |-> <<>>]
    BY <1>4 DEF StringCopied
  <2>2. g = deallocate(h, Own(i))
    BY <1>a DEF cJSON_Delete
  <2>3. Own(i) \subseteq h.live /\ h.live \ Own(i) = heap.live
    BY <1>1, <1>4, <1>b
  <2> HIDE DEF g, q
  <2>4. Sane(g) /\ g.live = h.live \ Own(i) /\ g.lost = h.lost /\ g.fails = h.fails /\ g.over = h.over
    BY <1>1, <2>2, <2>3, Deallocated
  <2>5. q.heap = g /\ q.items = <<>> /\ q.ok = FALSE
    BY <2>1
  <2>6. heap.fails # 0
    BY <1>1, <1>4, GotUnlessFails
  <2>7. <<>> \in Seq(Items)
    OBVIOUS
  <2>8. Creates(q, heap)
    BY <1>1, <2>3, <2>4, <2>5, <2>6, <2>7, BlocksOfNone DEF Creates
  <2> QED BY <2>5, <2>8 DEF CreatesLeaf, q
<1> QED BY <1>3, <1>4

LEMMA CreateStringCreates ==
  ASSUME NEW heap, Sane(heap), NEW token \in Tokens, token.t = "string"
  PROVE  CreatesLeaf(cJSON_CreateString(heap, token), heap, token)
<1> DEFINE h == allocate(heap)
           none == <<>>
           type == "string"
           r == New_Item(type, none, h)
           i == Fresh(h.made, type, none)
           g == allocate(r.heap)
<1>1. cJSON_CreateString(heap, token) = IF r.ok THEN StringCopied(r, token, g) ELSE r
  BY DEF cJSON_CreateString
<1>2. type \in Kind /\ none \in Seq(Int) /\ h = allocate(heap) /\ type = "string" /\ h.made \in Nat \ {0}
  <2>1. type \in Kind
    BY DEF Kind
  <2>2. none \in Seq(Int)
    OBVIOUS
  <2>3. h.made \in Nat \ {0}
    BY Allocated
  <2> QED BY <2>1, <2>2, <2>3
<1>a. r = [ok |-> r.ok, heap |-> r.heap, items |-> r.items]
  BY DEF New_Item
<1> HIDE DEF h, type, none
<1>3. Creates(r, heap) /\ (r.ok => r.items = <<i>> /\ Len(r.items) = 1)
  BY <1>2, NewItemCreates
<1>4. i \in Items /\ i.string = NoText /\ i.valuestring = NoText /\ i.type = "string" /\ i.level = 0
  BY <1>2, FreshIs
<1>5. g = allocate(r.heap)
  OBVIOUS
<1> HIDE DEF i, r, g
<1>6. CASE r.ok
  <2>1. CreatesLeaf(StringCopied(r, token, g), heap, token)
    BY <1>3, <1>4, <1>5, <1>6, <1>a, StringCopiedIs
  <2> QED BY <1>1, <1>6, <2>1
<1>7. CASE ~ r.ok
  BY <1>1, <1>3, <1>7 DEF CreatesLeaf
<1> QED BY <1>6, <1>7

\* How many lists are open behind a place.
Depth(items, k) == IF Opens(items[k].type) THEN items[k].level + 1 ELSE items[k].level

\* A value that the program builds.
Valued(i) == \/ i.type = "string" \/ i.type = "object"
             \/ i.type = "number" /\ i.valuedouble \in [1 .. 1 -> Int]

\* What stands where so many lists are open, all of them objects: their end, or a member.
Follows(i, depth) ==
  \/ i.type = "endobject" /\ i.level = depth - 1 /\ i.string = NoText
  \/ Valued(i) /\ i.level = depth /\ i.string.at # 0

\* An item with everything below it.
Grown(items) ==
  /\ items \in Seq(Items) /\ items # <<>>
  /\ Valued(items[1]) /\ items[1].level = 0 /\ items[1].string = NoText
  /\ \A k \in 1 .. Len(items) - 1 : Depth(items, k) >= 1 /\ Follows(items[k + 1], Depth(items, k))
  /\ Depth(items, Len(items)) = 0

LEMMA DepthTyped ==
  ASSUME NEW items \in Seq(Items), NEW k \in 1 .. Len(items)
  PROVE  Depth(items, k) \in Nat
<1> DEFINE i == items[k]
<1>1. i \in Items
  OBVIOUS
<1> HIDE DEF i
<1>2. i.level \in Nat
  BY <1>1 DEF Items
<1> QED BY <1>2 DEF Depth, i

\* The last place of an object is its mark.
LEMMA GrownEnds ==
  ASSUME NEW items, Grown(items), items[1].type = "object", NEW l, l = Len(items)
  PROVE  l \in Nat /\ l >= 2 /\ items[l].type = "endobject" /\ items[l].level = 0 /\ items[l].string = NoText /\ Depth(items, l - 1) = 1
<1>1. l \in Nat /\ l >= 1 /\ items \in Seq(Items)
  BY DEF Grown
<1>2. Depth(items, 1) = 1
  BY DEF Grown, Depth, Opens, Closing
<1>3. l >= 2
  <2>1. l # 1
    BY <1>2 DEF Grown
  <2> QED BY <1>1, <2>1
<1>4. l - 1 \in 1 .. l - 1 /\ l - 1 + 1 = l /\ l - 1 \in 1 .. l /\ l \in 1 .. l
  BY <1>1, <1>3
<1>5. Depth(items, l - 1) >= 1 /\ Follows(items[l], Depth(items, l - 1)) /\ Depth(items, l) = 0
  BY <1>4 DEF Grown
<1> DEFINE i == items[l]
           d == Depth(items, l - 1)
<1>6. d \in Nat /\ i \in Items /\ d >= 1 /\ Follows(i, d)
  BY <1>1, <1>4, <1>5, DepthTyped
<1>7. (IF Opens(i.type) THEN i.level + 1 ELSE i.level) = 0
  BY <1>5 DEF Depth
<1> HIDE DEF i, d
<1>8. i.level \in Nat
  BY <1>6 DEF Items
<1>9. i.level # d
  BY <1>6, <1>7, <1>8
<1>10. i.type = "endobject" /\ i.level = d - 1 /\ i.string = NoText
  BY <1>6, <1>9 DEF Follows
<1>11. ~ Opens(i.type)
  BY <1>10 DEF Opens, Closing
<1>12. i.level = 0 /\ d = 1
  BY <1>6, <1>7, <1>10, <1>11
<1> QED BY <1>1, <1>3, <1>10, <1>12 DEF i, d

LEMMA LiftedFollows ==
  ASSUME NEW i \in Items, NEW c, NEW x, IsLifted(c, i, x), NEW d \in Nat
  PROVE  /\ Follows(i, d) /\ x = i.string => Follows(c, d + 1)
         /\ Valued(i) /\ x.at # 0 => Follows(c, i.level + 1)
         /\ (IF Opens(c.type) THEN c.level + 1 ELSE c.level) = (IF Opens(i.type) THEN i.level + 1 ELSE i.level) + 1
<1>1. /\ c.level = i.level + 1 /\ c.type = i.type /\ c.string = x /\ c.valuedouble = i.valuedouble
      /\ c.level \in Nat /\ i.level \in Nat
  BY DEF IsLifted, Items
<1>2. Valued(c) <=> Valued(i)
  BY <1>1 DEF Valued
<1>3. ASSUME Follows(i, d), x = i.string PROVE Follows(c, d + 1)
  <2>1. CASE i.type = "endobject" /\ i.level = d - 1 /\ i.string = NoText
    <3>1. d - 1 + 1 = d + 1 - 1
      OBVIOUS
    <3> QED BY <1>1, <1>3, <2>1, <3>1 DEF Follows
  <2>2. CASE Valued(i) /\ i.level = d /\ i.string.at # 0
    BY <1>1, <1>2, <1>3, <2>2 DEF Follows
  <2> QED BY <1>3, <2>1, <2>2 DEF Follows
<1>4. ASSUME Valued(i), x.at # 0 PROVE Follows(c, i.level + 1)
  BY <1>1, <1>2, <1>4 DEF Follows
<1>5. (IF Opens(c.type) THEN c.level + 1 ELSE c.level) = (IF Opens(i.type) THEN i.level + 1 ELSE i.level) + 1
  BY <1>1
<1> QED BY <1>3, <1>4, <1>5

\* One more member of an object.
LEMMA AttachedGrown ==
  ASSUME NEW items, Grown(items), items[1].type = "object", NEW child, Grown(child), NEW name \in Words, NEW at \in Nat \ {0}
  PROVE  LET A == Attached(items, name, at, child)
         IN Grown(A) /\ A[1] = items[1] /\ Len(A) = Len(items) + Len(child)
<1> DEFINE A == Attached(items, name, at, child)
           l == Len(items)
           m == Len(child)
<1>1. /\ items \in Seq(Items) /\ child \in Seq(Items) /\ l \in Nat /\ l >= 2 /\ m \in Nat /\ m >= 1
      /\ items[l].type = "endobject" /\ items[l].level = 0 /\ items[l].string = NoText /\ Depth(items, l - 1) = 1
  BY GrownEnds DEF Grown
<1>2. /\ A \in Seq(Items) /\ Len(A) = l + m
      /\ \A k \in 1 .. l - 1 : A[k] = items[k]
      /\ \A k \in 1 .. m : A[l - 1 + k] = Lifted(child, k, name, at)
      /\ A[l + m] = items[l]
  <2>1. items \in Seq(Items) /\ child \in Seq(Items) /\ at \in Nat /\ Len(items) >= 2
    BY <1>1
  <2> QED BY <2>1, AttachedIs
<1>3. ASSUME NEW k \in 1 .. m
      PROVE  \E x : /\ IsLifted(Lifted(child, k, name, at), child[k], x)
                    /\ (k = 1 => x.at # 0) /\ (k # 1 => x = child[k].string)
  <2> DEFINE c == Lifted(child, k, name, at)
             x == IF k = 1 THEN [at |-> at, s |-> name, n |-> <<>>] ELSE child[k].string
  <2>1. /\ c \in Items /\ c.at = child[k].at /\ c.level = child[k].level + 1 /\ c.type = child[k].type
        /\ c.valuestring = child[k].valuestring /\ c.valuedouble = child[k].valuedouble
        /\ c.string = x
    BY <1>1, LiftedIs
  <2>2. (k = 1 => x.at # 0) /\ (k # 1 => x = child[k].string)
    OBVIOUS
  <2> HIDE DEF c, x
  <2>3. IsLifted(c, child[k], x)
    BY <2>1 DEF IsLifted
  <2> QED BY <2>2, <2>3 DEF c
<1>4. ASSUME NEW k \in 1 .. m PROVE child[k] \in Items
  BY <1>1
<1> HIDE DEF A, l, m
<1>5. \A k \in 1 .. l - 1 : Depth(A, k) = Depth(items, k)
  BY <1>2 DEF Depth
<1>6. ASSUME NEW k \in 1 .. m PROVE Depth(A, l - 1 + k) = Depth(child, k) + 1
  <2> DEFINE c == Lifted(child, k, name, at)
             i == child[k]
  <2>1. PICK x : IsLifted(c, i, x)
    BY <1>3
  <2>2. i \in Items /\ A[l - 1 + k] = c
    BY <1>2, <1>4
  <2> HIDE DEF c, i
  <2>3. (IF Opens(c.type) THEN c.level + 1 ELSE c.level) = (IF Opens(i.type) THEN i.level + 1 ELSE i.level) + 1
    BY <2>1, <2>2, LiftedFollows
  <2> QED BY <2>2, <2>3 DEF Depth, i
<1>7. Depth(A, l + m) = 0
  <2>1. ~ Opens(items[l].type)
    BY <1>1 DEF Opens, Closing
  <2> QED BY <1>1, <1>2, <2>1 DEF Depth
<1>8. ASSUME NEW k \in 1 .. l + m - 1 PROVE Depth(A, k) >= 1 /\ Follows(A[k + 1], Depth(A, k))
  <2>1. CASE k \in 1 .. l - 2
    <3>1. k \in 1 .. l - 1 /\ k + 1 \in 1 .. l - 1 /\ k \in 1 .. Len(items) - 1
      BY <1>1, <2>1 DEF l
    <3>2. Depth(items, k) >= 1 /\ Follows(items[k + 1], Depth(items, k))
      BY <3>1 DEF Grown
    <3> QED BY <1>2, <1>5, <3>1, <3>2
  <2>2. CASE k = l - 1
    <3>1. k \in 1 .. l - 1 /\ 1 \in 1 .. m /\ k + 1 = l - 1 + 1
      BY <1>1, <2>2
    <3>2. Depth(A, k) = 1
      BY <1>1, <1>5, <2>2, <3>1
    <3> DEFINE c == Lifted(child, 1, name, at)
               i == child[1]
    <3>3. PICK x : IsLifted(c, i, x) /\ x.at # 0
      BY <1>3, <3>1
    <3>4. i \in Items /\ A[k + 1] = c /\ Valued(i) /\ i.level = 0
      BY <1>2, <1>4, <3>1 DEF Grown
    <3> HIDE DEF c, i
    <3>5. Follows(c, i.level + 1)
      BY <3>3, <3>4, LiftedFollows
    <3>6. i.level + 1 = 1
      BY <3>4
    <3> QED BY <3>2, <3>4, <3>5, <3>6
  <2>3. CASE k \in l .. l + m - 2
    <3> DEFINE j == k - (l - 1)
    <3>1. j \in 1 .. m /\ j + 1 \in 1 .. m /\ j + 1 # 1 /\ j \in 1 .. Len(child) - 1 /\ l - 1 + j = k /\ l - 1 + (j + 1) = k + 1
      <4>1. l \in Nat /\ m \in Nat /\ l >= 2 /\ m >= 1 /\ k \in Int /\ k >= l /\ k <= l + m - 2
        BY <1>1, <2>3
      <4>2. j \in 1 .. m - 1 /\ l - 1 + j = k
        BY <4>1
      <4>3. Len(child) = m
        BY DEF m
      <4> HIDE DEF j
      <4> QED BY <4>1, <4>2, <4>3
    <3> HIDE DEF j
    <3>2. Depth(child, j) >= 1 /\ Follows(child[j + 1], Depth(child, j)) /\ Depth(child, j) \in Nat
      BY <1>1, <3>1, DepthTyped DEF Grown, m
    <3>3. Depth(A, k) = Depth(child, j) + 1
      BY <1>6, <3>1
    <3> DEFINE c == Lifted(child, j + 1, name, at)
               i == child[j + 1]
               d == Depth(child, j)
    <3>4. PICK x : IsLifted(c, i, x) /\ x = i.string
      BY <1>3, <3>1
    <3>5. i \in Items /\ A[k + 1] = c /\ Follows(i, d) /\ d \in Nat /\ d >= 1
      BY <1>2, <1>4, <3>1, <3>2
    <3> HIDE DEF c, i, d
    <3>6. Follows(c, d + 1)
      BY <3>4, <3>5, LiftedFollows
    <3>7. Depth(A, k) = d + 1
      BY <3>3 DEF d
    <3> QED BY <3>5, <3>6, <3>7
  <2>4. CASE k = l + m - 1
    <3>1. m \in 1 .. m /\ l - 1 + m = k /\ k + 1 = l + m
      BY <1>1, <2>4
    <3>2. Depth(child, m) = 0
      BY DEF Grown, m
    <3>3. Depth(A, k) = 1
      BY <1>6, <3>1, <3>2
    <3>4. A[k + 1] = items[l]
      BY <1>2, <3>1
    <3>5. Follows(items[l], 1)
      BY <1>1 DEF Follows
    <3> QED BY <3>3, <3>4, <3>5
  <2>5. k \in 1 .. l - 2 \/ k = l - 1 \/ k \in l .. l + m - 2 \/ k = l + m - 1
    BY <1>1
  <2> QED BY <2>1, <2>2, <2>3, <2>4, <2>5
<1>9. A[1] = items[1]
  <2>1. 1 \in 1 .. l - 1
    BY <1>1
  <2> QED BY <1>2, <2>1
<1>10. Grown(A)
  <2>1. A # <<>>
    BY <1>1, <1>2
  <2>2. l + m = Len(A)
    BY <1>2
  <2>3. Depth(A, Len(A)) = 0 /\ \A k \in 1 .. Len(A) - 1 : Depth(A, k) >= 1 /\ Follows(A[k + 1], Depth(A, k))
    <3>1. Depth(A, Len(A)) = 0
      BY <1>7, <2>2
    <3>2. ASSUME NEW k \in 1 .. Len(A) - 1 PROVE Depth(A, k) >= 1 /\ Follows(A[k + 1], Depth(A, k))
      <4>1. k \in 1 .. l + m - 1
        BY <1>1, <2>2
      <4> QED BY <4>1, <1>8
    <3> QED BY <3>1, <3>2
  <2>4. Valued(A[1]) /\ A[1].level = 0 /\ A[1].string = NoText
    BY <1>9 DEF Grown
  <2> QED BY <1>2, <2>1, <2>3, <2>4 DEF Grown
<1> QED BY <1>2, <1>9, <1>10 DEF A, l, m

\* An item that stands for a token has nothing below it.
LEMMA LeafGrown ==
  ASSUME NEW items \in Seq(Items), Len(items) = 1, NEW token \in Tokens, token.t \in {"string", "number"}, LeafOf(items[1], token)
  PROVE  Grown(items)
<1> DEFINE i == items[1]
<1>1. i \in Items /\ i.level = 0 /\ i.string = NoText /\ i.type \in {"string", "number"}
      /\ (i.type = "number" => i.valuedouble = token.n /\ token.t = "number")
  BY DEF LeafOf
<1>2. token.t = "number" => token.n \in [1 .. 1 -> Int]
  <2> SUFFICES ASSUME token.t = "number" PROVE token.n \in [1 .. 1 -> Int]
    OBVIOUS
  <2>1. token \notin [t : {"string"}, s : Words, n : Seq(Int)]
    OBVIOUS
  <2>2. token \notin {Punct(c) : c \in Kind \ {"string", "number"}}
    <3>1. \A c : Punct(c).t = c
      BY DEF Punct
    <3> QED BY <3>1
  <2>3. token \in [t : {"number"}, s : {""}, n : [1 .. 1 -> Int]]
    BY <2>1, <2>2 DEF Tokens
  <2> QED BY <2>3
<1> HIDE DEF i
<1>3. Valued(i) /\ ~ Opens(i.type)
  BY <1>1, <1>2 DEF Valued, Opens, Closing
<1>4. Depth(items, 1) = 0
  BY <1>1, <1>3 DEF Depth, i
<1>5. 1 .. Len(items) - 1 = {} /\ items # <<>>
  OBVIOUS
<1> QED BY <1>1, <1>3, <1>4, <1>5 DEF Grown, i

\* An empty object.
LEMMA EmptyGrown ==
  ASSUME NEW items \in Seq(Items), Len(items) = 2, NEW i \in Items, NEW m \in Items, items = <<i, m>>,
         i.type = "object", i.level = 0, i.string = NoText, m.type = "endobject", m.level = 0, m.string = NoText
  PROVE  Grown(items) /\ items[1].type = "object"
<1>1. items[1] = i /\ items[2] = m /\ items # <<>>
  OBVIOUS
<1>2. Opens(i.type) /\ ~ Opens(m.type) /\ Valued(i)
  BY DEF Opens, Closing, Valued
<1>3. Depth(items, 1) = 1 /\ Depth(items, 2) = 0
  BY <1>1, <1>2 DEF Depth
<1>4. Follows(m, 1)
  BY DEF Follows
<1>5. \A k \in 1 .. Len(items) - 1 : k = 1 /\ k + 1 = 2
  OBVIOUS
<1> QED BY <1>1, <1>2, <1>3, <1>4, <1>5 DEF Grown

\* A concatenation part by part.
ConcatUpto(parts) ==
  CHOOSE upto : upto = [i \in 0 .. Len(parts) |-> IF i = 0 THEN <<>> ELSE upto[i - 1] \o parts[i]]

Concats(f, S, parts) ==
  /\ f[0] = <<>>
  /\ \A i \in 1 .. Len(parts) : f[i] = f[i - 1] \o parts[i]
  /\ \A i \in 0 .. Len(parts) : f[i] \in Seq(S)

LEMMA ConcatSteps ==
  ASSUME NEW S, NEW parts \in Seq(Seq(S))
  PROVE  Concats(ConcatUpto(parts), S, parts) /\ Concat(parts) = ConcatUpto(parts)[Len(parts)]
<1> DEFINE n == Len(parts)
           base == <<>>
           D == Seq(S)
           step == [i \in 1 .. n |-> [x \in D |-> x \o parts[i]]]
           Value(p, i) == IF i = 0 THEN base ELSE p[i - 1] \o parts[i]
           Made(p) == [i \in 0 .. n |-> Value(p, i)]
           g == CHOOSE upto : upto =
                  [i \in 0 .. Len(parts) |->
                     IF i = 0 THEN <<>> ELSE upto[i - 1] \o parts[i]]
<1>0. n \in Nat
  OBVIOUS
<1>1. base \in D
  OBVIOUS
<1>2. \A i \in 1 .. n : \A x \in D : x \o parts[i] \in D
  <2> SUFFICES ASSUME NEW i \in 1 .. n, NEW x \in D PROVE x \o parts[i] \in D
    OBVIOUS
  <2>1. parts[i] \in Seq(S) /\ x \in Seq(S)
    OBVIOUS
  <2> QED BY <2>1, ConcatProperties
<1>3. step \in [1 .. n -> [D -> D]]
  BY <1>2
<1>4. Concat(parts) = g[Len(parts)] /\ ConcatUpto(parts) = g
  BY DEF Concat, ConcatUpto
<1>5. g = CHOOSE p : p = Made(p)
  OBVIOUS
<1> HIDE DEF base
<1>6. \A p : Value(p, 0) = base /\ \A i \in 1 .. n : Value(p, i) = p[i - 1] \o parts[i]
  <2>1. \A i \in 1 .. n : i # 0
    OBVIOUS
  <2> QED BY <2>1, Zenon
<1> HIDE DEF Value, g
<1>7. PICK f \in [0 .. n -> D] : f[0] = base /\ \A i \in 1 .. n : f[i] = step[i][f[i - 1]]
  <2> HIDE DEF step, n, D
  <2>1. Iterates(n, D, base, step)
    BY <1>0, <1>1, <1>3, Iteration
  <2> QED BY <2>1 DEF Iterates
<1> HIDE DEF D
<1>8. \A i \in 1 .. n : f[i] = f[i - 1] \o parts[i]
  <2> SUFFICES ASSUME NEW i \in 1 .. n PROVE f[i] = f[i - 1] \o parts[i]
    OBVIOUS
  <2>1. i - 1 \in 0 .. n
    OBVIOUS
  <2>2. f[i - 1] \in D
    BY <2>1
  <2> QED BY <1>7, <2>2
<1> HIDE DEF n
<1>9. f = Made(f)
  <2>1. ASSUME NEW i \in 0 .. n PROVE f[i] = Value(f, i)
    <3>1. CASE i = 0
      BY <1>6, <1>7, <3>1
    <3>2. CASE i # 0
      <4>1. i \in 1 .. n
        BY <1>0, <3>2
      <4> QED BY <1>6, <1>8, <4>1
    <3> QED BY <3>1, <3>2
  <2> QED BY <2>1
<1>10. g = Made(g)
  <2> HIDE DEF Made
  <2> QED BY <1>5, <1>9
<1>11. g[0] = base
  <2>1. 0 \in 0 .. n
    BY <1>0
  <2> QED BY <1>10, <1>6, <2>1
<1>12. \A i \in 1 .. n : g[i] = g[i - 1] \o parts[i]
  <2> SUFFICES ASSUME NEW i \in 1 .. n PROVE g[i] = g[i - 1] \o parts[i]
    OBVIOUS
  <2>1. i \in 0 .. n
    BY <1>0
  <2> QED BY <1>10, <1>6, <2>1
<1>13. \A i \in 0 .. n : g[i] \in D
  <2> DEFINE P == {i \in 0 .. n : g[i] \in D}
  <2>1. 0 \in P
    BY <1>0, <1>1, <1>11
  <2>2. \A i \in 1 .. n : i - 1 \in P => i \in P
    <3> SUFFICES ASSUME NEW i \in 1 .. n, g[i - 1] \in D PROVE i \in 0 .. n /\ g[i] \in D
      OBVIOUS
    <3>1. g[i - 1] \o parts[i] \in D /\ i \in 0 .. n
      BY <1>2
    <3> QED BY <1>12, <3>1
  <2> HIDE DEF P
  <2>3. \A i \in 0 .. n : i \in P
    BY <1>0, <2>1, <2>2, Ladder
  <2> QED BY <2>3 DEF P
<1> QED BY <1>4, <1>11, <1>12, <1>13 DEF Concats, D, n, base

LEMMA ConcatTyped ==
  ASSUME NEW S, NEW parts \in Seq(Seq(S))
  PROVE  Concat(parts) \in Seq(S)
<1>1. Len(parts) \in 0 .. Len(parts)
  OBVIOUS
<1> QED BY <1>1, ConcatSteps DEF Concats

\* Concatenations begin alike where their parts do.
LEMMA ConcatAlike ==
  ASSUME NEW S, NEW parts \in Seq(Seq(S)), NEW more \in Seq(Seq(S)), NEW n \in Nat, n <= Len(parts), n <= Len(more),
         \A i \in 1 .. n : parts[i] = more[i]
  PROVE  \A i \in 0 .. n : ConcatUpto(parts)[i] = ConcatUpto(more)[i]
<1> DEFINE f == ConcatUpto(parts)
           g == ConcatUpto(more)
           P == {i \in 0 .. n : f[i] = g[i]}
<1>1. Concats(f, S, parts) /\ Concats(g, S, more)
  BY ConcatSteps
<1> HIDE DEF f, g
<1>2. 0 \in P
  BY <1>1 DEF Concats
<1>3. ASSUME NEW i \in 1 .. n, i - 1 \in P PROVE i \in P
  <2>1. i \in 1 .. Len(parts) /\ i \in 1 .. Len(more) /\ i \in 0 .. n
    OBVIOUS
  <2>2. f[i] = f[i - 1] \o parts[i] /\ g[i] = g[i - 1] \o more[i]
    BY <1>1, <2>1 DEF Concats
  <2> QED BY <1>3, <2>1, <2>2
<1> HIDE DEF P
<1>4. \A i \in 0 .. n : i \in P
  BY <1>2, <1>3, Ladder
<1> QED BY <1>4 DEF P, f, g

LEMMA ConcatNone == Concat(<<>>) = <<>>
<1> DEFINE S == {}
           none == <<>>
<1>1. none \in Seq(Seq(S)) /\ Len(none) = 0
  OBVIOUS
<1> HIDE DEF S, none
<1>2. Concat(none) = ConcatUpto(none)[0] /\ Concats(ConcatUpto(none), S, none)
  BY <1>1, ConcatSteps
<1>3. ConcatUpto(none)[0] = <<>>
  BY <1>2 DEF Concats
<1> QED BY <1>2, <1>3 DEF none

LEMMA ConcatMore ==
  ASSUME NEW S, NEW parts \in Seq(Seq(S)), NEW x \in Seq(S)
  PROVE  Concat(Append(parts, x)) = Concat(parts) \o x
<1> DEFINE more == Append(parts, x)
           n == Len(parts)
<1>1. /\ more \in Seq(Seq(S)) /\ n \in Nat /\ Len(more) = n + 1 /\ more[n + 1] = x
      /\ \A i \in 1 .. n : more[i] = parts[i]
  BY AppendProperties
<1>2. Concats(ConcatUpto(more), S, more) /\ Concat(more) = ConcatUpto(more)[n + 1] /\ Concat(parts) = ConcatUpto(parts)[n]
  BY <1>1, ConcatSteps
<1> HIDE DEF more, n
<1>3. ConcatUpto(more)[n + 1] = ConcatUpto(more)[n] \o x
  <2>1. n + 1 \in 1 .. Len(more) /\ n + 1 - 1 = n
    BY <1>1
  <2> DEFINE j == n + 1
  <2>2. j \in 1 .. Len(more) /\ j - 1 = n /\ n + 1 = j
    BY <1>1, <2>1
  <2> HIDE DEF j
  <2>3. ConcatUpto(more)[j] = ConcatUpto(more)[j - 1] \o more[j]
    BY <1>2, <2>2 DEF Concats
  <2> QED BY <1>1, <2>2, <2>3
<1>4. ConcatUpto(parts)[n] = ConcatUpto(more)[n]
  <2>1. n <= Len(parts) /\ n <= Len(more) /\ n \in 0 .. n
    BY <1>1 DEF n
  <2>2. \A i \in 1 .. n : parts[i] = more[i]
    BY <1>1
  <2>3. \A i \in 0 .. n : ConcatUpto(parts)[i] = ConcatUpto(more)[i]
    BY <1>1, <2>1, <2>2, ConcatAlike
  <2> QED BY <2>1, <2>3
<1> QED BY <1>2, <1>3, <1>4 DEF more

LEMMA ConcatOne == ASSUME NEW S, NEW x \in Seq(S) PROVE Concat(<<x>>) = x
<1>1. <<>> \in Seq(Seq(S)) /\ Append(<<>>, x) = <<x>>
  OBVIOUS
<1>2. Concat(<<x>>) = Concat(<<>>) \o x
  BY <1>1, ConcatMore
<1>3. <<>> \o x = x
  BY ConcatEmptySeq
<1> QED BY <1>2, <1>3, ConcatNone

LEMMA ConcatJoin ==
  ASSUME NEW S, NEW p \in Seq(Seq(S)), NEW q \in Seq(Seq(S))
  PROVE  Concat(p \o q) = Concat(p) \o Concat(q)
<1> DEFINE all == p \o q
           m == Len(p)
           n == Len(q)
           f == ConcatUpto(all)
           g == ConcatUpto(q)
           base == Concat(p)
           P == {i \in 0 .. n : f[m + i] = base \o g[i]}
<1>1. m = Len(p) /\ n = Len(q)
  OBVIOUS
<1> HIDE DEF m, n
<1>2. /\ all \in Seq(Seq(S)) /\ Len(all) = m + n /\ m \in Nat /\ n \in Nat
      /\ \A i \in 1 .. m : all[i] = p[i]
      /\ \A i \in 1 .. n : all[m + i] = q[i]
  BY <1>1, ConcatPlaces
<1> HIDE DEF all
<1>3. Concats(f, S, all) /\ Concat(all) = f[m + n]
  BY <1>2, ConcatSteps
<1>4. Concats(g, S, q) /\ Concat(q) = g[n]
  BY <1>1, ConcatSteps
<1>5. f[m] = base /\ base \in Seq(S)
  <2>1. m \in Nat /\ m <= Len(all) /\ m <= Len(p) /\ m \in 0 .. m
    BY <1>1, <1>2
  <2>2. \A i \in 0 .. m : f[i] = ConcatUpto(p)[i]
    BY <1>2, <2>1, ConcatAlike
  <2>3. base = ConcatUpto(p)[m]
    BY <1>1, ConcatSteps
  <2> QED BY <2>1, <2>2, <2>3, ConcatTyped
<1> HIDE DEF f, g, base
<1>6. 0 \in P
  <2>1. g[0] = <<>> /\ m + 0 = m
    BY <1>2, <1>4 DEF Concats
  <2>2. base \o <<>> = base
    BY <1>5, ConcatEmptySeq
  <2> QED BY <1>2, <1>5, <2>1, <2>2, SMTT(30)
<1>7. ASSUME NEW i \in 1 .. n, i - 1 \in P PROVE i \in P
  <2>1. m + i \in 1 .. Len(all) /\ m + i - 1 = m + (i - 1) /\ i - 1 \in 0 .. n /\ i \in 0 .. n
    BY <1>2
  <2>2. f[m + i] = f[m + (i - 1)] \o q[i]
    <3> DEFINE j == m + i
               k == m + (i - 1)
    <3>1. j \in 1 .. Len(all) /\ j - 1 = k
      BY <1>2, <2>1
    <3> HIDE DEF j, k
    <3>2. f[j] = f[j - 1] \o all[j]
      BY <1>3, <3>1 DEF Concats
    <3>3. all[j] = q[i]
      BY <1>2 DEF j
    <3>4. f[j] = f[k] \o q[i]
      BY <3>1, <3>2, <3>3
    <3> QED BY <3>4 DEF j, k
  <2>3. g[i] = g[i - 1] \o q[i] /\ g[i - 1] \in Seq(S)
    BY <1>1, <1>4, <2>1 DEF Concats
  <2>4. f[m + (i - 1)] = base \o g[i - 1]
    BY <1>7
  <2>5. q[i] \in Seq(S)
    BY <1>1
  <2>6. (base \o g[i - 1]) \o q[i] = base \o (g[i - 1] \o q[i])
    <3> DEFINE b == g[i - 1]
               c == q[i]
    <3>1. b \in Seq(S) /\ c \in Seq(S)
      BY <2>3, <2>5
    <3> HIDE DEF b, c
    <3>2. (base \o b) \o c = base \o (b \o c)
      BY <1>5, <3>1, ConcatAssociative, SMTT(30)
    <3> QED BY <3>2 DEF b, c
  <2>7. f[m + i] = base \o g[i]
    BY <2>2, <2>3, <2>4, <2>6
  <2> QED BY <2>1, <2>7
<1> HIDE DEF P
<1>8. \A i \in 0 .. n : i \in P
  BY <1>2, <1>6, <1>7, Ladder
<1>9. n \in P
  BY <1>2, <1>8
<1> QED BY <1>3, <1>4, <1>9 DEF P, all, base

-----------------------------------------------------------------------------
(* Texts without their blanks.                                             *)

Bare(t) == IF t = Blank THEN <<>> ELSE <<t>>

LEMMA BareTyped == ASSUME NEW S, NEW t \in S PROVE Bare(t) \in Seq(S)
BY DEF Bare

LEMMA NoBlanksIs ==
  ASSUME NEW S, NEW text \in Seq(S), NEW bares, bares = [n \in 1 .. Len(text) |-> Bare(text[n])]
  PROVE  /\ NoBlanks(text) = Concat(bares) /\ bares \in Seq(Seq(S)) /\ Len(bares) = Len(text)
         /\ NoBlanks(text) \in Seq(S)
<1>1. NoBlanks(text) = Concat(bares)
  BY DEF NoBlanks, Bare
<1>2. \A n \in 1 .. Len(text) : Bare(text[n]) \in Seq(S)
  BY BareTyped
<1>3. bares \in Seq(Seq(S)) /\ Len(bares) = Len(text)
  BY <1>2
<1> QED BY <1>1, <1>3, ConcatTyped

LEMMA NoBlanksJoin ==
  ASSUME NEW S, NEW x \in Seq(S), NEW y \in Seq(S)
  PROVE  NoBlanks(x \o y) = NoBlanks(x) \o NoBlanks(y)
<1> DEFINE bx == [n \in 1 .. Len(x) |-> Bare(x[n])]
           by == [n \in 1 .. Len(y) |-> Bare(y[n])]
           z == x \o y
           bz == [n \in 1 .. Len(z) |-> Bare(z[n])]
           a == Len(x)
           b == Len(y)
<1>1. a = Len(x) /\ b = Len(y) /\ a \in Nat /\ b \in Nat
  OBVIOUS
<1>2. /\ z \in Seq(S) /\ Len(z) = a + b
      /\ \A i \in 1 .. a : z[i] = x[i]
      /\ \A i \in 1 .. b : z[a + i] = y[i]
  BY <1>1, ConcatPlaces
<1>3. /\ NoBlanks(x) = Concat(bx) /\ bx \in Seq(Seq(S)) /\ Len(bx) = a
      /\ NoBlanks(y) = Concat(by) /\ by \in Seq(Seq(S)) /\ Len(by) = b
  BY NoBlanksIs, ZenonT(60)
<1> HIDE DEF z
<1>4. /\ NoBlanks(z) = Concat(bz) /\ bz \in Seq(Seq(S)) /\ Len(bz) = a + b
  BY <1>2, NoBlanksIs
<1> HIDE DEF a, b
<1>5. /\ \A i \in 1 .. a : bx[i] = Bare(x[i]) /\ bz[i] = Bare(z[i])
      /\ \A i \in 1 .. b : by[i] = Bare(y[i]) /\ bz[a + i] = Bare(z[a + i])
  <2>1. \A i \in 1 .. a : i \in 1 .. a + b
    BY <1>1
  <2>2. \A i \in 1 .. b : a + i \in 1 .. a + b
    BY <1>1
  <2> QED BY <1>1, <1>2, <2>1, <2>2
<1> HIDE DEF bx, by, bz
<1>6. bz = bx \o by
  <2> DEFINE w == bx \o by
  <2>1. /\ w \in Seq(Seq(S)) /\ Len(w) = a + b
        /\ \A i \in 1 .. a : w[i] = bx[i]
        /\ \A i \in 1 .. b : w[a + i] = by[i]
    <3>1. bx \in Seq(Seq(S)) /\ by \in Seq(Seq(S)) /\ a = Len(bx) /\ b = Len(by)
      BY <1>3
    <3> QED BY <3>1, ConcatPlaces
  <2> HIDE DEF w
  <2>2. ASSUME NEW i \in 1 .. a + b PROVE bz[i] = w[i]
    <3>1. CASE i \in 1 .. a
      BY <1>2, <1>5, <2>1, <3>1
    <3>2. CASE i \notin 1 .. a
      <4>1. i - a \in 1 .. b /\ a + (i - a) = i
        BY <1>1, <3>2
      <4> DEFINE j == i - a
      <4>2. j \in 1 .. b /\ i = a + j
        BY <4>1
      <4> HIDE DEF j
      <4> QED BY <1>2, <1>5, <2>1, <4>2
    <3> QED BY <3>1, <3>2
  <2>3. \A i \in 1 .. Len(bz) : bz[i] = w[i]
    BY <1>4, <2>2
  <2>4. bz = w
    BY <1>4, <2>1, <2>3, SeqEqual
  <2> QED BY <2>4 DEF w
<1>7. Concat(bz) = Concat(bx) \o Concat(by)
  BY <1>3, <1>6, ConcatJoin
<1> QED BY <1>3, <1>4, <1>7 DEF z

LEMMA NoBlanksNone == NoBlanks(<<>>) = <<>>
<1> DEFINE none == <<>>
           bares == [n \in 1 .. Len(none) |-> Bare(none[n])]
<1>1. NoBlanks(none) = Concat(bares)
  BY DEF NoBlanks, Bare
<1>2. bares = <<>>
  <2>1. Len(none) = 0
    OBVIOUS
  <2> HIDE DEF none
  <2>2. bares \in Seq({}) /\ Len(bares) = 0
    BY <2>1
  <2> HIDE DEF bares
  <2> QED BY <2>2
<1> QED BY <1>1, <1>2, ConcatNone DEF none

LEMMA NoBlanksOne == ASSUME NEW S, NEW t \in S PROVE NoBlanks(<<t>>) = Bare(t)
<1> DEFINE x == <<t>>
           bx == [n \in 1 .. Len(x) |-> Bare(x[n])]
<1>1. x \in Seq(S) /\ Len(x) = 1 /\ x[1] = t
  OBVIOUS
<1>2. bx = <<Bare(t)>>
  BY <1>1
<1>3. NoBlanks(x) = Concat(bx)
  BY <1>1, NoBlanksIs
<1> QED BY <1>2, <1>3, BareTyped, ConcatOne

\* What an item says: no comma in front of the first thing in a list.
First(items, k) == k = 1 \/ Closes(items[k].type) \/ Opens(items[k - 1].type)

StringToken(text) == [t |-> "string", s |-> text.s, n |-> text.n]

TokenOf(i) ==
  CASE i.type = "string" -> StringToken(i.valuestring)
    [] i.type = "number" -> Num(i.valuedouble[1])
    [] OTHER -> Punct(i.type)

CommaUnless(first) == IF first THEN <<>> ELSE <<Punct("comma")>>

NameSaid(string) == IF string.at = 0 THEN <<>> ELSE <<StringToken(string), Punct("colon")>>

Tell(i, first) == CommaUnless(first) \o NameSaid(i.string) \o <<TokenOf(i)>>

LEMMA SayTells == ASSUME NEW items, NEW k PROVE Say(items, k) = Tell(items[k], First(items, k))
BY DEF Say, Tell, First, StringToken, TokenOf, CommaUnless, NameSaid

LEMMA PunctTyped == ASSUME NEW c \in Kind, c \notin {"string", "number"} PROVE Punct(c) \in Tokens
BY DEF Tokens

LEMMA SaidTyped == ASSUME NEW text \in TextBlocks PROVE StringToken(text) \in Tokens
BY DEF Tokens, StringToken, TextBlocks

LEMMA NumTyped == ASSUME NEW v \in Int PROVE Num(v) \in Tokens
<1>1. <<v>> \in [1 .. 1 -> Int]
  <2>1. <<v>> = [k \in 1 .. 1 |-> v]
    OBVIOUS
  <2> QED BY <2>1
<1> QED BY <1>1 DEF Tokens, Num

LEMMA TokenOfTyped ==
  ASSUME NEW i \in Items, i.type = "endobject" \/ Valued(i)
  PROVE  TokenOf(i) \in Tokens
<1>1. i.valuestring \in TextBlocks
  BY DEF Items
<1>2. CASE i.type = "string"
  BY <1>1, <1>2, SaidTyped DEF TokenOf
<1>3. CASE i.type = "number"
  <2>1. i.valuedouble \in [1 .. 1 -> Int]
    BY <1>3 DEF Valued
  <2>2. i.valuedouble[1] \in Int
    BY <2>1
  <2>3. TokenOf(i) = Num(i.valuedouble[1])
    BY <1>3 DEF TokenOf
  <2> QED BY <2>2, <2>3, NumTyped
<1>4. CASE i.type \in {"object", "endobject"}
  <2>1. TokenOf(i) = Punct(i.type)
    BY <1>4 DEF TokenOf
  <2>2. i.type \in Kind /\ i.type \notin {"string", "number"}
    BY <1>4 DEF Kind
  <2> QED BY <2>1, <2>2, PunctTyped
<1> QED BY <1>2, <1>3, <1>4 DEF Valued

LEMMA CommaTyped == ASSUME NEW first \in BOOLEAN PROVE CommaUnless(first) \in Seq(Tokens)
<1>1. Punct("comma") \in Tokens
  BY PunctTyped DEF Kind
<1> QED BY <1>1 DEF CommaUnless

LEMMA NameTyped == ASSUME NEW x \in TextBlocks PROVE NameSaid(x) \in Seq(Tokens)
<1>1. Punct("colon") \in Tokens
  BY PunctTyped DEF Kind
<1>2. StringToken(x) \in Tokens
  BY SaidTyped
<1> QED BY <1>1, <1>2 DEF NameSaid

LEMMA TellTyped ==
  ASSUME NEW i \in Items, i.type = "endobject" \/ Valued(i), NEW first \in BOOLEAN
  PROVE  Tell(i, first) \in Seq(Tokens)
<1>1. i.string \in TextBlocks
  BY DEF Items
<1>2. TokenOf(i) \in Tokens
  BY TokenOfTyped
<1>3. CommaUnless(first) \in Seq(Tokens) /\ NameSaid(i.string) \in Seq(Tokens) /\ <<TokenOf(i)>> \in Seq(Tokens)
  BY <1>1, <1>2, CommaTyped, NameTyped
<1> DEFINE x == CommaUnless(first)
           y == NameSaid(i.string)
           z == <<TokenOf(i)>>
<1>4. x \in Seq(Tokens) /\ y \in Seq(Tokens) /\ z \in Seq(Tokens)
  BY <1>3
<1> HIDE DEF x, y, z
<1>5. x \o y \in Seq(Tokens)
  BY <1>4, ConcatProperties
<1>6. x \o y \o z \in Seq(Tokens)
  BY <1>4, <1>5, ConcatProperties
<1> QED BY <1>6 DEF Tell, x, y, z

\* Everything in a grown item is a value or a mark.
LEMMA GrownValues ==
  ASSUME NEW items, Grown(items), NEW k \in 1 .. Len(items)
  PROVE  items[k] \in Items /\ (items[k].type = "endobject" \/ Valued(items[k]))
<1>1. items \in Seq(Items) /\ items[k] \in Items
  BY DEF Grown
<1>2. CASE k = 1
  BY <1>1, <1>2 DEF Grown
<1>3. CASE k # 1
  <2> DEFINE j == k - 1
  <2>1. j \in 1 .. Len(items) - 1 /\ j + 1 = k
    BY <1>1, <1>3
  <2> HIDE DEF j
  <2>2. Follows(items[j + 1], Depth(items, j))
    BY <2>1 DEF Grown
  <2> QED BY <1>1, <2>1, <2>2 DEF Follows
<1> QED BY <1>2, <1>3

LEMMA SayTyped ==
  ASSUME NEW items, Grown(items), NEW k \in 1 .. Len(items)
  PROVE  Say(items, k) \in Seq(Tokens)
<1>1. First(items, k) \in BOOLEAN
  BY DEF First, Closes, Opens
<1> QED BY <1>1, GrownValues, TellTyped, SayTells

Sayings(items) == [k \in 1 .. Len(items) |-> Say(items, k)]
BodySayings(items) == [k \in 1 .. Len(items) - 1 |-> Say(items, k)]
Body(items) == Concat(BodySayings(items))

LEMMA SayingsTyped ==
  ASSUME NEW items, Grown(items)
  PROVE  /\ Sayings(items) \in Seq(Seq(Tokens)) /\ Len(Sayings(items)) = Len(items)
         /\ BodySayings(items) \in Seq(Seq(Tokens)) /\ Len(BodySayings(items)) = Len(items) - 1
         /\ Spell(items) = Concat(Sayings(items))
         /\ Spell(items) \in Seq(Tokens) /\ Body(items) \in Seq(Tokens)
<1>1. Len(items) \in Nat /\ Len(items) - 1 \in Nat
  BY DEF Grown
<1>2. \A k \in 1 .. Len(items) : Say(items, k) \in Seq(Tokens)
  BY SayTyped
<1>3. Sayings(items) \in Seq(Seq(Tokens)) /\ Len(Sayings(items)) = Len(items)
  BY <1>1, <1>2 DEF Sayings
<1>4. BodySayings(items) \in Seq(Seq(Tokens)) /\ Len(BodySayings(items)) = Len(items) - 1
  <2>1. \A k \in 1 .. Len(items) - 1 : Say(items, k) \in Seq(Tokens)
    <3>1. \A k \in 1 .. Len(items) - 1 : k \in 1 .. Len(items)
      BY <1>1
    <3> QED BY <1>2, <3>1
  <2> QED BY <1>1, <2>1 DEF BodySayings
<1>5. Spell(items) = Concat(Sayings(items))
  BY DEF Spell, Sayings
<1> QED BY <1>3, <1>4, <1>5, ConcatTyped DEF Body

LEMMA SpellBody ==
  ASSUME NEW items, Grown(items), items[1].type = "object"
  PROVE  Spell(items) = Body(items) \o <<Punct("endobject")>>
<1> DEFINE l == Len(items)
           x == Sayings(items)
           y == BodySayings(items)
           last == Say(items, l)
           z == Append(y, last)
<1>1. l \in Nat /\ l >= 2 /\ items[l].type = "endobject" /\ items[l].string = NoText
  BY GrownEnds
<1>2. last = <<Punct("endobject")>>
  <2>1. First(items, l)
    BY <1>1 DEF First, Closes
  <2>2. TokenOf(items[l]) = Punct("endobject")
    BY <1>1 DEF TokenOf
  <2>3. NameSaid(items[l].string) = <<>> /\ CommaUnless(First(items, l)) = <<>>
    BY <1>1, <2>1, NoTextTyped DEF NameSaid, CommaUnless
  <2>4. last = <<>> \o <<>> \o <<Punct("endobject")>>
    BY <2>2, <2>3, SayTells DEF Tell
  <2> QED BY <2>4
<1>3. last \in Seq(Tokens)
  BY <1>1, SayTyped
<1>4. x \in Seq(Seq(Tokens)) /\ Len(x) = l /\ y \in Seq(Seq(Tokens)) /\ Len(y) = l - 1 /\ Spell(items) = Concat(x)
  BY SayingsTyped
<1>5. (\A k \in 1 .. l : x[k] = Say(items, k)) /\ (\A k \in 1 .. l - 1 : y[k] = Say(items, k))
  BY <1>1 DEF Sayings, BodySayings
<1> HIDE DEF l, x, y, last
<1>6. x = z
  <2>1. /\ z \in Seq(Seq(Tokens)) /\ Len(z) = Len(y) + 1 /\ z[Len(y) + 1] = last /\ \A k \in 1 .. Len(y) : z[k] = y[k]
    BY <1>3, <1>4, AppendProperties
  <2>2. /\ Len(z) = l /\ z[l] = last /\ \A k \in 1 .. l - 1 : z[k] = y[k]
    <3>1. Len(y) + 1 = l
      BY <1>1, <1>4
    <3> QED BY <1>4, <2>1, <3>1
  <2> HIDE DEF z
  <2>3. ASSUME NEW k \in 1 .. Len(x) PROVE x[k] = z[k]
    <3>1. CASE k = l
      BY <1>1, <1>4, <1>5, <2>2, <3>1 DEF last
    <3>2. CASE k # l
      <4>1. k \in 1 .. l /\ k \in 1 .. l - 1
        BY <1>1, <1>4, <3>2
      <4> QED BY <1>5, <2>2, <4>1
    <3> QED BY <3>1, <3>2
  <2> QED BY <1>4, <2>1, <2>2, <2>3, SeqEqual
<1>7. Concat(z) = Concat(y) \o last
  BY <1>3, <1>4, ConcatMore
<1> QED BY <1>2, <1>4, <1>6, <1>7 DEF Body, y

\* Something put in front of the first part.
LEMMA ConcatFirst ==
  ASSUME NEW S, NEW parts \in Seq(Seq(S)), NEW more \in Seq(Seq(S)), NEW x \in Seq(S), parts # <<>>,
         Len(more) = Len(parts), more[1] = x \o parts[1], \A i \in 2 .. Len(parts) : more[i] = parts[i]
  PROVE  Concat(more) = x \o Concat(parts)
<1> DEFINE n == Len(parts)
           f == ConcatUpto(parts)
           g == ConcatUpto(more)
           P == {i \in 0 .. n - 1 : g[i + 1] = x \o f[i + 1]}
<1>1. n \in Nat /\ n >= 1 /\ n = Len(more) /\ n = Len(parts) /\ n - 1 \in Nat
  OBVIOUS
<1>2. Concats(f, S, parts) /\ Concats(g, S, more) /\ Concat(parts) = f[n] /\ Concat(more) = g[n]
  BY <1>1, ConcatSteps
<1> HIDE DEF n, f, g
<1>3. 0 \in P
  <2>1. 1 \in 1 .. n /\ 1 - 1 = 0 /\ 0 + 1 = 1 /\ 0 \in 0 .. n - 1
    BY <1>1
  <2> DEFINE one == 1
  <2>a. one \in 1 .. n /\ one - 1 = 0 /\ one = 1
    BY <2>1
  <2> HIDE DEF one
  <2>2. f[one] = f[one - 1] \o parts[one] /\ g[one] = g[one - 1] \o more[one]
    <3>1. one \in 1 .. Len(parts) /\ one \in 1 .. Len(more)
      BY <1>1, <2>a
    <3>2. f[one] = f[one - 1] \o parts[one]
      BY ONLY <1>2, <3>1 DEF Concats
    <3>3. g[one] = g[one - 1] \o more[one]
      BY ONLY <1>2, <3>1 DEF Concats
    <3> QED BY <3>2, <3>3
  <2>3. f[0] = <<>> /\ g[0] = <<>>
    BY <1>2 DEF Concats
  <2>4. parts[1] \in Seq(S) /\ more[1] \in Seq(S)
    BY <1>1, <2>1
  <2>5. <<>> \o parts[1] = parts[1] /\ <<>> \o more[1] = more[1]
    BY <2>4, ConcatEmptySeq
  <2>6. f[1] = parts[1] /\ g[1] = more[1]
    BY <2>a, <2>2, <2>3, <2>5
  <2>7. g[1] = x \o f[1]
    BY <2>6
  <2> QED BY <2>1, <2>7
<1>4. ASSUME NEW i \in 1 .. n - 1, i - 1 \in P PROVE i \in P
  <2> DEFINE j == i + 1
  <2>1. j \in 2 .. n /\ j \in 1 .. n /\ j - 1 = i /\ i - 1 + 1 = i /\ i \in 0 .. n /\ i \in 0 .. n - 1 /\ i + 1 = j
    BY <1>1
  <2> HIDE DEF j
  <2>2. f[j] = f[j - 1] \o parts[j] /\ g[j] = g[j - 1] \o more[j]
    <3>1. j \in 1 .. Len(parts) /\ j \in 1 .. Len(more)
      BY <1>1, <2>1
    <3>2. f[j] = f[j - 1] \o parts[j]
      BY ONLY <1>2, <3>1 DEF Concats
    <3>3. g[j] = g[j - 1] \o more[j]
      BY ONLY <1>2, <3>1 DEF Concats
    <3> QED BY <3>2, <3>3
  <2>3. g[i] = x \o f[i]
    <3>1. g[i - 1 + 1] = x \o f[i - 1 + 1]
      BY <1>4
    <3> QED BY <2>1, <3>1
  <2>4. more[j] = parts[j] /\ parts[j] \in Seq(S) /\ f[i] \in Seq(S)
    BY <1>1, <1>2, <2>1 DEF Concats
  <2>5. (x \o f[i]) \o parts[j] = x \o (f[i] \o parts[j])
    <3> DEFINE b == f[i]
               c == parts[j]
    <3>1. x \in Seq(S) /\ b \in Seq(S) /\ c \in Seq(S)
      BY <2>4
    <3> HIDE DEF b, c
    <3>2. (x \o b) \o c = x \o (b \o c)
      BY ONLY <3>1, ConcatAssociative, SMTT(30)
    <3> QED BY <3>2 DEF b, c
  <2>6. g[j] = x \o f[j]
    BY <2>1, <2>2, <2>3, <2>4, <2>5
  <2> QED BY <2>1, <2>6
<1> HIDE DEF P
<1>5. \A i \in 0 .. n - 1 : i \in P
  BY <1>1, <1>3, <1>4, Ladder
<1>6. n - 1 \in P /\ n - 1 + 1 = n
  BY <1>1, <1>5
<1> QED BY <1>2, <1>6 DEF P

\* A list that is opened is in front of its first child, and so only of that one.
LEMMA OnlyFirst ==
  ASSUME NEW items, Grown(items), items[1].type = "object"
  PROVE  Opens(items[Len(items) - 1].type) <=> Len(items) = 2
<1> DEFINE l == Len(items)
           i == items[l - 1]
<1>1. l \in Nat /\ l >= 2 /\ Depth(items, l - 1) = 1 /\ items \in Seq(Items)
  BY GrownEnds DEF Grown
<1>2. CASE l = 2
  <2>1. l - 1 = 1
    BY <1>2
  <2>2. Opens(items[1].type)
    BY DEF Opens, Closing
  <2> QED BY <1>2, <2>1, <2>2
<1>3. CASE l # 2
  <2> DEFINE j == l - 2
  <2>a. l = Len(items)
    OBVIOUS
  <2> HIDE DEF l
  <2>b. j \in 1 .. l - 1 /\ j + 1 = l - 1 /\ j \in 1 .. l /\ l - 1 \in 1 .. l
    BY <1>1, <1>3
  <2>1. j \in 1 .. Len(items) - 1 /\ j + 1 = l - 1 /\ j \in 1 .. Len(items) /\ l - 1 \in 1 .. Len(items)
    BY <2>a, <2>b
  <2> HIDE DEF j
  <2>2. Depth(items, j) >= 1 /\ Follows(items[j + 1], Depth(items, j)) /\ Depth(items, j) \in Nat
    BY <1>1, <2>1, DepthTyped DEF Grown
  <2> DEFINE d == Depth(items, j)
  <2>3. d >= 1 /\ d \in Nat /\ Follows(i, d) /\ i \in Items
    BY <1>1, <2>1, <2>2
  <2>4. (IF Opens(i.type) THEN i.level + 1 ELSE i.level) = 1
    BY <1>1 DEF Depth
  <2> HIDE DEF d, i
  <2>5. ASSUME Opens(i.type) PROVE FALSE
    <3>1. i.type # "endobject"
      BY <2>5 DEF Opens, Closing
    <3>2. i.level = d
      BY <2>3, <3>1 DEF Follows
    <3> QED BY <2>3, <2>4, <2>5, <3>2
  <2> QED BY <1>3, <2>5 DEF i, l
<1> QED BY <1>2, <1>3

\* Place by place.
Splits(A, items, child, name, at) ==
  /\ A \in Seq(Items) /\ Len(A) = Len(items) + Len(child)
  /\ \A k \in 1 .. Len(items) - 1 : A[k] = items[k]
  /\ \A k \in 1 .. Len(child) : A[Len(items) - 1 + k] = Lifted(child, k, name, at)
  /\ A[Len(items) + Len(child)] = items[Len(items)]

LEMMA AttachedSplits ==
  ASSUME NEW items, Grown(items), items[1].type = "object", NEW child, Grown(child), NEW name \in Words, NEW at \in Nat \ {0}
  PROVE  Splits(Attached(items, name, at, child), items, child, name, at)
<1>1. /\ items \in Seq(Items) /\ child \in Seq(Items) /\ Len(items) >= 2 /\ at \in Nat
  BY GrownEnds DEF Grown
<1>3. LET B == Attached(items, name, at, child)
          p == Len(items)
          q == Len(child)
      IN /\ B \in Seq(Items) /\ Len(B) = p + q
         /\ \A k \in 1 .. p - 1 : B[k] = items[k]
         /\ \A k \in 1 .. q : B[p - 1 + k] = Lifted(child, k, name, at)
         /\ B[p + q] = items[p]
  BY <1>1, AttachedIs
<1> QED BY <1>3 DEF Splits

LEMMA LiftedPlace ==
  ASSUME NEW child \in Seq(Items), NEW k \in 1 .. Len(child), NEW name \in Words, NEW at \in Nat,
         NEW c, c = Lifted(child, k, name, at)
  PROVE  /\ c \in Items /\ c.type = child[k].type /\ c.level = child[k].level + 1
         /\ c.valuestring = child[k].valuestring /\ c.valuedouble = child[k].valuedouble
         /\ c.string = IF k = 1 THEN [at |-> at, s |-> name, n |-> <<>>] ELSE child[k].string
BY LiftedIs

LEMMA LiftedType ==
  ASSUME NEW child \in Seq(Items), NEW k \in 1 .. Len(child), NEW name \in Words, NEW at \in Nat
  PROVE  Lifted(child, k, name, at).type = child[k].type
BY LiftedIs, ZenonT(60)

\* What a member says in an object.
LEMMA SayLifted ==
  ASSUME NEW items, Grown(items), items[1].type = "object", NEW child, Grown(child), NEW name \in Words, NEW at \in Nat \ {0},
         NEW k \in 1 .. Len(child)
  PROVE  Say(Attached(items, name, at, child), Len(items) - 1 + k) =
           IF k = 1 THEN (CommaUnless(Len(items) = 2) \o <<Word(name), Punct("colon")>>) \o Say(child, 1) ELSE Say(child, k)
<1> DEFINE A == Attached(items, name, at, child)
           l == Len(items)
           m == Len(child)
           j == l - 1 + k
           i == child[k]
           x == IF k = 1 THEN [at |-> at, s |-> name, n |-> <<>>] ELSE i.string
<1>a. l = Len(items) /\ m = Len(child) /\ A = Attached(items, name, at, child)
  OBVIOUS
<1> HIDE DEF l, m, A
<1>1. /\ items \in Seq(Items) /\ child \in Seq(Items) /\ l \in Nat /\ l >= 2 /\ m \in Nat /\ m >= 1 /\ at \in Nat
  BY <1>a, GrownEnds DEF Grown
<1>2. /\ A \in Seq(Items) /\ Len(A) = l + m
      /\ \A n \in 1 .. l - 1 : A[n] = items[n]
      /\ \A n \in 1 .. m : A[l - 1 + n] = Lifted(child, n, name, at)
  <2>1. Splits(A, items, child, name, at)
    BY <1>a, AttachedSplits
  <2> QED BY <1>a, <2>1 DEF Splits
<1>3. /\ A[j].type = i.type /\ A[j].valuestring = i.valuestring /\ A[j].valuedouble = i.valuedouble /\ A[j].string = x
  <2>1. k \in 1 .. m /\ A[j] = Lifted(child, k, name, at)
    BY <1>2, <1>a
  <2> HIDE DEF j
  <2> QED BY <1>1, <2>1, LiftedPlace
<1>4. TokenOf(A[j]) = TokenOf(i)
  <2> HIDE DEF A, j, i
  <2> QED BY <1>3 DEF TokenOf
<1>5. CASE k = 1
  <2>1. ~ Closes(i.type) /\ i.string = NoText
    BY <1>5 DEF Grown, Valued, Closes
  <2>2. j = l /\ j # 1
    <3>1. j = l - 1 + k
      OBVIOUS
    <3> HIDE DEF j
    <3> QED BY <1>1, <1>5, <3>1
  <2>3. A[j - 1] = items[l - 1]
    <3>1. l - 1 \in 1 .. l - 1
      BY <1>1
    <3> QED BY <1>2, <2>2, <3>1
  <2>4. First(A, j) <=> l = 2
    <3>1. First(A, j) <=> Opens(items[l - 1].type)
      BY <1>3, <2>1, <2>2, <2>3 DEF First
    <3> QED BY <1>a, <3>1, OnlyFirst
  <2>5. NameSaid(A[j].string) = <<Word(name), Punct("colon")>>
    <3>1. A[j].string = [at |-> at, s |-> name, n |-> <<>>]
      BY <1>3, <1>5
    <3> HIDE DEF A, j
    <3> QED BY <3>1 DEF NameSaid, StringToken, Word
  <2>6. Say(A, j) = CommaUnless(l = 2) \o <<Word(name), Punct("colon")>> \o <<TokenOf(i)>>
    <3>1. CommaUnless(First(A, j)) = CommaUnless(l = 2)
      BY <2>4 DEF CommaUnless
    <3> QED BY <1>4, <2>5, <3>1, SayTells DEF Tell
  <2>7. Say(child, 1) = <<TokenOf(i)>>
    <3>1. First(child, 1)
      BY DEF First
    <3>2. Say(child, 1) = Tell(child[1], First(child, 1))
      BY SayTells
    <3>3. CommaUnless(First(child, 1)) = <<>> /\ NameSaid(child[1].string) = <<>>
      BY <1>5, <2>1, <3>1, NoTextTyped DEF CommaUnless, NameSaid
    <3>4. Say(child, 1) = <<>> \o <<>> \o <<TokenOf(i)>>
      BY <1>5, <3>2, <3>3 DEF Tell
    <3> QED BY <3>4
  <2> QED BY <1>5, <1>a, <2>6, <2>7
<1>6. CASE k # 1
  <2> DEFINE p == k - 1
  <2>0. j = l - 1 + k /\ k \in 1 .. m /\ p = k - 1
    BY <1>a
  <2> HIDE DEF p, j
  <2>1. j - 1 = l - 1 + p /\ j # 1 /\ p \in 1 .. m
    BY <1>1, <1>6, <2>0
  <2>2. A[j - 1].type = child[p].type
    <3>1. A[l - 1 + p] = Lifted(child, p, name, at) /\ p \in 1 .. Len(child)
      BY <1>2, <1>a, <2>1
    <3>2. Lifted(child, p, name, at).type = child[p].type
      BY <1>1, <3>1, LiftedType
    <3>3. A[l - 1 + p].type = child[p].type
      BY <3>1, <3>2
    <3> QED BY <2>1, <3>3
  <2>3. p = k - 1
    BY <2>0
  <2>4. First(A, j) <=> First(child, k)
    BY <1>3, <1>6, <2>1, <2>2, <2>3 DEF First
  <2>5. A[j].string = child[k].string
    BY <1>3, <1>6
  <2>6. Tell(A[j], First(A, j)) = Tell(child[k], First(child, k))
    <3>1. CommaUnless(First(A, j)) = CommaUnless(First(child, k))
      BY <2>4 DEF CommaUnless
    <3> QED BY <1>4, <2>5, <3>1 DEF Tell
  <2>7. Say(A, j) = Say(child, k)
    BY <2>6, SayTells
  <2>8. Say(Attached(items, name, at, child), Len(items) - 1 + k) = Say(child, k)
    BY <1>a, <2>0, <2>7
  <2> QED BY <1>6, <2>8
<1> QED BY <1>5, <1>6

LEMMA BodyAttached ==
  ASSUME NEW items, Grown(items), items[1].type = "object", NEW child, Grown(child), NEW name \in Words, NEW at \in Nat \ {0}
  PROVE  Body(Attached(items, name, at, child)) =
           Body(items) \o ((CommaUnless(Len(items) = 2) \o <<Word(name), Punct("colon")>>) \o Spell(child))
<1> DEFINE A == Attached(items, name, at, child)
           l == Len(items)
           m == Len(child)
           a == l - 1
           all == BodySayings(A)
           x == BodySayings(items)
           y == [k \in 1 .. m |-> Say(A, a + k)]
           z == Sayings(child)
           sep == CommaUnless(l = 2) \o <<Word(name), Punct("colon")>>
<1>0. l = Len(items) /\ m = Len(child) /\ A = Attached(items, name, at, child)
  OBVIOUS
<1>1. /\ items \in Seq(Items) /\ child \in Seq(Items) /\ l \in Nat /\ l >= 2 /\ m \in Nat /\ m >= 1 /\ at \in Nat /\ a \in Nat
  BY GrownEnds DEF Grown
<1>2. /\ A \in Seq(Items) /\ Len(A) = l + m /\ \A n \in 1 .. l - 1 : A[n] = items[n]
  <2>1. Splits(A, items, child, name, at)
    BY AttachedSplits
  <2> HIDE DEF A
  <2> QED BY <2>1 DEF Splits
<1>3. Grown(A)
  BY AttachedGrown
<1>4. /\ all \in Seq(Seq(Tokens)) /\ Len(all) = a + m /\ x \in Seq(Seq(Tokens)) /\ Len(x) = a
      /\ z \in Seq(Seq(Tokens)) /\ Len(z) = m /\ Spell(child) = Concat(z)
  <2>1. Len(all) = Len(A) - 1 /\ Len(x) = l - 1
    BY <1>3, SayingsTyped
  <2> QED BY <1>1, <1>2, <1>3, <2>1, SayingsTyped
<1>5. sep \in Seq(Tokens)
  <2>1. CommaUnless(l = 2) \in Seq(Tokens)
    BY CommaTyped
  <2>2. <<Word(name), Punct("colon")>> \in Seq(Tokens)
    <3>1. Punct("colon") \in Tokens
      BY PunctTyped DEF Kind
    <3>2. Word(name) \in Tokens
      BY DEF Word, Tokens
    <3> QED BY <3>1, <3>2
  <2> QED BY <2>1, <2>2, ConcatProperties
<1>6. \A k \in 1 .. m : Say(A, a + k) = IF k = 1 THEN sep \o Say(child, 1) ELSE Say(child, k)
  BY SayLifted
<1>7. \A k \in 1 .. m : z[k] = Say(child, k) /\ Say(child, k) \in Seq(Tokens)
  BY SayTyped DEF Sayings
<1>8. y \in Seq(Seq(Tokens)) /\ Len(y) = m /\ \A k \in 1 .. m : y[k] = Say(A, a + k)
  <2>1. ASSUME NEW k \in 1 .. m PROVE Say(A, a + k) \in Seq(Tokens)
    <3>1. a + k \in 1 .. Len(A)
      BY <1>1, <1>2
    <3> QED BY <1>3, <3>1, SayTyped
  <2> QED BY <1>1, <2>1
<1>9. /\ \A k \in 1 .. a : all[k] = x[k]
      /\ \A k \in 1 .. m : all[a + k] = y[k]
  <2>1. ASSUME NEW k \in 1 .. a PROVE all[k] = x[k]
    <3>1. k \in 1 .. Len(A) - 1 /\ k \in 1 .. Len(items) - 1 /\ k \in 1 .. l - 1
      BY <1>1, <1>2
    <3>2. all[k] = Say(A, k) /\ x[k] = Say(items, k)
      BY <3>1 DEF BodySayings
    <3>3. Say(A, k) = Say(items, k)
      <4>1. A[k] = items[k]
        BY <1>2, <3>1
      <4>2. First(A, k) <=> First(items, k)
        <5>1. CASE k = 1
          BY <5>1 DEF First
        <5>2. CASE k # 1
          <6>1. k - 1 \in 1 .. l - 1
            BY <1>1, <3>1, <5>2
          <6>2. A[k - 1] = items[k - 1]
            BY <1>2, <6>1
          <6> QED BY <4>1, <5>2, <6>2 DEF First
        <5> QED BY <5>1, <5>2
      <4>3. CommaUnless(First(A, k)) = CommaUnless(First(items, k))
        BY <4>2 DEF CommaUnless
      <4> QED BY <4>1, <4>3, SayTells DEF Tell
    <3> QED BY <3>2, <3>3
  <2>2. ASSUME NEW k \in 1 .. m PROVE all[a + k] = y[k]
    <3>1. a + k \in 1 .. Len(A) - 1
      BY <1>1, <1>2
    <3>2. all[a + k] = Say(A, a + k)
      BY <3>1 DEF BodySayings
    <3> QED BY <1>8, <3>2
  <2> QED BY <2>1, <2>2
<1>a. a = Len(x) /\ m = Len(y) /\ l = Len(items) /\ m = Len(z)
  BY <1>4, <1>8
<1> HIDE DEF A, a, l, m, all, x, y, z, sep
<1>10. all = x \o y
  <2> DEFINE w == x \o y
  <2>1. /\ w \in Seq(Seq(Tokens)) /\ Len(w) = a + m
        /\ \A k \in 1 .. a : w[k] = x[k]
        /\ \A k \in 1 .. m : w[a + k] = y[k]
    <3>1. x \in Seq(Seq(Tokens)) /\ y \in Seq(Seq(Tokens)) /\ a = Len(x) /\ m = Len(y)
      BY <1>4, <1>8, <1>a
    <3> QED BY <3>1, ConcatPlaces
  <2> HIDE DEF w
  <2>2. ASSUME NEW k \in 1 .. Len(all) PROVE all[k] = w[k]
    <3>1. CASE k \in 1 .. a
      BY <1>9, <2>1, <3>1
    <3>2. CASE k \notin 1 .. a
      <4> DEFINE n == k - a
      <4>1. n \in 1 .. m /\ k = a + n
        BY <1>1, <1>4, <3>2
      <4> HIDE DEF n
      <4> QED BY <1>9, <2>1, <4>1
    <3> QED BY <3>1, <3>2
  <2>3. all = w
    BY <1>4, <2>1, <2>2, SeqEqual
  <2> QED BY <2>3 DEF w
<1>11. Concat(all) = Concat(x) \o Concat(y)
  BY <1>4, <1>8, <1>10, ConcatJoin
<1>12. Concat(y) = sep \o Concat(z)
  <2>1. 1 \in 1 .. m /\ z # <<>>
    BY <1>1, <1>a
  <2>2. y[1] = sep \o z[1]
    BY <1>6, <1>7, <1>8, <2>1
  <2>3. \A k \in 2 .. Len(z) : y[k] = z[k]
    <3> SUFFICES ASSUME NEW k \in 2 .. m PROVE y[k] = z[k]
      BY <1>a
    <3>1. k \in 1 .. m /\ k # 1
      BY <1>1
    <3> QED BY <1>6, <1>7, <1>8, <3>1
  <2>4. Len(y) = Len(z)
    BY <1>a
  <2> QED BY <1>4, <1>5, <1>8, <2>1, <2>2, <2>3, <2>4, ConcatFirst
<1> QED BY <1>4, <1>11, <1>12 DEF Body, all, x, sep, A, l

\* What an object is to say: members <<name, text>>.
Members == Words \X Seq(Tokens)
MemberText(m) == <<Word(m[1]), Punct("colon")>> \o m[2]
Mem(ms) == [k \in DOMAIN ms |-> <<Word(ms[k][1]), Punct("colon")>> \o ms[k][2]]
Comma(parts) == [k \in DOMAIN parts |-> IF k = 1 THEN parts[k] ELSE <<Punct("comma")>> \o parts[k]]
Opened(ms) == <<Punct("object")>> \o Concat(Comma(Mem(ms)))

\* An object says its members, in their order.
Says(items, ms) ==
  /\ Grown(items) /\ items[1].type = "object" /\ ms \in Seq(Members)
  /\ Body(items) = Opened(ms) /\ (Len(items) = 2 <=> ms = <<>>)

LEMMA ObjectIs == ASSUME NEW ms PROVE Object(ms) = Opened(ms) \o <<Punct("endobject")>>
BY DEF Object, Joined, Opened, Comma, Mem

LEMMA MemberTyped == ASSUME NEW m \in Members PROVE MemberText(m) \in Seq(Tokens) /\ m[1] \in Words /\ m[2] \in Seq(Tokens)
<1>1. m[1] \in Words /\ m[2] \in Seq(Tokens)
  BY DEF Members
<1>2. Word(m[1]) \in Tokens
  <2>1. <<>> \in Seq(Int)
    OBVIOUS
  <2> QED BY <1>1, <2>1 DEF Word, Tokens
<1>3. Punct("colon") \in Tokens
  BY PunctTyped DEF Kind
<1> DEFINE x == Word(m[1])
           y == Punct("colon")
           z == m[2]
<1>4. x \in Tokens /\ y \in Tokens /\ z \in Seq(Tokens)
  BY <1>1, <1>2, <1>3
<1>5. MemberText(m) = <<x, y>> \o z
  BY DEF MemberText
<1> HIDE DEF x, y, z
<1>6. <<x, y>> \in Seq(Tokens)
  BY <1>4
<1>7. <<x, y>> \o z \in Seq(Tokens)
  BY <1>4, <1>6, ConcatProperties
<1> QED BY <1>1, <1>5, <1>7

LEMMA CommaOne == <<Punct("comma")>> \in Seq(Tokens)
<1>1. Punct("comma") \in Tokens
  BY PunctTyped DEF Kind
<1> QED BY <1>1

LEMMA PartsTyped ==
  ASSUME NEW ms \in Seq(Members)
  PROVE  Comma(Mem(ms)) \in Seq(Seq(Tokens)) /\ Len(Comma(Mem(ms))) = Len(ms)
         /\ \A k \in 1 .. Len(ms) : Comma(Mem(ms))[k] = IF k = 1 THEN MemberText(ms[k]) ELSE <<Punct("comma")>> \o MemberText(ms[k])
<1>1. Mem(ms) = [k \in 1 .. Len(ms) |-> MemberText(ms[k])] /\ Len(ms) \in Nat
  BY DEF Mem, MemberText
<1> DEFINE q == Mem(ms)
           n == Len(ms)
           c == <<Punct("comma")>>
           r == [k \in 1 .. n |-> IF k = 1 THEN MemberText(ms[k]) ELSE c \o MemberText(ms[k])]
<1>2. Comma(q) = r
  <2>1. DOMAIN q = 1 .. n /\ \A k \in 1 .. n : q[k] = MemberText(ms[k])
    BY <1>1
  <2> HIDE DEF q, n
  <2> QED BY <2>1 DEF Comma
<1>3. \A k \in 1 .. n : MemberText(ms[k]) \in Seq(Tokens)
  <2> SUFFICES ASSUME NEW k \in 1 .. n PROVE MemberText(ms[k]) \in Seq(Tokens)
    OBVIOUS
  <2>1. ms[k] \in Members
    OBVIOUS
  <2> QED BY <2>1, MemberTyped
<1>4. \A k \in 1 .. n : c \o MemberText(ms[k]) \in Seq(Tokens)
  BY <1>3, CommaOne, ConcatProperties
<1> HIDE DEF c, n
<1>5. n \in Nat
  BY <1>1 DEF n
<1>6. r \in Seq(Seq(Tokens)) /\ Len(r) = n
  BY <1>3, <1>4, <1>5
<1> QED BY <1>2, <1>6 DEF n, c

LEMMA OpenedTyped == ASSUME NEW ms \in Seq(Members) PROVE Opened(ms) \in Seq(Tokens)
<1>1. Concat(Comma(Mem(ms))) \in Seq(Tokens)
  BY PartsTyped, ConcatTyped
<1>2. Punct("object") \in Tokens
  BY PunctTyped DEF Kind
<1>3. <<Punct("object")>> \in Seq(Tokens)
  BY <1>2
<1> QED BY <1>1, <1>3, ConcatProperties DEF Opened

\* One more member.
LEMMA OpenedMore ==
  ASSUME NEW ms \in Seq(Members), NEW m \in Members
  PROVE  Append(ms, m) \in Seq(Members)
         /\ Opened(Append(ms, m)) = Opened(ms) \o (CommaUnless(ms = <<>>) \o MemberText(m))
<1> DEFINE more == Append(ms, m)
           n == Len(ms)
           p == Comma(Mem(ms))
           q == Comma(Mem(more))
           x == CommaUnless(ms = <<>>) \o MemberText(m)
<1>1. more \in Seq(Members) /\ Len(more) = n + 1 /\ n \in Nat /\ more[n + 1] = m /\ \A k \in 1 .. n : more[k] = ms[k]
  BY AppendProperties
<1>2. ms = <<>> <=> n = 0
  BY EmptySeq
<1>3. /\ p \in Seq(Seq(Tokens)) /\ Len(p) = n
      /\ \A k \in 1 .. n : p[k] = IF k = 1 THEN MemberText(ms[k]) ELSE <<Punct("comma")>> \o MemberText(ms[k])
  BY PartsTyped
<1>4. /\ q \in Seq(Seq(Tokens)) /\ Len(q) = n + 1
      /\ \A k \in 1 .. n + 1 : q[k] = IF k = 1 THEN MemberText(more[k]) ELSE <<Punct("comma")>> \o MemberText(more[k])
  <2> HIDE DEF more
  <2>1. Len(more) = n + 1 /\ more \in Seq(Members)
    BY <1>1
  <2> HIDE DEF n
  <2> QED BY <2>1, PartsTyped
<1>5. MemberText(m) \in Seq(Tokens)
  BY MemberTyped
<1>6. q[n + 1] = x
  <2>1. n + 1 \in 1 .. n + 1 /\ more[n + 1] = m
    BY <1>1
  <2>2. q[n + 1] = IF n + 1 = 1 THEN MemberText(m) ELSE <<Punct("comma")>> \o MemberText(m)
    <3> HIDE DEF n, q, more
    <3> QED BY <1>4, <2>1
  <2>3. CASE n = 0
    <3>1. x = <<>> \o MemberText(m)
      BY <1>2, <2>3 DEF CommaUnless
    <3>2. x = MemberText(m)
      BY <1>5, <3>1, ConcatEmptySeq
    <3> QED BY <2>2, <2>3, <3>2
  <2>4. CASE n # 0
    <3>1. x = <<Punct("comma")>> \o MemberText(m)
      BY <1>2, <2>4 DEF CommaUnless
    <3>2. n + 1 # 1
      BY <1>1, <2>4
    <3> QED BY <2>2, <3>1, <3>2
  <2> QED BY <2>3, <2>4
<1>7. x \in Seq(Tokens)
  BY <1>5, CommaTyped, ConcatProperties
<1> HIDE DEF p, q, x, more
<1>8. q = Append(p, x)
  <2>1. Append(p, x) \in Seq(Seq(Tokens)) /\ Len(Append(p, x)) = n + 1 /\ Append(p, x)[n + 1] = x
        /\ \A k \in 1 .. n : Append(p, x)[k] = p[k]
    BY <1>1, <1>3, <1>7, AppendProperties
  <2> DEFINE r == Append(p, x)
  <2> HIDE DEF r, n
  <2>2. ASSUME NEW k \in 1 .. Len(q) PROVE q[k] = r[k]
    <3>1. CASE k \in 1 .. n
      <4>1. more[k] = ms[k] /\ q[k] = p[k] /\ k \in 1 .. n + 1
        <5>1. more[k] = ms[k] /\ k \in 1 .. n + 1
          BY <1>1, <1>4, <3>1
        <5>2. q[k] = p[k]
          BY <1>3, <1>4, <3>1, <5>1, ZenonT(60)
        <5> QED BY <5>1, <5>2
      <4> QED BY <2>1, <3>1, <4>1 DEF r
    <3>2. CASE k \notin 1 .. n
      <4>1. k = n + 1
        BY <1>1, <1>4, <3>2
      <4> QED BY <1>6, <2>1, <4>1 DEF r
    <3> QED BY <3>1, <3>2
  <2>3. r \in Seq(Seq(Tokens)) /\ Len(r) = Len(q)
    BY <1>4, <2>1 DEF r
  <2>4. q = r
    BY <1>4, <2>2, <2>3, SeqEqual
  <2> QED BY <2>4 DEF r
<1>9. Concat(q) = Concat(p) \o x
  BY <1>3, <1>7, <1>8, ConcatMore
<1>10. Concat(p) \in Seq(Tokens)
  BY <1>3, ConcatTyped
<1> DEFINE o == <<Punct("object")>>
           c == Concat(p)
<1>11. o \in Seq(Tokens) /\ c \in Seq(Tokens)
  <2>1. Punct("object") \in Tokens
    BY PunctTyped DEF Kind
  <2> QED BY <1>10, <2>1
<1> HIDE DEF o, c
<1>12. o \o (c \o x) = (o \o c) \o x
  BY <1>7, <1>11, ConcatAssociative
<1>13. Opened(more) = o \o Concat(q) /\ Opened(ms) = o \o c
  BY DEF Opened, o, c, q, p
<1> QED BY <1>1, <1>9, <1>12, <1>13 DEF c, more, x

LEMMA OpenedNone == Opened(<<>>) = <<Punct("object")>>
<1>1. Comma(Mem(<<>>)) = <<>>
  BY DEF Comma, Mem
<1>2. Concat(<<>>) = <<>>
  BY ConcatNone
<1>3. <<Punct("object")>> \o <<>> = <<Punct("object")>>
  OBVIOUS
<1> QED BY <1>1, <1>2, <1>3 DEF Opened

LEMMA SaysObject == ASSUME NEW items, NEW ms, Says(items, ms) PROVE Spell(items) = Object(ms)
BY SpellBody, ObjectIs DEF Says

LEMMA SaysNone ==
  ASSUME NEW items \in Seq(Items), Len(items) = 2, NEW i \in Items, NEW m \in Items, items = <<i, m>>,
         i.type = "object", i.level = 0, i.string = NoText, m.type = "endobject", m.level = 0, m.string = NoText
  PROVE  Says(items, <<>>)
<1>1. Grown(items) /\ items[1].type = "object"
  BY EmptyGrown
<1> DEFINE b == BodySayings(items)
           s == Say(items, 1)
<1>2. b \in Seq(Seq(Tokens)) /\ Len(b) = 1 /\ b[1] = s
  <2>1. /\ BodySayings(items) \in Seq(Seq(Tokens)) /\ Len(BodySayings(items)) = Len(items) - 1
    BY <1>1, SayingsTyped
  <2>2. BodySayings(items) = [k \in 1 .. Len(items) - 1 |-> Say(items, k)]
    BY DEF BodySayings
  <2>3. Len(items) - 1 = 1 /\ 1 \in 1 .. 1
    OBVIOUS
  <2>4. BodySayings(items)[1] = Say(items, 1)
    BY <2>2, <2>3
  <2> QED BY <2>1, <2>3, <2>4
<1>3. s = <<Punct("object")>>
  <2>1. First(items, 1) /\ items[1] = i
    BY DEF First
  <2>2. s = Tell(i, First(items, 1))
    BY <2>1, SayTells
  <2>3. CommaUnless(First(items, 1)) = <<>> /\ NameSaid(i.string) = <<>> /\ TokenOf(i) = Punct("object")
    BY <2>1, NoTextTyped DEF CommaUnless, NameSaid, TokenOf
  <2>4. s = <<>> \o <<>> \o <<Punct("object")>>
    BY <2>2, <2>3 DEF Tell
  <2> QED BY <2>4
<1>4. s \in Seq(Tokens)
  <2>1. 1 \in 1 .. Len(items)
    OBVIOUS
  <2> QED BY <1>1, <2>1, SayTyped
<1> HIDE DEF b, s
<1>5. b = <<s>>
  BY <1>2
<1>6. Concat(<<s>>) = s
  BY <1>4, ConcatOne
<1>7. Body(items) = Opened(<<>>)
  BY <1>3, <1>5, <1>6, OpenedNone DEF Body, b
<1> QED BY <1>1, <1>7 DEF Says

LEMMA SaysAttached ==
  ASSUME NEW items, NEW ms, Says(items, ms), NEW child, Grown(child), NEW name \in Words, NEW at \in Nat \ {0}
  PROVE  Says(Attached(items, name, at, child), Append(ms, <<name, Spell(child)>>))
<1> DEFINE A == Attached(items, name, at, child)
           m == <<name, Spell(child)>>
           more == Append(ms, m)
           sep == CommaUnless(Len(items) = 2)
           nm == <<Word(name), Punct("colon")>>
           t == Spell(child)
<1>0. Grown(items) /\ items[1].type = "object" /\ ms \in Seq(Members) /\ Body(items) = Opened(ms) /\ (Len(items) = 2 <=> ms = <<>>)
  BY DEF Says
<1>1. m \in Members
  BY SayingsTyped DEF Members
<1>2. Body(A) = Body(items) \o ((sep \o nm) \o t)
  BY <1>0, BodyAttached
<1>3. sep = CommaUnless(ms = <<>>)
  BY <1>0 DEF CommaUnless
<1>4. (sep \o nm) \o t = sep \o (nm \o t)
  <2>1. t \in Seq(Tokens)
    BY SayingsTyped
  <2>2. sep \in Seq(Tokens)
    BY CommaTyped
  <2>3. nm \in Seq(Tokens)
    <3>1. Punct("colon") \in Tokens
      BY PunctTyped DEF Kind
    <3>2. Word(name) \in Tokens
      BY DEF Word, Tokens
    <3> QED BY <3>1, <3>2
  <2> HIDE DEF sep, nm, t
  <2> QED BY <2>1, <2>2, <2>3, ConcatAssociative
<1>5. MemberText(m) = nm \o t
  BY DEF MemberText
<1>6. more \in Seq(Members) /\ Opened(more) = Opened(ms) \o (CommaUnless(ms = <<>>) \o MemberText(m))
  BY <1>0, <1>1, OpenedMore
<1>7. Body(A) = Opened(more)
  BY <1>0, <1>2, <1>3, <1>4, <1>5, <1>6
<1>8. Grown(A) /\ A[1] = items[1] /\ Len(A) = Len(items) + Len(child)
  BY <1>0, AttachedGrown
<1>9. Len(items) \in Nat /\ Len(items) >= 2 /\ Len(child) \in Nat /\ Len(child) >= 1
  BY <1>0, GrownEnds DEF Grown
<1>10. Len(A) # 2
  BY <1>8, <1>9
<1>11. more # <<>>
  BY <1>0, <1>1, AppendProperties
<1> QED BY <1>0, <1>6, <1>7, <1>8, <1>10, <1>11 DEF Says

-----------------------------------------------------------------------------
(* Building.                                                               *)

Built == [ok : BOOLEAN, heap : Heaps, items : Seq(Items)]

\* An object says what it is to say, or after a failure some of it.
HeapHolds(items, want, S, k) == \E ms : Says(items, ms) /\ (k = 0 => ms = want) /\ \A i \in 1 .. Len(ms) : ms[i] \in S

\* An object is being built: what is live are its blocks, the others there were, and what
\* has been lost.
Building(b, k, others, want, S) ==
  /\ b \in Built /\ Sane(b.heap) /\ b.heap.fails = k /\ b.heap.over = FALSE
  /\ k = 0 => b.ok /\ b.heap.lost = {}
  /\ b.heap.live = others \cup Blocks(b.items) \cup b.heap.lost /\ Blocks(b.items) \cap others = {}
  /\ b.ok => b.items # <<>>
  /\ b.items # <<>> => HeapHolds(b.items, want, S, k)

LEMMA BuiltWith ==
  ASSUME NEW b \in Built, NEW h \in Heaps, NEW i \in Seq(Items)
  PROVE  /\ [b EXCEPT !.heap = h, !.items = i] \in Built /\ [b EXCEPT !.heap = h, !.items = i].ok = b.ok
         /\ [b EXCEPT !.heap = h, !.items = i].heap = h /\ [b EXCEPT !.heap = h, !.items = i].items = i
BY DEF Built

LEMMA BuiltWithHeap ==
  ASSUME NEW b \in Built, NEW h \in Heaps
  PROVE  /\ [b EXCEPT !.heap = h] \in Built /\ [b EXCEPT !.heap = h].ok = b.ok
         /\ [b EXCEPT !.heap = h].heap = h /\ [b EXCEPT !.heap = h].items = b.items
BY DEF Built

LEMMA BuiltFails ==
  ASSUME NEW b \in Built, NEW h \in Heaps
  PROVE  /\ [b EXCEPT !.ok = FALSE, !.heap = h] \in Built /\ [b EXCEPT !.ok = FALSE, !.heap = h].ok = FALSE
         /\ [b EXCEPT !.ok = FALSE, !.heap = h].heap = h /\ [b EXCEPT !.ok = FALSE, !.heap = h].items = b.items
BY DEF Built

LEMMA Loses ==
  ASSUME NEW heap, Sane(heap), NEW lost, lost \subseteq Nat
  PROVE  /\ Sane([heap EXCEPT !.lost = lost]) /\ [heap EXCEPT !.lost = lost].live = heap.live
         /\ [heap EXCEPT !.lost = lost].lost = lost /\ [heap EXCEPT !.lost = lost].made = heap.made
         /\ [heap EXCEPT !.lost = lost].fails = heap.fails /\ [heap EXCEPT !.lost = lost].over = heap.over
         /\ [heap EXCEPT !.lost = lost] \in Heaps
<1> DEFINE h == [heap EXCEPT !.lost = lost]
<1>1. heap \in Heaps /\ lost \in SUBSET Nat
  BY DEF Sane
<1>3. /\ h \in Heaps /\ h.live = heap.live /\ h.lost = lost /\ h.made = heap.made
      /\ h.fails = heap.fails /\ h.over = heap.over /\ h.wild = heap.wild
  BY <1>1 DEF Heaps
<1> QED BY <1>3 DEF Sane

\* Nothing is promised of what a failure cuts short.
LEMMA BuildingStopped ==
  ASSUME NEW b, NEW k \in Nat, NEW others, NEW want, NEW S, Building(b, k, others, want, S), ~ b.ok, NEW more
  PROVE  Building(b, k, others, more, S)
<1>1. k # 0
  BY DEF Building
<1>2. b.items # <<>> => HeapHolds(b.items, more, S, k)
  BY <1>1 DEF Building, HeapHolds
<1> QED BY <1>2 DEF Building

\* The name of a new item is copied, or the item is lost.
LEMMA NameCopiedBuilds ==
  ASSUME NEW b, NEW k \in Nat, NEW others, NEW want \in Seq(Members), NEW S, Building(b, k, others, want, S), b.ok,
         NEW child, Grown(child), NEW name \in Words, NEW m, m = <<name, Spell(child)>>, m \in S,
         NEW heap, Sane(heap), heap.live = b.heap.live \cup Blocks(child), Blocks(child) \cap b.heap.live = {},
         heap.lost = b.heap.lost, heap.fails = k, heap.over = FALSE,
         NEW c, c \in Built, c.ok, c.heap = heap, c.items = b.items
  PROVE  /\ Building(cJSON_AddItemToObject(c, name, child), k, others, Append(want, m), S)
         /\ cJSON_AddItemToObject(c, name, child).items # <<>>
<1> DEFINE h == allocate(heap)
           r == cJSON_AddItemToObject(c, name, child)
           A == Attached(c.items, name, h.made, child)
           lost == [h EXCEPT !.lost = h.lost \cup Blocks(child)]
<1>1. /\ b \in Built /\ Sane(b.heap) /\ b.heap.live = others \cup Blocks(b.items) \cup b.heap.lost
      /\ Blocks(b.items) \cap others = {} /\ b.items # <<>> /\ (k = 0 => b.heap.lost = {})
  BY DEF Building
<1>2. PICK ms : Says(b.items, ms) /\ (k = 0 => ms = want) /\ \A i \in 1 .. Len(ms) : ms[i] \in S
  BY <1>1 DEF Building, HeapHolds
<1>3. /\ Sane(h) /\ h.made \in Nat \ {0} /\ h.made \notin heap.live
      /\ h.live = (IF Granted(h) THEN heap.live \cup {h.made} ELSE heap.live)
      /\ h.lost = heap.lost /\ h.fails = heap.fails /\ h.over = heap.over
  BY Allocated
<1>4. r = IF Granted(h) THEN [c EXCEPT !.heap = h, !.items = A] ELSE [c EXCEPT !.heap = lost]
  BY DEF cJSON_AddItemToObject, NameCopied
<1>5. Grown(c.items) /\ c.items[1].type = "object" /\ Says(c.items, ms) /\ ms \in Seq(Members) /\ c.items \in Seq(Items)
  BY <1>2 DEF Says, Grown
<1>6. Len(c.items) >= 2 /\ child \in Seq(Items) /\ child # <<>> /\ child[1].string = NoText
  BY <1>5, GrownEnds DEF Grown
<1>7. CASE Granted(h)
  <2>1. Says(A, Append(ms, m))
    BY <1>3, <1>5, SaysAttached
  <2>2. Blocks(A) = Blocks(c.items) \cup Blocks(child) \cup {h.made}
    <3> DEFINE a == h.made
               i == c.items
    <3>1. a \in Nat \ {0} /\ i \in Seq(Items) /\ Len(i) >= 2 /\ child \in Seq(Items) /\ child # <<>> /\ child[1].string = NoText
      BY <1>3, <1>5, <1>6
    <3> HIDE DEF a, i, h
    <3>2. Blocks(Attached(i, name, a, child)) = Blocks(i) \cup Blocks(child) \cup {a}
      BY <3>1, AttachedBlocks
    <3> QED BY <3>2 DEF a, i
  <2>3. A \in Seq(Items) /\ A # <<>>
    BY <2>1 DEF Says, Grown
  <2>4. h \in Heaps
    BY <1>3 DEF Sane
  <2>5. m \in Members
    BY SayingsTyped DEF Members
  <2> HIDE DEF h, r, A, lost
  <2>6. r \in Built /\ r.ok = c.ok /\ r.heap = h /\ r.items = A
    <3>1. r = [c EXCEPT !.heap = h, !.items = A]
      BY <1>4, <1>7, Zenon
    <3>2. /\ [c EXCEPT !.heap = h, !.items = A] \in Built /\ [c EXCEPT !.heap = h, !.items = A].ok = c.ok
          /\ [c EXCEPT !.heap = h, !.items = A].heap = h /\ [c EXCEPT !.heap = h, !.items = A].items = A
      BY <2>3, <2>4, BuiltWith, ZenonT(60)
    <3> QED BY ONLY <3>1, <3>2
  <2>7. \A i \in 1 .. Len(Append(ms, m)) : Append(ms, m)[i] \in S
    <3>1. /\ Len(ms) \in Nat /\ Len(Append(ms, m)) = Len(ms) + 1 /\ Append(ms, m)[Len(ms) + 1] = m
          /\ \A i \in 1 .. Len(ms) : Append(ms, m)[i] = ms[i]
      BY <1>5, <2>5, AppendProperties
    <3> SUFFICES ASSUME NEW i \in 1 .. Len(ms) + 1 PROVE Append(ms, m)[i] \in S
      BY <3>1
    <3>2. i \in 1 .. Len(ms) \/ i = Len(ms) + 1
      BY <3>1
    <3> QED BY <1>2, <3>1, <3>2
  <2>8. HeapHolds(A, Append(want, m), S, k)
    <3>1. k = 0 => Append(ms, m) = Append(want, m)
      BY <1>2
    <3> QED BY <2>1, <2>7, <3>1 DEF HeapHolds
  <2>9. r.heap.live = others \cup Blocks(r.items) \cup r.heap.lost /\ Blocks(r.items) \cap others = {}
    <3>1. h.live = heap.live \cup {h.made}
      BY <1>3, <1>7
    <3> QED BY <1>1, <1>3, <2>2, <2>6, <3>1
  <2>10. Sane(r.heap) /\ r.heap.fails = k /\ r.heap.over = FALSE /\ (k = 0 => r.ok /\ r.heap.lost = {})
    BY <1>1, <1>3, <2>6
  <2>11. r.items # <<>> /\ HeapHolds(r.items, Append(want, m), S, k)
    BY <2>3, <2>6, <2>8
  <2>12. Building(r, k, others, Append(want, m), S)
    BY <2>6, <2>9, <2>10, <2>11 DEF Building
  <2> QED BY <2>11, <2>12 DEF r
<1>8. CASE ~ Granted(h)
  <2>1. k # 0
    <3>1. h.fails = k /\ h.made # 0
      BY <1>3
    <3> HIDE DEF h
    <3> QED BY <1>8, <3>1 DEF Granted
  <2>2. h.live = heap.live
    BY <1>3, <1>8
  <2> HIDE DEF h, r, A
  <2>3. Blocks(child) \subseteq h.live
    BY <2>2
  <2>4. /\ Sane(lost) /\ lost.live = h.live /\ lost.lost = h.lost \cup Blocks(child)
        /\ lost.fails = h.fails /\ lost.over = h.over /\ lost \in Heaps
    <3> DEFINE x == h.lost \cup Blocks(child)
    <3>1. lost = [h EXCEPT !.lost = x]
      BY DEF lost
    <3>2. x \subseteq Nat
      BY <1>3, <2>3 DEF Sane, Heaps
    <3> HIDE DEF lost, x
    <3>3. /\ Sane(lost) /\ lost.live = h.live /\ lost.lost = x
          /\ lost.fails = h.fails /\ lost.over = h.over /\ lost \in Heaps
      <4>1. Sane(h)
        BY <1>3
      <4>2. /\ Sane([h EXCEPT !.lost = x]) /\ [h EXCEPT !.lost = x].live = h.live /\ [h EXCEPT !.lost = x].lost = x
            /\ [h EXCEPT !.lost = x].fails = h.fails /\ [h EXCEPT !.lost = x].over = h.over /\ [h EXCEPT !.lost = x] \in Heaps
        BY ONLY <4>1, <3>2, Loses
      <4> QED BY ONLY <3>1, <4>2
    <3> QED BY <3>3 DEF x
  <2> HIDE DEF lost
  <2>5. r \in Built /\ r.ok = c.ok /\ r.heap = lost /\ r.items = c.items
    <3>1. r = [c EXCEPT !.heap = lost]
      BY <1>4, <1>8, Zenon
    <3> QED BY <2>4, <3>1, BuiltWithHeap
  <2>6. HeapHolds(r.items, Append(want, m), S, k)
    BY <1>2, <2>1, <2>5 DEF HeapHolds
  <2>7. r.heap.live = others \cup Blocks(r.items) \cup r.heap.lost /\ Blocks(r.items) \cap others = {}
    BY <1>1, <1>3, <2>2, <2>4, <2>5
  <2>8. Sane(r.heap) /\ r.heap.fails = k /\ r.heap.over = FALSE /\ r.items # <<>>
    BY <1>1, <1>3, <2>4, <2>5
  <2>12. Building(r, k, others, Append(want, m), S)
    BY <2>1, <2>5, <2>6, <2>7, <2>8 DEF Building
  <2> QED BY <2>8, <2>12 DEF r
<1> QED BY <1>7, <1>8

LEMMA LeafSpells ==
  ASSUME NEW items \in Seq(Items), Len(items) = 1, NEW token \in Tokens, token.t \in {"string", "number"}, LeafOf(items[1], token)
  PROVE  Grown(items) /\ Spell(items) = <<token>>
<1>1. Grown(items)
  BY LeafGrown
<1> DEFINE i == items[1]
           s == Say(items, 1)
           x == Sayings(items)
<1>2. i \in Items /\ i.string = NoText /\ LeafOf(i, token)
  BY DEF LeafOf
<1>3. TokenOf(i) = token
  <2> HIDE DEF i
  <2>1. CASE token.t = "string"
    <3>1. token \in [t : {"string"}, s : Words, n : Seq(Int)]
      <4>1. \A c \in Kind \ {"string", "number"} : token # Punct(c)
        <5> SUFFICES ASSUME NEW c \in Kind \ {"string", "number"}, token = Punct(c) PROVE FALSE
          OBVIOUS
        <5>1. Punct(c).t = c
          BY DEF Punct
        <5> QED BY <2>1, <5>1
      <4>2. token \notin [t : {"number"}, s : {""}, n : [1 .. 1 -> Int]]
        BY <2>1
      <4> QED BY <4>1, <4>2 DEF Tokens
    <3>2. i.type = "string" /\ i.valuestring.s = token.s /\ i.valuestring.n = token.n
      BY <1>2, <2>1 DEF LeafOf
    <3>3. TokenOf(i) = [t |-> "string", s |-> token.s, n |-> token.n]
      BY <3>2 DEF TokenOf, StringToken
    <3>4. token = [t |-> "string", s |-> token.s, n |-> token.n]
      BY <3>1
    <3> QED BY <3>3, <3>4
  <2>2. CASE token.t # "string"
    <3>1. token \in [t : {"number"}, s : {""}, n : [1 .. 1 -> Int]]
      <4>1. \A c \in Kind \ {"string", "number"} : token # Punct(c)
        <5> SUFFICES ASSUME NEW c \in Kind \ {"string", "number"}, token = Punct(c) PROVE FALSE
          OBVIOUS
        <5>1. Punct(c).t = c
          BY DEF Punct
        <5> QED BY <2>2, <5>1
      <4>2. token \notin [t : {"string"}, s : Words, n : Seq(Int)]
        BY <2>2
      <4> QED BY <4>1, <4>2 DEF Tokens
    <3>2. i.type = "number" /\ i.valuedouble = token.n
      BY <1>2, <2>2 DEF LeafOf
    <3> DEFINE n == token.n
    <3>3. TokenOf(i) = [t |-> "number", s |-> "", n |-> <<n[1]>>]
      BY <3>2 DEF TokenOf, Num
    <3>4. token = [t |-> "number", s |-> "", n |-> n] /\ n \in [1 .. 1 -> Int]
      BY <3>1
    <3> HIDE DEF n
    <3>5. <<n[1]>> = n
      <4> DEFINE v == n[1]
      <4>1. n = [j \in 1 .. 1 |-> n[j]] /\ v = n[1]
        BY <3>4
      <4> HIDE DEF v
      <4>2. \A j \in 1 .. 1 : j = 1
        OBVIOUS
      <4>3. n = [j \in 1 .. 1 |-> v]
        BY <4>1, <4>2
      <4>4. <<v>> = [j \in 1 .. 1 |-> v]
        BY <4>2
      <4> QED BY <4>3, <4>4 DEF v
    <3> QED BY <3>3, <3>4, <3>5
  <2> QED BY <2>1, <2>2
<1>4. s = <<token>>
  <2>1. First(items, 1)
    BY DEF First
  <2>2. s = Tell(i, First(items, 1))
    BY SayTells
  <2>3. CommaUnless(First(items, 1)) = <<>> /\ NameSaid(i.string) = <<>>
    BY <1>2, <2>1, NoTextTyped DEF CommaUnless, NameSaid
  <2>4. s = <<>> \o <<>> \o <<token>>
    BY <1>3, <2>2, <2>3 DEF Tell
  <2> QED BY <2>4
<1>5. x \in Seq(Seq(Tokens)) /\ Len(x) = 1 /\ x[1] = s /\ Spell(items) = Concat(x)
  <2>1. x \in Seq(Seq(Tokens)) /\ Len(x) = Len(items) /\ Spell(items) = Concat(x)
    BY <1>1, SayingsTyped
  <2>2. x[1] = s
    <3>1. 1 \in 1 .. Len(items)
      OBVIOUS
    <3> QED BY <3>1 DEF Sayings
  <2> QED BY <2>1, <2>2
<1> HIDE DEF s, x
<1>6. s \in Seq(Tokens)
  BY <1>4
<1>7. x = <<s>>
  BY <1>5
<1>8. Concat(<<s>>) = s
  BY <1>6, ConcatOne
<1> QED BY <1>1, <1>4, <1>5, <1>7, <1>8

\* A member that stands for a token.
LEMMA AddBuilds ==
  ASSUME NEW b, NEW k \in Nat, NEW others, NEW want \in Seq(Members), NEW S, Building(b, k, others, want, S), b.ok,
         NEW token \in Tokens, token.t \in {"string", "number"}, NEW name \in Words,
         NEW m, m = <<name, <<token>>>>, m \in S,
         NEW new, CreatesLeaf(new, b.heap, token)
  PROVE  Building(Add(b, name, new), k, others, Append(want, m), S) /\ Add(b, name, new).items # <<>>
<1> DEFINE child == new.items
           heap == new.heap
           c == [b EXCEPT !.heap = heap]
           f == [b EXCEPT !.ok = FALSE, !.heap = heap]
           r == Add(b, name, new)
<1>1. /\ Sane(heap) /\ heap.live = b.heap.live \cup Blocks(child) /\ Blocks(child) \cap b.heap.live = {}
      /\ heap.lost = b.heap.lost /\ heap.fails = b.heap.fails /\ heap.over = b.heap.over
      /\ child \in Seq(Items) /\ (~ new.ok => child = <<>>) /\ (b.heap.fails = 0 => new.ok) /\ heap \in Heaps
      /\ (new.ok => Len(child) = 1 /\ LeafOf(child[1], token))
  BY DEF CreatesLeaf, Creates, Sane
<1>2. /\ b \in Built /\ b.heap.fails = k /\ b.heap.over = FALSE
  BY DEF Building
<1>3. r = IF new.ok THEN cJSON_AddItemToObject(c, name, child) ELSE f
  BY DEF Add
<1>4. CASE new.ok
  <2>1. Grown(child) /\ Spell(child) = <<token>>
    BY <1>1, <1>4, LeafSpells
  <2>2. c \in Built /\ c.ok = b.ok /\ c.heap = heap /\ c.items = b.items
    <3>1. c = [b EXCEPT !.heap = heap]
      BY DEF c
    <3> HIDE DEF c, heap
    <3> QED BY <1>1, <1>2, <3>1, BuiltWithHeap
  <2>3. r = cJSON_AddItemToObject(c, name, child)
    BY <1>3, <1>4
  <2> HIDE DEF child, heap, c, r
  <2>4. m = <<name, Spell(child)>>
    BY <2>1
  <2>5. Building(cJSON_AddItemToObject(c, name, child), k, others, Append(want, m), S) /\ cJSON_AddItemToObject(c, name, child).items # <<>>
    <3>1. heap.lost = b.heap.lost /\ heap.fails = k /\ heap.over = FALSE
      BY <1>1, <1>2
    <3>2. /\ Sane(heap) /\ heap.live = b.heap.live \cup Blocks(child) /\ Blocks(child) \cap b.heap.live = {}
      BY <1>1
    <3>3. c.ok
      BY <2>2
    <3> QED BY <2>1, <2>2, <2>4, <3>1, <3>2, <3>3, NameCopiedBuilds, ZenonT(60)
  <2> QED BY <2>3, <2>5 DEF r
<1>5. CASE ~ new.ok
  <2>1. k # 0 /\ heap.live = b.heap.live
    BY <1>1, <1>2, <1>5, BlocksOfNone
  <2>2. f \in Built /\ f.ok = FALSE /\ f.heap = heap /\ f.items = b.items
    <3>1. f = [b EXCEPT !.ok = FALSE, !.heap = heap]
      BY DEF f
    <3> HIDE DEF f, heap
    <3> QED BY <1>1, <1>2, <3>1, BuiltFails
  <2>3. r = f
    BY <1>3, <1>5
  <2> HIDE DEF child, heap, f, r
  <2>4. f.items # <<>> => HeapHolds(f.items, Append(want, m), S, k)
    BY <2>1, <2>2 DEF Building, HeapHolds
  <2>5. Building(f, k, others, Append(want, m), S) /\ f.items # <<>>
    BY <1>1, <1>2, <2>1, <2>2, <2>4 DEF Building
  <2> QED BY <2>3, <2>5 DEF r
<1> QED BY <1>4, <1>5

LEMMA AddMemberBuilds ==
  ASSUME NEW b, NEW k \in Nat, NEW others, NEW want \in Seq(Members), NEW S, Building(b, k, others, want, S),
         NEW x \in Words \X Tokens, x[2].t \in {"string", "number"}, NEW m, m = <<x[1], <<x[2]>>>>, m \in S
  PROVE  Building(AddMember(b, x), k, others, Append(want, m), S) /\ (b.items # <<>> => AddMember(b, x).items # <<>>)
<1>1. CASE ~ b.ok
  <2>1. AddMember(b, x) = b
    BY <1>1 DEF AddMember
  <2> QED BY <1>1, <2>1, BuildingStopped
<1>2. CASE b.ok
  <2> DEFINE new == IF x[2].t = "string" THEN cJSON_CreateString(b.heap, x[2]) ELSE cJSON_CreateNumber(b.heap, x[2])
  <2>1. AddMember(b, x) = Add(b, x[1], new)
    BY <1>2 DEF AddMember
  <2>2. Sane(b.heap) /\ x[2] \in Tokens /\ x[1] \in Words
    BY DEF Building
  <2>3. CreatesLeaf(new, b.heap, x[2])
    <3>1. CASE x[2].t = "string"
      <4>1. new = cJSON_CreateString(b.heap, x[2])
        BY <3>1
      <4> QED BY <2>2, <3>1, <4>1, CreateStringCreates
    <3>2. CASE x[2].t # "string"
      <4>1. new = cJSON_CreateNumber(b.heap, x[2]) /\ x[2].t = "number"
        BY <3>2
      <4> QED BY <2>2, <4>1, CreateNumberCreates
    <3> QED BY <3>1, <3>2
  <2> HIDE DEF new
  <2>4. Building(Add(b, x[1], new), k, others, Append(want, m), S) /\ Add(b, x[1], new).items # <<>>
    BY <1>2, <2>2, <2>3, AddBuilds, ZenonT(60)
  <2> QED BY <2>1, <2>4
<1> QED BY <1>1, <1>2

\* Members that are tokens, and what they say.
Simple == {x \in Words \X Tokens : x[2].t \in {"string", "number"}}
Singly(members) == [j \in 1 .. Len(members) |-> <<members[j][1], <<members[j][2]>>>>]

LEMMA PlainTyped ==
  ASSUME NEW members \in Seq(Simple)
  PROVE  Singly(members) \in Seq(Members) /\ Len(Singly(members)) = Len(members)
         /\ \A j \in 1 .. Len(members) : Singly(members)[j] = <<members[j][1], <<members[j][2]>>>>
<1>1. ASSUME NEW j \in 1 .. Len(members) PROVE <<members[j][1], <<members[j][2]>>>> \in Members
  <2>1. members[j] \in Simple
    OBVIOUS
  <2>2. members[j][1] \in Words /\ members[j][2] \in Tokens
    BY <2>1 DEF Simple
  <2>3. <<members[j][2]>> \in Seq(Tokens)
    BY <2>2
  <2> QED BY <2>2, <2>3 DEF Members
<1>2. Len(members) \in Nat
  OBVIOUS
<1> QED BY <1>1, <1>2 DEF Singly

LEMMA AppendBehind ==
  ASSUME NEW S, NEW x \in Seq(S), NEW y \in Seq(S), NEW e \in S
  PROVE  Append(x \o y, e) = x \o (y \o <<e>>)
<1> DEFINE z == <<e>>
<1>1. x \o y \in Seq(S) /\ z \in Seq(S)
  BY ConcatProperties
<1>2. Append(x \o y, e) = (x \o y) \o z
  BY <1>1, AppendIsConcat
<1> HIDE DEF z
<1>3. (x \o y) \o z = x \o (y \o z)
  BY <1>1, ConcatAssociative
<1> QED BY <1>2, <1>3 DEF z

LEMMA PrefixMore ==
  ASSUME NEW S, NEW x \in Seq(S), NEW s \in Seq(S), NEW i \in 1 .. Len(s)
  PROVE  /\ Append(x \o SubSeq(s, 1, i - 1), s[i]) = x \o SubSeq(s, 1, i)
         /\ x \o SubSeq(s, 1, i - 1) \in Seq(S)
<1> DEFINE y == SubSeq(s, 1, i - 1)
           z == <<s[i]>>
<1>1. y \in Seq(S)
  <2>1. \A j \in 1 .. i - 1 : s[j] \in S
    OBVIOUS
  <2>2. i - 1 \in Int /\ 1 \in Int
    OBVIOUS
  <2> QED BY <2>1, <2>2, SubSeqProperties
<1>2. s[i] \in S /\ z \in Seq(S)
  OBVIOUS
<1>3. SubSeq(s, 1, i) = y \o z
  <2>1. 1 \in 1 .. Len(s) /\ i \in 1 .. Len(s)
    OBVIOUS
  <2> QED BY <2>1, SubSeqRecursiveSecond
<1> HIDE DEF y
<1>4. x \o y \in Seq(S)
  BY <1>1, ConcatProperties
<1>5. Append(x \o y, s[i]) = x \o (y \o z)
  BY <1>1, <1>2, AppendBehind
<1> QED BY <1>3, <1>4, <1>5 DEF y

LEMMA PrefixNone == ASSUME NEW S, NEW x \in Seq(S), NEW s \in Seq(S) PROVE x \o SubSeq(s, 1, 0) = x
<1>1. SubSeq(s, 1, 0) = <<>>
  BY SubSeqEmpty
<1> QED BY <1>1, ConcatEmptySeq

LEMMA PrefixAll == ASSUME NEW S, NEW x \in Seq(S), NEW s \in Seq(S) PROVE x \o SubSeq(s, 1, Len(s)) = x \o s
BY SubSeqFull

\* A list of members, one after the other.
LEMMA AddMembersSteps ==
  ASSUME NEW b, NEW k \in Nat, NEW others, NEW want \in Seq(Members), NEW S, Building(b, k, others, want, S),
         NEW members \in Seq(Simple), \A j \in 1 .. Len(members) : Singly(members)[j] \in S
  PROVE  /\ Building(AddMembers(b, members), k, others, want \o Singly(members), S)
         /\ b.items # <<>> => AddMembers(b, members).items # <<>>
<1> DEFINE n == Len(members)
           base == b
           D == {x \in Built : (b.items # <<>> => x.items # <<>>) /\ \E w \in Seq(Members) : Building(x, k, others, w, S)}
           step == [i \in 1 .. n |-> [x \in D |-> AddMember(x, members[i])]]
           Value(p, i) == IF i = 0 THEN base ELSE AddMember(p[i - 1], members[i])
           Made(p) == [i \in 0 .. n |-> Value(p, i)]
           g == CHOOSE upto : upto =
                  [i \in 0 .. Len(members) |->
                     IF i = 0 THEN b ELSE AddMember(upto[i - 1], members[i])]
<1>0. n \in Nat
  OBVIOUS
<1>1. base \in D
  BY DEF Building
<1>2. \A i \in 1 .. n : \A x \in D : AddMember(x, members[i]) \in D
  <2> SUFFICES ASSUME NEW i \in 1 .. n, NEW x \in D PROVE AddMember(x, members[i]) \in D
    OBVIOUS
  <2>1. PICK w \in Seq(Members) : Building(x, k, others, w, S)
    OBVIOUS
  <2> DEFINE y == members[i]
             m == <<y[1], <<y[2]>>>>
             r == AddMember(x, y)
  <2>2. y \in Simple
    OBVIOUS
  <2>3. y \in Words \X Tokens /\ y[2].t \in {"string", "number"}
    BY <2>2 DEF Simple
  <2>4. m \in S /\ m \in Members
    <3>1. Singly(members)[i] = m /\ Singly(members) \in Seq(Members) /\ i \in 1 .. Len(Singly(members))
      BY PlainTyped
    <3> HIDE DEF m
    <3> QED BY <3>1
  <2>5. b.items # <<>> => x.items # <<>>
    OBVIOUS
  <2> HIDE DEF D
  <2>6. Building(r, k, others, Append(w, m), S) /\ (b.items # <<>> => r.items # <<>>)
    <3> HIDE DEF y
    <3>1. Building(r, k, others, Append(w, m), S) /\ (x.items # <<>> => r.items # <<>>)
      BY <2>1, <2>3, <2>4, AddMemberBuilds
    <3> QED BY <2>5, <3>1
  <2> HIDE DEF m, r
  <2>7. Append(w, m) \in Seq(Members)
    BY <2>4, AppendProperties
  <2>8. r \in Built
    BY <2>6 DEF Building
  <2> QED BY <2>6, <2>7, <2>8 DEF D, r
<1>3. step \in [1 .. n -> [D -> D]]
  BY <1>2
<1>4. AddMembers(b, members) = g[n]
  BY DEF AddMembers
<1>5. g = CHOOSE p : p = Made(p)
  OBVIOUS
<1> HIDE DEF base
<1>6. \A p : Value(p, 0) = base /\ \A i \in 1 .. n : Value(p, i) = AddMember(p[i - 1], members[i])
  <2>1. \A i \in 1 .. n : i # 0
    OBVIOUS
  <2> QED BY <2>1, Zenon
<1> HIDE DEF Value, g
<1>7. PICK f \in [0 .. n -> D] : f[0] = base /\ \A i \in 1 .. n : f[i] = step[i][f[i - 1]]
  <2> HIDE DEF step, n, D
  <2>1. Iterates(n, D, base, step)
    BY <1>0, <1>1, <1>3, Iteration
  <2> QED BY <2>1 DEF Iterates
<1> HIDE DEF D
<1>8. \A i \in 1 .. n : f[i] = AddMember(f[i - 1], members[i])
  <2> SUFFICES ASSUME NEW i \in 1 .. n PROVE f[i] = AddMember(f[i - 1], members[i])
    OBVIOUS
  <2>1. i - 1 \in 0 .. n
    OBVIOUS
  <2>2. f[i - 1] \in D
    BY <2>1
  <2> QED BY <1>7, <2>2
<1> HIDE DEF n
<1>9. f = Made(f)
  <2>1. ASSUME NEW i \in 0 .. n PROVE f[i] = Value(f, i)
    <3>1. CASE i = 0
      BY <1>6, <1>7, <3>1
    <3>2. CASE i # 0
      <4>1. i \in 1 .. n
        BY <1>0, <3>2
      <4> QED BY <1>6, <1>8, <4>1
    <3> QED BY <3>1, <3>2
  <2> QED BY <2>1
<1>10. g = Made(g)
  <2> HIDE DEF Made
  <2> QED BY <1>5, <1>9
<1>11. g[0] = base
  <2>1. 0 \in 0 .. n
    BY <1>0
  <2> QED BY <1>10, <1>6, <2>1
<1>12. \A i \in 1 .. n : g[i] = AddMember(g[i - 1], members[i])
  <2> SUFFICES ASSUME NEW i \in 1 .. n PROVE g[i] = AddMember(g[i - 1], members[i])
    OBVIOUS
  <2>1. i \in 0 .. n
    BY <1>0
  <2> QED BY <1>10, <1>6, <2>1
<1>13. \A i \in 0 .. n : g[i] \in D
  <2> DEFINE P == {i \in 0 .. n : g[i] \in D}
  <2>1. 0 \in P
    BY <1>0, <1>1, <1>11
  <2>2. \A i \in 1 .. n : i - 1 \in P => i \in P
    <3> SUFFICES ASSUME NEW i \in 1 .. n, g[i - 1] \in D PROVE i \in 0 .. n /\ g[i] \in D
      OBVIOUS
    <3>1. AddMember(g[i - 1], members[i]) \in D /\ i \in 0 .. n
      BY <1>2
    <3> QED BY <1>12, <3>1
  <2> HIDE DEF P
  <2>3. \A i \in 0 .. n : i \in P
    BY <1>0, <2>1, <2>2, Ladder
  <2> QED BY <2>3 DEF P
<1>14. \A i \in 0 .. n : Building(g[i], k, others, want \o SubSeq(Singly(members), 1, i), S)
  <2> DEFINE p == Singly(members)
             P == {i \in 0 .. n : Building(g[i], k, others, want \o SubSeq(p, 1, i), S)}
  <2>0. p \in Seq(Members) /\ Len(p) = n /\ n \in Nat /\ n = Len(members)
    BY PlainTyped DEF n
  <2>a. \A j \in 1 .. n : p[j] = <<members[j][1], <<members[j][2]>>>> /\ p[j] \in S
    BY PlainTyped DEF n
  <2> HIDE DEF p
  <2>1. 0 \in P
    <3>1. want \o SubSeq(p, 1, 0) = want
      BY <2>0, PrefixNone
    <3>2. Building(g[0], k, others, want, S) /\ 0 \in 0 .. n
      BY <1>11, <2>0 DEF base
    <3> QED BY <3>1, <3>2
  <2>2. \A i \in 1 .. n : i - 1 \in P => i \in P
    <3> SUFFICES ASSUME NEW i \in 1 .. n, Building(g[i - 1], k, others, want \o SubSeq(p, 1, i - 1), S)
                 PROVE  i \in 0 .. n /\ Building(g[i], k, others, want \o SubSeq(p, 1, i), S)
      BY DEF P
    <3> DEFINE y == members[i]
               x == g[i - 1]
               w == want \o SubSeq(p, 1, i - 1)
               m == p[i]
    <3>1. y \in Simple
      BY <2>0
    <3>2. y \in Words \X Tokens /\ y[2].t \in {"string", "number"}
      BY <3>1 DEF Simple
    <3>3. m = <<y[1], <<y[2]>>>> /\ m \in S
      BY <2>a
    <3>4. Append(w, m) = want \o SubSeq(p, 1, i) /\ w \in Seq(Members)
      BY <2>0, PrefixMore
    <3>5. g[i] = AddMember(x, y) /\ Building(x, k, others, w, S) /\ i \in 0 .. n
      BY <1>12
    <3> HIDE DEF y, x, w, m, P
    <3>6. Building(AddMember(x, y), k, others, Append(w, m), S)
      BY <3>2, <3>3, <3>4, <3>5, AddMemberBuilds
    <3> QED BY <3>4, <3>5, <3>6
  <2> HIDE DEF P
  <2>3. \A i \in 0 .. n : i \in P
    BY <1>0, <2>1, <2>2, Ladder
  <2> QED BY <2>3 DEF P, p
<1>15. n \in 0 .. n /\ want \o SubSeq(Singly(members), 1, n) = want \o Singly(members)
  <2>1. n \in Nat /\ n = Len(Singly(members)) /\ Singly(members) \in Seq(Members)
    BY PlainTyped DEF n
  <2> QED BY <2>1, PrefixAll
<1>16. b.items # <<>> => g[n].items # <<>>
  BY <1>13, <1>15 DEF D
<1> QED BY <1>4, <1>14, <1>15, <1>16

LEMMA BuiltMade ==
  ASSUME NEW ok \in BOOLEAN, NEW h \in Heaps, NEW i \in Seq(Items)
  PROVE  /\ [ok |-> ok, heap |-> h, items |-> i] \in Built /\ [ok |-> ok, heap |-> h, items |-> i].ok = ok
         /\ [ok |-> ok, heap |-> h, items |-> i].heap = h /\ [ok |-> ok, heap |-> h, items |-> i].items = i
BY DEF Built

LEMMA BuiltWithItems ==
  ASSUME NEW b \in Built, NEW i \in Seq(Items)
  PROVE  /\ [b EXCEPT !.items = i] \in Built /\ [b EXCEPT !.items = i].ok = b.ok
         /\ [b EXCEPT !.items = i].heap = b.heap /\ [b EXCEPT !.items = i].items = i
BY DEF Built

\* An empty object.
LEMMA EmptyHolds ==
  ASSUME NEW heap, Sane(heap), NEW r, r = cJSON_CreateObject(heap), r.ok, NEW S, NEW k
  PROVE  HeapHolds(r.items, <<>>, S, k) /\ r.items # <<>>
<1> DEFINE a == allocate(heap).made
           i == Fresh(a, "object", <<>>)
           m == Mark("endobject", 0)
<1>1. Len(r.items) = 2 /\ r.items = <<i, m>> /\ Creates(r, heap)
  BY CreateObjectCreates
<1>2. a \in Nat \ {0}
  BY Allocated
<1>3. "object" \in Kind /\ "endobject" \in Kind
  BY DEF Kind
<1>4. i \in Items /\ i.string = NoText /\ i.type = "object" /\ i.level = 0
  <2> HIDE DEF a
  <2> DEFINE v == <<>>
             c == "object"
  <2>1. v \in Seq(Int) /\ c \in Kind /\ i = Fresh(a, c, v)
    BY <1>3
  <2> HIDE DEF v, c, i
  <2>2. i \in Items /\ i.string = NoText /\ i.type = c /\ i.level = 0
    BY <1>2, <2>1, FreshIs
  <2> QED BY <2>2 DEF c
<1>5. m \in Items /\ m.type = "endobject" /\ m.level = 0 /\ m.string = NoText
  <2>1. 0 \in Nat
    OBVIOUS
  <2> QED BY <1>3, <2>1, MarkTyped
<1>6. r.items \in Seq(Items)
  BY <1>1 DEF Creates
<1> HIDE DEF i, m
<1>7. Says(r.items, <<>>)
  BY <1>1, <1>4, <1>5, <1>6, SaysNone
<1>8. \A j \in 1 .. Len(<<>>) : FALSE
  OBVIOUS
<1> QED BY <1>1, <1>7, <1>8 DEF HeapHolds

\* An object is begun.
LEMMA CreateObjectBuilds ==
  ASSUME NEW heap, Sane(heap), NEW k \in Nat, heap.fails = k, heap.over = FALSE, heap.lost = {}, NEW S
  PROVE  Building(cJSON_CreateObject(heap), k, heap.live, <<>>, S)
<1> DEFINE r == cJSON_CreateObject(heap)
<1>1. Creates(r, heap) /\ r = [ok |-> r.ok, heap |-> r.heap, items |-> r.items]
  BY CreateObjectCreates
<1>2. r.ok => HeapHolds(r.items, <<>>, S, k) /\ r.items # <<>>
  BY EmptyHolds
<1> HIDE DEF r
<1>3. /\ Sane(r.heap) /\ r.heap.live = heap.live \cup Blocks(r.items) /\ Blocks(r.items) \cap heap.live = {}
      /\ r.heap.lost = {} /\ r.heap.fails = k /\ r.heap.over = FALSE
      /\ r.items \in Seq(Items) /\ r.ok \in BOOLEAN /\ (~ r.ok => r.items = <<>>) /\ (k = 0 => r.ok)
  BY <1>1 DEF Creates
<1>4. r \in Built
  <2>1. r.heap \in Heaps
    BY <1>3 DEF Sane
  <2> DEFINE x == r.ok
             h == r.heap
             i == r.items
  <2>2. x \in BOOLEAN /\ h \in Heaps /\ i \in Seq(Items) /\ r = [ok |-> x, heap |-> h, items |-> i]
    BY <1>1, <1>3, <2>1
  <2> HIDE DEF x, h, i
  <2> QED BY <2>2, BuiltMade
<1>5. r.items # <<>> => HeapHolds(r.items, <<>>, S, k)
  BY <1>2, <1>3
<1>6. Building(r, k, heap.live, <<>>, S)
  BY <1>2, <1>3, <1>4, <1>5 DEF Building
<1> QED BY <1>6 DEF r

\* What is needed of the object in which another one is to stand.
Parent(b, k, others, ms, want, S) ==
  /\ b \in Built /\ b.ok /\ Sane(b.heap) /\ b.heap.fails = k /\ b.heap.over = FALSE
  /\ (k = 0 => b.heap.lost = {}) /\ b.items # <<>>
  /\ b.heap.live = others \cup Blocks(b.items) \cup b.heap.lost /\ Blocks(b.items) \cap others = {}
  /\ Says(b.items, ms) /\ (k = 0 => ms = want) /\ \A i \in 1 .. Len(ms) : ms[i] \in S

LEMMA ParentIs ==
  ASSUME NEW b, NEW k, NEW others, NEW want, NEW S, Building(b, k, others, want, S), b.ok
  PROVE  \E ms : Parent(b, k, others, ms, want, S)
<1>1. PICK ms : Says(b.items, ms) /\ (k = 0 => ms = want) /\ \A i \in 1 .. Len(ms) : ms[i] \in S
  BY DEF Building, HeapHolds
<1> QED BY <1>1 DEF Building, Parent

\* A child that is full is there with its parent.
LEMMA AdoptedBuilds ==
  ASSUME NEW b, NEW k \in Nat, NEW others, NEW bms, NEW want \in Seq(Members), NEW S, Parent(b, k, others, bms, want, S),
         NEW name \in Words, NEW at \in Nat \ {0}, at \notin others, NEW full, NEW inner, NEW T, full.items # <<>>,
         NEW more, more = others \cup Blocks(b.items) \cup {at},
         Building(full, k, more, inner, T),
         \A ms \in Seq(Members) : (\A i \in 1 .. Len(ms) : ms[i] \in T) => <<name, Object(ms)>> \in S
  PROVE  Building(Adopted(b, name, at, full), k, others, Append(want, <<name, Object(inner)>>), S)
         /\ Adopted(b, name, at, full).items # <<>>
<1> DEFINE A == Attached(b.items, name, at, full.items)
           r == Adopted(b, name, at, full)
           all == Append(want, <<name, Object(inner)>>)
<1>1. PICK ms : Says(full.items, ms) /\ (k = 0 => ms = inner) /\ \A i \in 1 .. Len(ms) : ms[i] \in T
  BY DEF Building, HeapHolds
<1> DEFINE m == <<name, Object(ms)>>
           now == Append(bms, m)
<1>2. /\ Says(b.items, bms) /\ bms \in Seq(Members) /\ Grown(full.items) /\ ms \in Seq(Members) /\ full \in Built
      /\ Spell(full.items) = Object(ms) /\ Grown(b.items) /\ b.items[1].type = "object"
  BY <1>1, SaysObject DEF Says, Building, Parent
<1>3. Says(A, now)
  BY <1>2, SaysAttached
<1>4. A \in Seq(Items) /\ A # <<>>
  BY <1>3 DEF Says, Grown
<1>5. Blocks(A) = Blocks(b.items) \cup Blocks(full.items) \cup {at}
  <2> DEFINE i == b.items
             c == full.items
  <2>1. i \in Seq(Items) /\ c \in Seq(Items) /\ Len(i) >= 2 /\ c # <<>> /\ c[1].string = NoText
    BY <1>2, GrownEnds DEF Grown
  <2> HIDE DEF i, c
  <2>2. Blocks(Attached(i, name, at, c)) = Blocks(i) \cup Blocks(c) \cup {at}
    BY <2>1, AttachedBlocks
  <2> QED BY <2>2 DEF i, c
<1>6. r = [full EXCEPT !.items = A]
  BY DEF Adopted
<1> HIDE DEF A, r
<1>7. r \in Built /\ r.ok = full.ok /\ r.heap = full.heap /\ r.items = A
  BY <1>2, <1>4, <1>6, BuiltWithItems
<1>8. m \in S /\ m \in Members
  <2>1. Object(ms) \in Seq(Tokens)
    BY <1>2, SayingsTyped
  <2> QED BY <1>1, <1>2, <2>1 DEF Members
<1>9. \A i \in 1 .. Len(now) : now[i] \in S
  <2> HIDE DEF m
  <2>1. /\ Len(bms) \in Nat /\ Len(now) = Len(bms) + 1 /\ now[Len(bms) + 1] = m
        /\ \A i \in 1 .. Len(bms) : now[i] = bms[i]
    BY <1>2, <1>8, AppendProperties
  <2> SUFFICES ASSUME NEW i \in 1 .. Len(bms) + 1 PROVE now[i] \in S
    BY <2>1
  <2>2. i \in 1 .. Len(bms) \/ i = Len(bms) + 1
    BY <2>1
  <2>3. \A j \in 1 .. Len(bms) : bms[j] \in S
    BY DEF Parent
  <2> HIDE DEF now
  <2> QED BY <1>8, <2>1, <2>2, <2>3
<1>10. HeapHolds(A, all, S, k)
  <2>1. k = 0 => now = all
    BY <1>1 DEF Parent
  <2> HIDE DEF now, all
  <2> QED BY <1>3, <1>9, <2>1 DEF HeapHolds
<1>11. /\ Sane(full.heap) /\ full.heap.fails = k /\ full.heap.over = FALSE /\ (k = 0 => full.ok /\ full.heap.lost = {})
       /\ full.heap.live = more \cup Blocks(full.items) \cup full.heap.lost /\ Blocks(full.items) \cap more = {}
  BY DEF Building
<1>12. full.heap.live = others \cup Blocks(A) \cup full.heap.lost /\ Blocks(A) \cap others = {}
  BY <1>5, <1>11 DEF Parent
<1> HIDE DEF all
<1>13. Building(r, k, others, all, S)
  BY <1>4, <1>7, <1>10, <1>11, <1>12 DEF Building
<1> QED BY <1>4, <1>7, <1>13 DEF r, all

\* A child that could not be added is lost with what is below it.
LEMMA LostBuilds ==
  ASSUME NEW b, NEW k \in Nat, k # 0, NEW others, NEW bms, NEW want, NEW S, Parent(b, k, others, bms, want, S),
         NEW name, NEW full, NEW inner, NEW T,
         NEW more, more = others \cup Blocks(b.items), Building(full, k, more, inner, T), NEW all
  PROVE  Building(Adopted(b, name, 0, full), k, others, all, S) /\ Adopted(b, name, 0, full).items # <<>>
<1> DEFINE r == Adopted(b, name, 0, full)
           x == full.heap.lost \cup Blocks(full.items)
           h == [full.heap EXCEPT !.lost = x]
           i == b.items
<1>1. /\ Sane(full.heap) /\ full.heap.fails = k /\ full.heap.over = FALSE /\ full \in Built
      /\ full.heap.live = more \cup Blocks(full.items) \cup full.heap.lost /\ Blocks(full.items) \cap more = {}
  BY DEF Building
<1>2. x \subseteq Nat
  BY <1>1 DEF Sane, Heaps
<1>3. /\ Sane(h) /\ h.live = full.heap.live /\ h.lost = x /\ h.fails = k /\ h.over = FALSE /\ h \in Heaps
  <2> HIDE DEF x
  <2> QED BY <1>1, <1>2, Loses
<1>4. r = [ok |-> full.ok, heap |-> h, items |-> i]
  BY DEF Adopted
<1>5. i \in Seq(Items)
  BY DEF Parent, Built
<1> HIDE DEF r, h, i
<1>6. r \in Built /\ r.ok = full.ok /\ r.heap = h /\ r.items = i
  <2> DEFINE ok == full.ok
  <2>1. ok \in BOOLEAN /\ h \in Heaps /\ r = [ok |-> ok, heap |-> h, items |-> i]
    BY <1>1, <1>3, <1>4 DEF Built
  <2> HIDE DEF ok
  <2>2. r \in Built /\ r.ok = ok /\ r.heap = h /\ r.items = i
    BY <1>5, <2>1, BuiltMade
  <2> QED BY <2>2 DEF ok
<1>7. HeapHolds(i, all, S, k) /\ i # <<>>
  BY DEF Parent, HeapHolds, i
<1>8. h.live = others \cup Blocks(i) \cup h.lost /\ Blocks(i) \cap others = {}
  BY <1>1, <1>3 DEF Parent, i
<1>9. Building(r, k, others, all, S)
  BY <1>3, <1>6, <1>7, <1>8 DEF Building
<1> QED BY <1>6, <1>7, <1>9 DEF r

LEMMA AddObjectBuilds ==
  ASSUME NEW b, NEW k \in Nat, NEW others, NEW want \in Seq(Members), NEW S, Building(b, k, others, want, S),
         NEW name \in Words, NEW members \in Seq(Simple), NEW T, \A j \in 1 .. Len(members) : Singly(members)[j] \in T,
         \A ms \in Seq(Members) : (\A i \in 1 .. Len(ms) : ms[i] \in T) => <<name, Object(ms)>> \in S
  PROVE  /\ Building(AddObject(b, name, members), k, others, Append(want, <<name, Object(Singly(members))>>), S)
         /\ b.items # <<>> => AddObject(b, name, members).items # <<>>
<1> DEFINE new == cJSON_CreateObject(b.heap)
           h == allocate(new.heap)
           c == [ok |-> TRUE, heap |-> h, items |-> new.items]
           at == IF Granted(h) THEN h.made ELSE 0
           more == others \cup Blocks(b.items) \cup (IF Granted(h) THEN {h.made} ELSE {})
           full == AddMembers(c, members)
           r == AddObject(b, name, members)
           f == [b EXCEPT !.ok = FALSE, !.heap = new.heap]
           inner == Singly(members)
           all == Append(want, <<name, Object(inner)>>)
<1>1. CASE ~ b.ok
  <2>1. r = b
    BY <1>1 DEF AddObject
  <2>2. Building(b, k, others, all, S)
    BY <1>1, BuildingStopped
  <2> QED BY <2>1, <2>2
<1>2. CASE b.ok
  <2>1. PICK bms : Parent(b, k, others, bms, want, S)
    BY <1>2, ParentIs
  <2>2. /\ Sane(b.heap) /\ b.heap.fails = k /\ b.heap.over = FALSE /\ (k = 0 => b.heap.lost = {}) /\ b \in Built
        /\ b.heap.live = others \cup Blocks(b.items) \cup b.heap.lost /\ Blocks(b.items) \cap others = {} /\ b.items # <<>>
    BY <2>1 DEF Parent
  <2>3. Creates(new, b.heap)
    BY <2>2, CreateObjectCreates
  <2>4. /\ Sane(new.heap) /\ new.heap.live = b.heap.live \cup Blocks(new.items) /\ Blocks(new.items) \cap b.heap.live = {}
        /\ new.heap.lost = b.heap.lost /\ new.heap.fails = k /\ new.heap.over = FALSE
        /\ new.items \in Seq(Items) /\ (~ new.ok => new.items = <<>>) /\ (k = 0 => new.ok) /\ new.heap \in Heaps
    <3> HIDE DEF new
    <3> QED BY <2>2, <2>3 DEF Creates, Sane
  <2>5. CASE ~ new.ok
    <3>1. r = f
      BY <1>2, <2>5 DEF AddObject
    <3>2. k # 0 /\ new.heap.live = b.heap.live
      BY <2>4, <2>5, BlocksOfNone
    <3> DEFINE g == new.heap
    <3>3. g \in Heaps /\ f = [b EXCEPT !.ok = FALSE, !.heap = g]
      BY <2>4
    <3>4. Sane(g) /\ g.live = b.heap.live /\ g.lost = b.heap.lost /\ g.fails = k /\ g.over = FALSE
      BY <2>4, <3>2
    <3> HIDE DEF g, f, r, all
    <3>5. f \in Built /\ f.ok = FALSE /\ f.heap = g /\ f.items = b.items
      BY <2>2, <3>3, BuiltFails
    <3>6. HeapHolds(f.items, all, S, k)
      BY <2>1, <3>2, <3>5 DEF Parent, HeapHolds
    <3>7. Building(f, k, others, all, S)
      BY <2>2, <3>2, <3>4, <3>5, <3>6 DEF Building
    <3> QED BY <2>2, <3>1, <3>5, <3>7 DEF r, all
  <2>6. CASE new.ok
    <3>1. r = Adopted(b, name, at, full)
      BY <1>2, <2>6 DEF AddObject, ObjectAdded
    <3>2. HeapHolds(new.items, <<>>, T, k) /\ new.items # <<>>
      BY <2>2, <2>6, EmptyHolds
    <3>3. /\ Sane(h) /\ h.made \in Nat \ {0} /\ h.made \notin new.heap.live
          /\ h.live = (IF Granted(h) THEN new.heap.live \cup {h.made} ELSE new.heap.live)
          /\ h.lost = new.heap.lost /\ h.fails = new.heap.fails /\ h.over = new.heap.over /\ h \in Heaps
      BY <2>4, Allocated DEF Sane
    <3> HIDE DEF h, new
    <3>4. c \in Built /\ c.ok = TRUE /\ c.heap = h /\ c.items = new.items
      BY <2>4, <3>3, BuiltMade
    <3> HIDE DEF c
    <3>5. h.live = more \cup Blocks(new.items) \cup h.lost /\ Blocks(new.items) \cap more = {}
      BY <2>2, <2>4, <3>3
    <3> HIDE DEF more
    <3>6. Building(c, k, more, <<>>, T)
      BY <2>2, <2>4, <3>2, <3>3, <3>4, <3>5 DEF Building
    <3>7. Building(full, k, more, <<>> \o Singly(members), T) /\ full.items # <<>>
      <4>1. <<>> \in Seq(Members)
        OBVIOUS
      <4>2. c.items # <<>>
        BY <3>2, <3>4
      <4> QED BY <3>6, <4>1, <4>2, AddMembersSteps
    <3>8. <<>> \o Singly(members) = inner
      BY PlainTyped, ConcatEmptySeq
    <3> HIDE DEF full, inner
    <3>9. Building(full, k, more, inner, T)
      BY <3>7, <3>8
    <3>10. CASE Granted(h)
      <4> DEFINE a == h.made
      <4>1. at = a /\ a \in Nat \ {0} /\ a \notin others /\ more = others \cup Blocks(b.items) \cup {a}
        BY <2>2, <2>4, <3>3, <3>10 DEF more
      <4> HIDE DEF a, at
      <4>2. Building(Adopted(b, name, a, full), k, others, Append(want, <<name, Object(inner)>>), S)
            /\ Adopted(b, name, a, full).items # <<>>
        BY <2>1, <3>7, <3>9, <4>1, AdoptedBuilds
      <4> QED BY <3>1, <4>1, <4>2 DEF inner
    <3>11. CASE ~ Granted(h)
      <4>1. k # 0
        BY <2>4, <3>3, <3>11 DEF Granted
      <4>2. at = 0 /\ more = others \cup Blocks(b.items)
        BY <3>11 DEF more
      <4> HIDE DEF at, all
      <4>3. Building(Adopted(b, name, 0, full), k, others, all, S) /\ Adopted(b, name, 0, full).items # <<>>
        BY <2>1, <3>9, <4>1, <4>2, LostBuilds
      <4> QED BY <3>1, <4>2, <4>3 DEF all, inner
    <3> QED BY <3>10, <3>11
  <2> QED BY <2>5, <2>6
<1> QED BY <1>1, <1>2

-----------------------------------------------------------------------------
(* Printing.                                                               *)

Buffers == [ok : BOOLEAN, heap : Heaps, buffer : Nat, length : Int, offset : Int, filled : Int, zero : BOOLEAN,
            depth : Int, text : Seq(Tokens), bad : BOOLEAN]

\* What the print buffer does to the heap: one block that was not there.
Borrows(p, k, live, lost) ==
  /\ Sane(p.heap) /\ p.heap.fails = k /\ p.heap.over = FALSE /\ p.heap.lost = lost
  /\ p.heap.live = live \cup ({p.buffer} \ {0}) /\ p.buffer \notin live
  /\ (k = 0 => p.ok) /\ (p.ok => p.buffer # 0)

\* So many bytes stand behind the offset; the text without white space is bare.
Stands(p, depth, bare, bytes, zero) ==
  /\ p.bad = FALSE /\ p.depth = depth
  /\ p.ok => /\ p.offset >= 0 /\ p.offset <= p.filled /\ p.filled = p.offset + bytes /\ p.filled < p.length
             /\ p.zero = zero /\ NoBlanks(p.text) = bare

Prints(p, k, live, lost, depth, bare, bytes, zero) ==
  p \in Buffers /\ Borrows(p, k, live, lost) /\ Stands(p, depth, bare, bytes, zero)

Gone(p, h) == [p EXCEPT !.heap = h, !.buffer = 0, !.length = 0, !.ok = FALSE]

LEMMA GoneIs ==
  ASSUME NEW p \in Buffers, NEW h \in Heaps
  PROVE  LET r == Gone(p, h)
         IN /\ r \in Buffers
            /\ r.ok = FALSE /\ r.heap = h /\ r.buffer = 0 /\ r.length = 0 /\ r.offset = p.offset
            /\ r.filled = p.filled /\ r.zero = p.zero /\ r.depth = p.depth /\ r.text = p.text /\ r.bad = p.bad
<1>1. 0 \in Nat /\ 0 \in Int /\ FALSE \in BOOLEAN
  OBVIOUS
<1> DEFINE x == 0
           y == FALSE
           r == [p EXCEPT !.heap = h, !.buffer = x, !.length = x, !.ok = y]
<1>2. x \in Nat /\ x \in Int /\ y \in BOOLEAN /\ Gone(p, h) = r
  BY DEF Gone
<1> HIDE DEF x, y
<1>3. /\ r \in Buffers
      /\ r.ok = y /\ r.heap = h /\ r.buffer = x /\ r.length = x /\ r.offset = p.offset
      /\ r.filled = p.filled /\ r.zero = p.zero /\ r.depth = p.depth /\ r.text = p.text /\ r.bad = p.bad
  BY <1>2 DEF Buffers
<1> QED BY <1>2, <1>3 DEF x, y

Moved(p, h, b, l) == [p EXCEPT !.heap = h, !.buffer = b, !.length = l]

LEMMA MovedIs ==
  ASSUME NEW p \in Buffers, NEW h \in Heaps, NEW b \in Nat, NEW l \in Int
  PROVE  LET r == Moved(p, h, b, l)
         IN /\ r \in Buffers
            /\ r.ok = p.ok /\ r.heap = h /\ r.buffer = b /\ r.length = l /\ r.offset = p.offset
            /\ r.filled = p.filled /\ r.zero = p.zero /\ r.depth = p.depth /\ r.text = p.text /\ r.bad = p.bad
BY DEF Buffers, Moved

Filled(p, t, f, z, b) == [p EXCEPT !.text = t, !.filled = f, !.zero = z, !.bad = b]

LEMMA FilledIs ==
  ASSUME NEW p \in Buffers, NEW t \in Seq(Tokens), NEW f \in Int, NEW z \in BOOLEAN, NEW b \in BOOLEAN
  PROVE  LET r == Filled(p, t, f, z, b)
         IN /\ r \in Buffers
            /\ r.ok = p.ok /\ r.heap = p.heap /\ r.buffer = p.buffer /\ r.length = p.length /\ r.offset = p.offset
            /\ r.filled = f /\ r.zero = z /\ r.depth = p.depth /\ r.text = t /\ r.bad = b
BY DEF Buffers, Filled

Advanced(p, o) == [p EXCEPT !.offset = o]

LEMMA AdvancedIs ==
  ASSUME NEW p \in Buffers, NEW o \in Int
  PROVE  LET r == Advanced(p, o)
         IN /\ r \in Buffers
            /\ r.ok = p.ok /\ r.heap = p.heap /\ r.buffer = p.buffer /\ r.length = p.length /\ r.offset = o
            /\ r.filled = p.filled /\ r.zero = p.zero /\ r.depth = p.depth /\ r.text = p.text /\ r.bad = p.bad
BY DEF Buffers, Advanced

Updated(p, o, b) == [p EXCEPT !.offset = o, !.bad = b]

LEMMA UpdatedIs ==
  ASSUME NEW p \in Buffers, NEW o \in Int, NEW b \in BOOLEAN
  PROVE  LET r == Updated(p, o, b)
         IN /\ r \in Buffers
            /\ r.ok = p.ok /\ r.heap = p.heap /\ r.buffer = p.buffer /\ r.length = p.length /\ r.offset = o
            /\ r.filled = p.filled /\ r.zero = p.zero /\ r.depth = p.depth /\ r.text = p.text /\ r.bad = b
BY DEF Buffers, Updated

Indented(p, d) == [p EXCEPT !.depth = d]

LEMMA IndentedIs ==
  ASSUME NEW p \in Buffers, NEW d \in Int
  PROVE  LET r == Indented(p, d)
         IN /\ r \in Buffers
            /\ r.ok = p.ok /\ r.heap = p.heap /\ r.buffer = p.buffer /\ r.length = p.length /\ r.offset = p.offset
            /\ r.filled = p.filled /\ r.zero = p.zero /\ r.depth = d /\ r.text = p.text /\ r.bad = p.bad
BY DEF Buffers, Indented

Stopped(p) == [p EXCEPT !.ok = FALSE]

LEMMA StoppedIs ==
  ASSUME NEW p \in Buffers
  PROVE  LET r == Stopped(p)
         IN r \in Buffers /\ r.ok = FALSE /\ r.heap = p.heap /\ r.buffer = p.buffer /\ r.depth = p.depth /\ r.bad = p.bad
BY DEF Buffers, Stopped

\* The block that realloc gives is another one, and the old one is freed in any case.
LEMMA ReallocatedPrints ==
  ASSUME NEW p, NEW k \in Nat, NEW live, NEW lost, NEW depth, NEW bare, NEW zero,
         Prints(p, k, live, lost, depth, bare, 0, zero), p.ok, NEW size \in Int, size >= p.length,
         NEW r, r = Reallocated(p, size, allocate(p.heap))
  PROVE  Prints(r, k, live, lost, depth, bare, 0, zero) /\ (r.ok => r.length = size) /\ r.offset = p.offset
<1> DEFINE h == allocate(p.heap)
           g == deallocate(h, {p.buffer})
<1>1. p \in Buffers /\ Borrows(p, k, live, lost) /\ Stands(p, depth, bare, 0, zero)
  BY DEF Prints
<1>2. Sane(p.heap) /\ p.heap.live = live \cup {p.buffer} /\ p.buffer \notin live /\ p.buffer # 0 /\ p.buffer \in Nat
  BY <1>1 DEF Borrows, Buffers
<1>3. /\ Sane(h) /\ h.made \in Nat \ {0} /\ h.made \notin p.heap.live
      /\ h.live = (IF Granted(h) THEN p.heap.live \cup {h.made} ELSE p.heap.live)
      /\ h.lost = lost /\ h.fails = k /\ h.over = FALSE
  BY <1>1, <1>2, Allocated DEF Borrows
<1>4. {p.buffer} \subseteq h.live
  BY <1>2, <1>3
<1>5. Sane(g) /\ g.live = h.live \ {p.buffer} /\ g.lost = lost /\ g.fails = k /\ g.over = FALSE
  BY <1>3, <1>4, Deallocated
<1>6. g \in Heaps
  BY <1>5 DEF Sane
<1> HIDE DEF h, g
<1>7. CASE Granted(h)
  <2>1. r = Moved(p, g, h.made, size)
    BY <1>7 DEF Reallocated, Moved, g, h
  <2>2. /\ r \in Buffers
        /\ r.ok = p.ok /\ r.heap = g /\ r.buffer = h.made /\ r.length = size /\ r.offset = p.offset
        /\ r.filled = p.filled /\ r.zero = p.zero /\ r.depth = p.depth /\ r.text = p.text /\ r.bad = p.bad
    <3>1. h.made \in Nat
      BY <1>3
    <3> QED BY ONLY <2>1, <1>1, <1>6, <3>1, MovedIs, size \in Int
  <2>3. g.live = live \cup {h.made} /\ h.made \notin live
    BY <1>2, <1>3, <1>5, <1>7
  <2>4. Borrows(r, k, live, lost)
    BY <2>2, <2>3, <1>1, <1>3, <1>5 DEF Borrows
  <2>5. p.length \in Int /\ p.filled \in Int
    BY <1>1 DEF Buffers
  <2>6. Stands(r, depth, bare, 0, zero)
    BY <2>2, <1>1, <2>5 DEF Stands
  <2> QED BY <2>2, <2>4, <2>6 DEF Prints
<1>8. CASE ~ Granted(h)
  <2>1. r = Gone(p, g)
    BY <1>8 DEF Reallocated, Gone, g, h
  <2>2. /\ r \in Buffers /\ r.ok = FALSE /\ r.heap = g /\ r.buffer = 0 /\ r.depth = p.depth /\ r.bad = p.bad /\ r.offset = p.offset
    BY ONLY <2>1, <1>1, <1>6, GoneIs
  <2>3. k # 0
    BY <1>3, <1>8, GotUnlessFails
  <2>4. g.live = live /\ 0 \notin live
    <3>1. p.heap.live \subseteq 1 .. p.heap.made
      BY <1>2 DEF Sane
    <3> QED BY <1>2, <1>3, <1>5, <1>8, <3>1
  <2>5. Borrows(r, k, live, lost)
    BY <2>2, <2>3, <2>4, <1>5 DEF Borrows
  <2>6. Stands(r, depth, bare, 0, zero)
    BY <2>2, <1>1 DEF Stands
  <2> QED BY <2>2, <2>5, <2>6 DEF Prints
<1> QED BY <1>7, <1>8

\* ensure makes the room it is asked for.
LEMMA EnsurePrints ==
  ASSUME NEW p, NEW k \in Nat, NEW live, NEW lost, NEW depth, NEW bare, NEW zero,
         Prints(p, k, live, lost, depth, bare, 0, zero), p.ok, NEW needed \in Nat,
         NEW r, r = ensure(p, needed)
  PROVE  Prints(r, k, live, lost, depth, bare, 0, zero) /\ (r.ok => needed + r.offset + 1 <= r.length)
<1>1. p \in Buffers /\ p.length \in Int /\ p.offset \in Int /\ p.filled \in Int
  BY DEF Prints, Buffers
<1>2. p.buffer # 0 /\ p.offset = p.filled /\ p.filled < p.length
  BY <1>1 DEF Prints, Borrows, Stands
<1>3. ~ (p.buffer = 0 \/ p.offset >= p.length)
  BY <1>1, <1>2
<1>4. CASE needed + p.offset + 1 <= p.length
  BY <1>3, <1>4 DEF ensure
<1>5. CASE ~ (needed + p.offset + 1 <= p.length)
  <2> DEFINE size == 2 * (needed + p.offset + 1)
  <2>0. p.offset >= 0
    BY DEF Prints, Stands
  <2>1. size \in Int /\ size >= p.length /\ needed + p.offset + 1 <= size
    <3>1. needed + p.offset + 1 \in Int /\ needed + p.offset + 1 > p.length /\ needed + p.offset + 1 >= 0
      BY <1>1, <1>5, <2>0
    <3> QED BY <3>1, <1>1
  <2>2. r = Reallocated(p, size, allocate(p.heap))
    BY <1>3, <1>5 DEF ensure
  <2> HIDE DEF size
  <2>3. Prints(r, k, live, lost, depth, bare, 0, zero) /\ (r.ok => r.length = size) /\ r.offset = p.offset
    BY <2>1, <2>2, ReallocatedPrints
  <2> QED BY <2>1, <2>3
<1> QED BY <1>4, <1>5

\* Once printing has failed, nothing is said of what stands in the buffer.
LEMMA PrintsStopped ==
  ASSUME NEW p, NEW k, NEW live, NEW lost, NEW depth, NEW bare, NEW bytes, NEW zero,
         Prints(p, k, live, lost, depth, bare, bytes, zero), ~ p.ok, NEW bare2, NEW bytes2, NEW zero2
  PROVE  Prints(p, k, live, lost, depth, bare2, bytes2, zero2)
BY DEF Prints, Stands

LEMMA WrittenPrints ==
  ASSUME NEW p, NEW k \in Nat, NEW live, NEW lost, NEW depth, NEW bare, NEW zero,
         Prints(p, k, live, lost, depth, bare, 0, zero),
         NEW tokens \in Seq(Tokens), NEW bytes \in Nat, NEW behind \in BOOLEAN,
         p.ok => bytes + p.offset + 1 <= p.length,
         NEW r, r = Written(p, tokens, bytes, behind)
  PROVE  Prints(r, k, live, lost, depth, bare \o NoBlanks(tokens), bytes, behind)
<1>1. CASE ~ p.ok
  <2>1. r = p
    BY <1>1 DEF Written
  <2> QED BY <1>1, <2>1, PrintsStopped
<1>2. CASE p.ok
  <2>1. p \in Buffers /\ Borrows(p, k, live, lost) /\ Stands(p, depth, bare, 0, zero)
    BY DEF Prints
  <2>2. p.length \in Int /\ p.offset \in Int /\ p.filled \in Int /\ p.text \in Seq(Tokens) /\ p.bad \in BOOLEAN
    BY <2>1 DEF Buffers
  <2>3. p.offset = p.filled /\ p.offset >= 0 /\ p.filled < p.length /\ p.bad = FALSE /\ NoBlanks(p.text) = bare /\ p.depth = depth
    BY <1>2, <2>1, <2>2 DEF Stands
  <2> DEFINE f == p.offset + bytes
             t == p.text \o tokens
             b == \/ p.bad \/ p.offset # p.filled
                  \/ p.offset + bytes + (IF behind THEN 1 ELSE 0) > p.length
  <2>4. f \in Int /\ f >= p.offset /\ f < p.length /\ p.offset <= f
    BY <1>2, <2>2
  <2>5. b = FALSE
    <3>1. ~ (p.offset + bytes + (IF behind THEN 1 ELSE 0) > p.length)
      <4>1. CASE behind BY <1>2, <2>2, <4>1
      <4>2. CASE ~ behind BY <1>2, <2>2, <4>2
      <4> QED BY <4>1, <4>2
    <3>2. ~ b
      BY <2>3, <3>1
    <3> QED BY <3>2
  <2>6. t \in Seq(Tokens) /\ NoBlanks(t) = bare \o NoBlanks(tokens)
    BY <2>2, <2>3, ConcatProperties, NoBlanksJoin
  <2>7. r = Filled(p, t, f, behind, b)
    BY <1>2 DEF Written, Filled
  <2> HIDE DEF f, t, b
  <2>8. f \in Int /\ behind \in BOOLEAN /\ b \in BOOLEAN /\ t \in Seq(Tokens) /\ p \in Buffers
    BY <2>1, <2>4, <2>5, <2>6
  <2>80. LET q == Filled(p, t, f, behind, b)
         IN /\ q \in Buffers
            /\ q.ok = p.ok /\ q.heap = p.heap /\ q.buffer = p.buffer /\ q.length = p.length /\ q.offset = p.offset
            /\ q.filled = f /\ q.zero = behind /\ q.depth = p.depth /\ q.text = t /\ q.bad = b
    BY ONLY <2>8 DEF Filled, Buffers
  <2>9. /\ r \in Buffers
        /\ r.ok = p.ok /\ r.heap = p.heap /\ r.buffer = p.buffer /\ r.length = p.length /\ r.offset = p.offset
        /\ r.filled = f /\ r.zero = behind /\ r.depth = p.depth /\ r.text = t /\ r.bad = FALSE
    BY ONLY <2>80, <2>7, <2>5
  <2>10. Borrows(r, k, live, lost)
    BY <2>1, <2>9 DEF Borrows
  <2>11. f = r.offset + bytes
    BY <2>9 DEF f
  <2>12. Stands(r, depth, bare \o NoBlanks(tokens), bytes, behind)
    BY <2>3, <2>4, <2>6, <2>9, <2>11 DEF Stands
  <2> QED BY <2>9, <2>10, <2>12 DEF Prints
<1> QED BY <1>1, <1>2

\* Text is put where there is room for it.
LEMMA PutPrints ==
  ASSUME NEW p, NEW k \in Nat, NEW live, NEW lost, NEW depth, NEW bare, NEW zero,
         Prints(p, k, live, lost, depth, bare, 0, zero),
         NEW needed \in Nat, NEW tokens \in Seq(Tokens), NEW bytes \in Nat, bytes <= needed, NEW behind \in BOOLEAN,
         NEW r, r = Put(p, needed, tokens, bytes, behind)
  PROVE  Prints(r, k, live, lost, depth, bare \o NoBlanks(tokens), bytes, behind)
<1>1. CASE ~ p.ok
  <2>1. r = p
    BY <1>1 DEF Put
  <2> QED BY <1>1, <2>1, PrintsStopped
<1>2. CASE p.ok
  <2> DEFINE e == ensure(p, needed)
  <2>1. Prints(e, k, live, lost, depth, bare, 0, zero) /\ (e.ok => needed + e.offset + 1 <= e.length)
    BY <1>2, EnsurePrints
  <2>2. r = Written(e, tokens, bytes, behind)
    BY <1>2 DEF Put
  <2> HIDE DEF e
  <2>3. e.offset \in Int /\ e.length \in Int
    BY <2>1 DEF Prints, Buffers
  <2>4. e.ok => bytes + e.offset + 1 <= e.length
    BY <2>1, <2>3
  <2> QED BY <2>1, <2>2, <2>4, WrittenPrints
<1> QED BY <1>1, <1>2

LEMMA AdvancePrints ==
  ASSUME NEW p, NEW k, NEW live, NEW lost, NEW depth, NEW bare, NEW bytes \in Nat, NEW zero,
         Prints(p, k, live, lost, depth, bare, bytes, zero), NEW r, r = Advance(p, bytes)
  PROVE  Prints(r, k, live, lost, depth, bare, 0, zero)
<1>1. CASE ~ p.ok
  <2>1. r = p
    BY <1>1 DEF Advance
  <2> QED BY <1>1, <2>1, PrintsStopped
<1>2. CASE p.ok
  <2>1. p \in Buffers /\ Borrows(p, k, live, lost) /\ Stands(p, depth, bare, bytes, zero)
    BY DEF Prints
  <2>2. p.length \in Int /\ p.offset \in Int /\ p.filled \in Int
    BY <2>1 DEF Buffers
  <2> DEFINE o == p.offset + bytes
  <2>3. o \in Int
    BY <2>2
  <2>4. r = Advanced(p, o)
    BY <1>2 DEF Advance, Advanced
  <2>5. o = p.filled /\ o >= 0 /\ o <= p.filled /\ p.filled = o + 0
    BY <1>2, <2>1, <2>2 DEF Stands
  <2> HIDE DEF o
  <2>6. /\ r \in Buffers
        /\ r.ok = p.ok /\ r.heap = p.heap /\ r.buffer = p.buffer /\ r.length = p.length /\ r.offset = o
        /\ r.filled = p.filled /\ r.zero = p.zero /\ r.depth = p.depth /\ r.text = p.text /\ r.bad = p.bad
    BY ONLY <2>1, <2>3, <2>4, AdvancedIs
  <2>7. Borrows(r, k, live, lost)
    BY <2>1, <2>6 DEF Borrows
  <2>8. Stands(r, depth, bare, 0, zero)
    BY <2>1, <2>5, <2>6 DEF Stands
  <2> QED BY <2>6, <2>7, <2>8 DEF Prints
<1> QED BY <1>1, <1>2

\* strlen finds the end where a zero byte stands behind the text.
LEMMA UpdatePrints ==
  ASSUME NEW p, NEW k, NEW live, NEW lost, NEW depth, NEW bare, NEW bytes \in Nat,
         Prints(p, k, live, lost, depth, bare, bytes, TRUE), NEW r, r = update_offset(p)
  PROVE  Prints(r, k, live, lost, depth, bare, 0, TRUE)
<1>1. CASE ~ p.ok
  <2>1. r = p
    BY <1>1 DEF update_offset
  <2> QED BY <1>1, <2>1, PrintsStopped
<1>2. CASE p.ok
  <2>1. p \in Buffers /\ Borrows(p, k, live, lost) /\ Stands(p, depth, bare, bytes, TRUE)
    BY DEF Prints
  <2>2. p.length \in Int /\ p.offset \in Int /\ p.filled \in Int
    BY <2>1 DEF Buffers
  <2> DEFINE o == p.filled
             b == p.bad \/ ~ p.zero
  <2>3. o \in Int /\ FALSE \in BOOLEAN
    BY <2>2
  <2>4. b = FALSE
    <3>1. ~ b
      BY <1>2, <2>1 DEF Stands
    <3> QED BY <3>1
  <2>5. r = Updated(p, o, b)
    BY <1>2 DEF update_offset, Updated
  <2>6. o = p.filled /\ o >= 0 /\ o <= p.filled /\ p.filled = o + 0
    BY <1>2, <2>1, <2>2 DEF Stands
  <2> HIDE DEF o, b
  <2>7. r = Updated(p, o, FALSE)
    BY <2>4, <2>5
  <2>8. /\ r \in Buffers
        /\ r.ok = p.ok /\ r.heap = p.heap /\ r.buffer = p.buffer /\ r.length = p.length /\ r.offset = o
        /\ r.filled = p.filled /\ r.zero = p.zero /\ r.depth = p.depth /\ r.text = p.text /\ r.bad = FALSE
    BY ONLY <2>1, <2>3, <2>7, UpdatedIs
  <2>9. Borrows(r, k, live, lost)
    BY <2>1, <2>8 DEF Borrows
  <2>10. Stands(r, depth, bare, 0, TRUE)
    BY <2>1, <2>6, <2>8 DEF Stands
  <2> QED BY <2>8, <2>9, <2>10 DEF Prints
<1> QED BY <1>1, <1>2

LEMMA IndentedPrints ==
  ASSUME NEW p, NEW k, NEW live, NEW lost, NEW depth, NEW bare, NEW bytes, NEW zero,
         Prints(p, k, live, lost, depth, bare, bytes, zero), NEW d \in Int, NEW r, r = Indented(p, d)
  PROVE  Prints(r, k, live, lost, d, bare, bytes, zero)
<1>1. p \in Buffers /\ Borrows(p, k, live, lost) /\ Stands(p, depth, bare, bytes, zero)
  BY DEF Prints
<1>2. /\ r \in Buffers
      /\ r.ok = p.ok /\ r.heap = p.heap /\ r.buffer = p.buffer /\ r.length = p.length /\ r.offset = p.offset
      /\ r.filled = p.filled /\ r.zero = p.zero /\ r.depth = d /\ r.text = p.text /\ r.bad = p.bad
  BY ONLY <1>1, d \in Int, r = Indented(p, d), IndentedIs
<1>3. Borrows(r, k, live, lost)
  BY <1>1, <1>2 DEF Borrows
<1>4. Stands(r, d, bare, bytes, zero)
  BY <1>1, <1>2 DEF Stands
<1> QED BY <1>2, <1>3, <1>4 DEF Prints

\* What is printed has widths.
LEMMA WidthTyped == ASSUME NEW text \in TextBlocks PROVE Width(text) \in Nat
<1>1. text.s \in Words /\ text.n \in Seq(Int)
  BY DEF TextBlocks
<1>2. \A w \in Words : Len(w) \in Nat
  BY CjsonAssumption
<1>3. Len(text.s) \in Nat
  BY <1>1, <1>2, Zenon
<1>4. Len(text.n) \in Nat
  BY <1>1
<1> DEFINE a == Len(text.s)
           b == Len(text.n)
<1>5. a \in Nat /\ b \in Nat /\ Width(text) = IF text.n # <<>> THEN b + 2 ELSE a + 2
  BY <1>3, <1>4 DEF Width
<1> HIDE DEF a, b
<1> QED BY <1>5

LEMMA DigitsTyped ==
  ASSUME NEW v \in Int
  PROVE  Digits(v) \in Nat
<1> DEFINE S == {k \in 1 .. 9 : 10 ^ k <= v \div 10}
           c == Cardinality(S)
           d == IF v % 10 = 0 THEN 0 ELSE 2
<1>1. IsFiniteSet(1 .. 9)
  <2>1. \A a, b \in Int : IsFiniteSet(a .. b)
    BY FS_Interval
  <2> QED BY ONLY <2>1, 1 \in Int, 9 \in Int
<1>2. S \subseteq 1 .. 9
  OBVIOUS
<1> HIDE DEF S
<1>3. c \in Nat
  BY <1>1, <1>2, FS_Subset, FS_CardinalityType
<1>4. d \in Nat
  OBVIOUS
<1>5. Digits(v) = 1 + c + d
  BY DEF Digits, S
<1> HIDE DEF c, d
<1> QED BY <1>3, <1>4, <1>5

LEMMA BlankTyped == Blank \in Tokens
<1>1. "blank" \in Kind
  BY DEF Kind
<1> QED BY <1>1, PunctTyped DEF Blank

LEMMA TabsBare == ASSUME NEW n \in Nat PROVE Tabs(n) \in Seq(Tokens) /\ NoBlanks(Tabs(n)) = <<>>
<1> DEFINE P == {i \in 0 .. n : Tabs(i) \in Seq(Tokens) /\ NoBlanks(Tabs(i)) = <<>>}
<1>1. 0 \in P
  <2>1. Tabs(0) = <<>>
    BY DEF Tabs
  <2>2. <<>> \in Seq(Tokens) /\ 0 \in 0 .. n
    OBVIOUS
  <2> QED BY <2>1, <2>2, NoBlanksNone
<1>2. \A i \in 1 .. n : i - 1 \in P => i \in P
  <2> SUFFICES ASSUME NEW i \in 1 .. n, Tabs(i - 1) \in Seq(Tokens), NoBlanks(Tabs(i - 1)) = <<>>
               PROVE  Tabs(i) \in Seq(Tokens) /\ NoBlanks(Tabs(i)) = <<>>
    OBVIOUS
  <2>1. Tabs(i) = Tabs(i - 1) \o <<Blank>>
    BY DEF Tabs
  <2>2. <<Blank>> \in Seq(Tokens)
    BY BlankTyped
  <2>3. NoBlanks(Tabs(i)) = <<>> \o Bare(Blank)
    BY <2>1, <2>2, BlankTyped, NoBlanksJoin, NoBlanksOne, ZenonT(60)
  <2>4. Bare(Blank) = <<>>
    BY DEF Bare
  <2>5. Tabs(i) \in Seq(Tokens)
    BY <2>1, <2>2, ConcatProperties
  <2>6. <<>> \o <<>> = <<>>
    OBVIOUS
  <2> QED BY <2>3, <2>4, <2>5, <2>6
<1> HIDE DEF P
<1>3. \A i \in 0 .. n : i \in P
  BY <1>1, <1>2, Ladder
<1>4. n \in P
  BY <1>3
<1> QED BY <1>4 DEF P

LEMMA OneBare == ASSUME NEW t \in Tokens, t # Blank PROVE <<t>> \in Seq(Tokens) /\ NoBlanks(<<t>>) = <<t>>
BY NoBlanksOne DEF Bare

LEMMA SaidNoBlank == ASSUME NEW text PROVE StringToken(text) # Blank
<1>1. StringToken(text).t = "string" /\ Blank.t = "blank"
  BY DEF StringToken, Blank, Punct
<1> QED BY <1>1

LEMMA NumNoBlank == ASSUME NEW v PROVE Num(v) # Blank
<1>1. Num(v).t = "number" /\ Blank.t = "blank"
  BY DEF Num, Blank, Punct
<1> QED BY <1>1

LEMMA PunctNoBlank == ASSUME NEW c, c # "blank" PROVE Punct(c) # Blank
<1>1. Punct(c).t = c /\ Blank.t = "blank"
  BY DEF Blank, Punct
<1> QED BY <1>1

\* A mark with a blank behind it.
LEMMA MarkBare ==
  ASSUME NEW c \in Kind, c \notin {"string", "number", "blank"}
  PROVE  <<Punct(c), Blank>> \in Seq(Tokens) /\ NoBlanks(<<Punct(c), Blank>>) = <<Punct(c)>>
<1>1. Punct(c) \in Tokens /\ Punct(c) # Blank
  BY PunctTyped, PunctNoBlank
<1>2. <<Punct(c)>> \in Seq(Tokens) /\ NoBlanks(<<Punct(c)>>) = <<Punct(c)>>
  BY <1>1, OneBare
<1>3. <<Blank>> \in Seq(Tokens) /\ NoBlanks(<<Blank>>) = <<>>
  BY BlankTyped, NoBlanksOne DEF Bare
<1>4. <<Punct(c), Blank>> = <<Punct(c)>> \o <<Blank>>
  OBVIOUS
<1>5. NoBlanks(<<Punct(c)>> \o <<Blank>>) = <<Punct(c)>> \o <<>>
  BY <1>2, <1>3, NoBlanksJoin, ZenonT(60)
<1>6. <<Punct(c)>> \o <<>> = <<Punct(c)>>
  BY <1>2, ConcatEmptySeq
<1>7. <<Punct(c), Blank>> \in Seq(Tokens)
  BY <1>2, <1>3, <1>4, ConcatProperties
<1> QED BY <1>4, <1>5, <1>6, <1>7

\* The buffer is ready for what comes next.
ReadyToPrint(p, k, live, lost, depth, bare) == \E zero \in BOOLEAN : Prints(p, k, live, lost, depth, bare, 0, zero)

LEMMA StringPrints ==
  ASSUME NEW p, NEW k \in Nat, NEW live, NEW lost, NEW depth, NEW bare, NEW zero, Prints(p, k, live, lost, depth, bare, 0, zero),
         NEW text \in TextBlocks, NEW r, r = update_offset(print_string_ptr(p, text))
  PROVE  Prints(r, k, live, lost, depth, bare \o <<StringToken(text)>>, 0, TRUE)
<1> DEFINE w == Width(text)
           q == print_string_ptr(p, text)
<1>1. w \in Nat /\ w + 1 \in Nat /\ w <= w + 1
  <2>1. w \in Nat
    BY WidthTyped
  <2> HIDE DEF w
  <2> QED BY <2>1
<1>2. <<StringToken(text)>> \in Seq(Tokens) /\ NoBlanks(<<StringToken(text)>>) = <<StringToken(text)>>
  BY SaidTyped, SaidNoBlank, OneBare
<1>3. q = Put(p, w + 1, <<StringToken(text)>>, w, TRUE)
  BY DEF print_string_ptr, StringToken
<1> HIDE DEF w, q
<1>4. Prints(q, k, live, lost, depth, bare \o NoBlanks(<<StringToken(text)>>), w, TRUE)
  BY <1>1, <1>2, <1>3, PutPrints
<1>5. Prints(q, k, live, lost, depth, bare \o <<StringToken(text)>>, w, TRUE)
  BY <1>2, <1>4
<1>6. r = update_offset(q)
  BY DEF q
<1> QED BY <1>1, <1>5, <1>6, UpdatePrints

LEMMA NumberPrints ==
  ASSUME NEW p, NEW k \in Nat, NEW live, NEW lost, NEW depth, NEW bare, NEW zero, Prints(p, k, live, lost, depth, bare, 0, zero),
         NEW v \in Int, NEW r, r = update_offset(print_number(p, v))
  PROVE  Prints(r, k, live, lost, depth, bare \o <<Num(v)>>, 0, TRUE)
<1> DEFINE w == Digits(v)
           q == Put(p, w + 1, <<Num(v)>>, w, TRUE)
           a == Advance(q, w)
<1>1. w \in Nat /\ w + 1 \in Nat /\ w <= w + 1
  <2>1. w \in Nat
    BY DigitsTyped
  <2> HIDE DEF w
  <2> QED BY <2>1
<1>2. <<Num(v)>> \in Seq(Tokens) /\ NoBlanks(<<Num(v)>>) = <<Num(v)>>
  BY NumTyped, NumNoBlank, OneBare
<1>3. r = update_offset(a)
  BY DEF print_number
<1> HIDE DEF w
<1>4. Prints(q, k, live, lost, depth, bare \o NoBlanks(<<Num(v)>>), w, TRUE)
  BY <1>1, <1>2, PutPrints
<1>5. Prints(q, k, live, lost, depth, bare \o <<Num(v)>>, w, TRUE)
  BY <1>2, <1>4
<1> HIDE DEF q
<1>6. Prints(a, k, live, lost, depth, bare \o <<Num(v)>>, 0, TRUE)
  BY <1>1, <1>5, AdvancePrints
<1> HIDE DEF a
<1> QED BY <1>3, <1>6, UpdatePrints, 0 \in Nat

LEMMA ReadyText ==
  ASSUME NEW p, NEW k, NEW live, NEW lost, NEW depth, NEW bare, NEW zero \in BOOLEAN, Prints(p, k, live, lost, depth, bare, 0, zero)
  PROVE  ReadyToPrint(p, k, live, lost, depth, bare)
BY DEF ReadyToPrint

\* Something is put and stepped over.
LEMMA PutReady ==
  ASSUME NEW p, NEW k \in Nat, NEW live, NEW lost, NEW depth, NEW bare, NEW zero, Prints(p, k, live, lost, depth, bare, 0, zero),
         NEW needed \in Nat, NEW tokens \in Seq(Tokens), NEW bytes \in Nat, bytes <= needed, NEW behind \in BOOLEAN,
         NEW r, r = Advance(Put(p, needed, tokens, bytes, behind), bytes)
  PROVE  Prints(r, k, live, lost, depth, bare \o NoBlanks(tokens), 0, behind)
<1> DEFINE q == Put(p, needed, tokens, bytes, behind)
<1>1. Prints(q, k, live, lost, depth, bare \o NoBlanks(tokens), bytes, behind)
  BY PutPrints
<1>2. r = Advance(q, bytes)
  OBVIOUS
<1> HIDE DEF q
<1> QED BY <1>1, <1>2, AdvancePrints

LEMMA TwoJoin == ASSUME NEW S, NEW a \in S, NEW b \in S PROVE <<a>> \o <<b>> = <<a, b>>
<1>1. <<a>> \in Seq(S) /\ Len(<<a>>) = 1 /\ <<a>>[1] = a
  OBVIOUS
<1>2. <<a>> \o <<b>> = Append(<<a>>, b)
  BY <1>1, AppendIsConcat
<1>3. Append(<<a>>, b) = <<a, b>>
  BY TwoIs
<1> QED BY <1>2, <1>3

LEMMA NamePrints ==
  ASSUME NEW p, NEW k \in Nat, NEW live, NEW lost, NEW depth \in Nat, NEW bare \in Seq(Tokens),
         NEW zero, Prints(p, k, live, lost, depth, bare, 0, zero),
         NEW string \in TextBlocks, string.at # 0, NEW r, r = print_name(p, string)
  PROVE  Prints(r, k, live, lost, depth, bare \o NameSaid(string), 0, FALSE)
<1> DEFINE tabs == Advance(Put(p, depth, Tabs(depth), depth, FALSE), depth)
           name == update_offset(print_string_ptr(tabs, string))
           colon == <<Punct("colon"), Blank>>
<1>1. p.depth = depth
  BY DEF Prints, Stands
<1>2. Prints(tabs, k, live, lost, depth, bare \o NoBlanks(Tabs(depth)), 0, FALSE)
  <2>1. Tabs(depth) \in Seq(Tokens) /\ depth <= depth /\ FALSE \in BOOLEAN
    BY TabsBare
  <2> QED BY <2>1, PutReady
<1>3. bare \o NoBlanks(Tabs(depth)) = bare
  BY TabsBare, ConcatEmptySeq
<1>4. Prints(tabs, k, live, lost, depth, bare, 0, FALSE)
  BY <1>2, <1>3
<1>5. r = Advance(Put(name, 2, colon, 2, FALSE), 2)
  BY <1>1 DEF print_name
<1> HIDE DEF tabs
<1>6. Prints(name, k, live, lost, depth, bare \o <<StringToken(string)>>, 0, TRUE)
  BY <1>4, StringPrints
<1>7. colon \in Seq(Tokens) /\ NoBlanks(colon) = <<Punct("colon")>>
  <2>1. "colon" \in Kind
    BY DEF Kind
  <2> QED BY <2>1, MarkBare
<1> HIDE DEF name, colon
<1>8. 2 \in Nat /\ 2 <= 2 /\ FALSE \in BOOLEAN
  OBVIOUS
<1>9. Prints(r, k, live, lost, depth, (bare \o <<StringToken(string)>>) \o NoBlanks(colon), 0, FALSE)
  BY <1>5, <1>6, <1>7, <1>8, PutReady
<1>10. (bare \o <<StringToken(string)>>) \o <<Punct("colon")>> = bare \o (<<StringToken(string)>> \o <<Punct("colon")>>)
  <2>1. <<StringToken(string)>> \in Seq(Tokens)
    BY SaidTyped
  <2>2. <<Punct("colon")>> \in Seq(Tokens)
    <3>1. "colon" \in Kind
      BY DEF Kind
    <3> QED BY <3>1, PunctTyped
  <2> QED BY <2>1, <2>2, ConcatAssociative
<1>11. <<StringToken(string)>> \o <<Punct("colon")>> = <<StringToken(string), Punct("colon")>>
  <2>1. "colon" \in Kind
    BY DEF Kind
  <2>2. StringToken(string) \in Tokens /\ Punct("colon") \in Tokens
    BY <2>1, PunctTyped, SaidTyped
  <2> QED BY <2>2, TwoJoin
<1>12. NameSaid(string) = <<StringToken(string), Punct("colon")>>
  BY DEF NameSaid
<1> QED BY <1>7, <1>9, <1>10, <1>11, <1>12

LEMMA OpenPrints ==
  ASSUME NEW p, NEW k \in Nat, NEW live, NEW lost, NEW depth \in Nat, NEW bare,
         NEW zero, Prints(p, k, live, lost, depth, bare, 0, zero), NEW r, r = print_open(p)
  PROVE  Prints(r, k, live, lost, depth + 1, bare \o <<Punct("object")>>, 0, FALSE)
<1> DEFINE open == <<Punct("object"), Blank>>
           q == Advance(Put(p, 3, open, 2, FALSE), 2)
<1>1. open \in Seq(Tokens) /\ NoBlanks(open) = <<Punct("object")>>
  <2>1. "object" \in Kind
    BY DEF Kind
  <2> QED BY <2>1, MarkBare
<1>2. r = Indented(q, q.depth + 1)
  BY DEF print_open, Indented
<1> HIDE DEF open
<1>3. 3 \in Nat /\ 2 \in Nat /\ 2 <= 3 /\ FALSE \in BOOLEAN
  OBVIOUS
<1>4. Prints(q, k, live, lost, depth, bare \o NoBlanks(open), 0, FALSE)
  BY <1>1, <1>3, PutReady
<1> HIDE DEF q
<1>5. Prints(q, k, live, lost, depth, bare \o <<Punct("object")>>, 0, FALSE)
  BY <1>1, <1>4
<1>6. q.depth = depth
  BY <1>5 DEF Prints, Stands
<1>7. depth + 1 \in Int /\ r = Indented(q, depth + 1)
  BY <1>2, <1>6
<1> QED BY <1>5, <1>7, IndentedPrints

LEMMA ClosePrints ==
  ASSUME NEW p, NEW k \in Nat, NEW live, NEW lost, NEW depth \in Nat, depth >= 1, NEW bare,
         NEW zero, Prints(p, k, live, lost, depth, bare, 0, zero), NEW r, r = update_offset(print_close(p))
  PROVE  Prints(r, k, live, lost, depth - 1, bare \o <<Punct("endobject")>>, 0, TRUE)
<1> DEFINE tabs == Tabs(depth - 1)
           close == tabs \o <<Punct("endobject")>>
           q == Put(p, depth + 1, close, depth, TRUE)
           i == print_close(p)
<1>0. p.depth = depth
  BY DEF Prints, Stands
<1>1. close \in Seq(Tokens) /\ NoBlanks(close) = <<Punct("endobject")>>
  <2>1. tabs \in Seq(Tokens) /\ NoBlanks(tabs) = <<>>
    <3>1. depth - 1 \in Nat
      OBVIOUS
    <3> QED BY <3>1, TabsBare
  <2>2. "endobject" \in Kind
    BY DEF Kind
  <2> DEFINE t == Punct("endobject")
  <2>3. t \in Tokens /\ t # Blank
    BY <2>2, PunctTyped, PunctNoBlank
  <2> HIDE DEF tabs, t
  <2>4. <<t>> \in Seq(Tokens) /\ NoBlanks(<<t>>) = <<t>>
    BY <2>3, OneBare
  <2>5. tabs \o <<t>> \in Seq(Tokens) /\ NoBlanks(tabs \o <<t>>) = <<>> \o <<t>>
    BY <2>1, <2>4, NoBlanksJoin, ConcatProperties
  <2>6. <<>> \o <<t>> = <<t>>
    BY <2>4, ConcatEmptySeq
  <2> QED BY <2>5, <2>6 DEF t
<1>2. i = Indented(q, q.depth - 1)
  BY <1>0 DEF print_close, Indented
<1> HIDE DEF close
<1>3. depth + 1 \in Nat /\ depth <= depth + 1 /\ TRUE \in BOOLEAN
  OBVIOUS
<1>4. Prints(q, k, live, lost, depth, bare \o NoBlanks(close), depth, TRUE)
  BY <1>1, <1>3, PutPrints
<1> HIDE DEF q
<1>5. Prints(q, k, live, lost, depth, bare \o <<Punct("endobject")>>, depth, TRUE)
  BY <1>1, <1>4
<1>6. q.depth = depth
  BY <1>5 DEF Prints, Stands
<1>7. depth - 1 \in Int /\ i = Indented(q, depth - 1)
  BY <1>2, <1>6
<1>8. r = update_offset(i)
  OBVIOUS
<1> HIDE DEF i
<1>9. Prints(i, k, live, lost, depth - 1, bare \o <<Punct("endobject")>>, depth, TRUE)
  BY <1>5, <1>7, IndentedPrints
<1> QED BY <1>8, <1>9, UpdatePrints

LEMMA NextPrints ==
  ASSUME NEW p, NEW k \in Nat, NEW live, NEW lost, NEW depth, NEW bare,
         NEW zero, Prints(p, k, live, lost, depth, bare, 0, zero), NEW first \in BOOLEAN,
         NEW r, r = print_next(p, CommaUnless(first))
  PROVE  Prints(r, k, live, lost, depth, bare \o CommaUnless(first), 0, TRUE)
<1> DEFINE comma == CommaUnless(first)
           l == Len(comma)
           t == comma \o <<Blank>>
<1>1. comma \in Seq(Tokens) /\ NoBlanks(comma) = comma
  <2>1. CASE first
    BY <2>1, CommaTyped, NoBlanksNone DEF CommaUnless
  <2>2. CASE ~ first
    <3>1. "comma" \in Kind
      BY DEF Kind
    <3>2. Punct("comma") \in Tokens /\ Punct("comma") # Blank
      BY <3>1, PunctTyped, PunctNoBlank
    <3>3. comma = <<Punct("comma")>>
      BY <2>2 DEF CommaUnless
    <3> HIDE DEF comma
    <3> QED BY <3>2, <3>3, OneBare
  <2> QED BY <2>1, <2>2
<1> HIDE DEF comma
<1>2. t \in Seq(Tokens) /\ NoBlanks(t) = comma \o <<>>
  <2>1. <<Blank>> \in Seq(Tokens) /\ NoBlanks(<<Blank>>) = <<>>
    BY BlankTyped, NoBlanksOne DEF Bare
  <2> DEFINE b == <<Blank>>
  <2> HIDE DEF b
  <2>2. NoBlanks(comma \o b) = NoBlanks(comma) \o NoBlanks(b)
    BY <1>1, <2>1, NoBlanksJoin DEF b
  <2>3. comma \o b \in Seq(Tokens)
    BY <1>1, <2>1 DEF b
  <2> QED BY <1>1, <2>1, <2>2, <2>3 DEF b
<1>3. comma \o <<>> = comma
  BY <1>1, ConcatEmptySeq
<1>4. l + 2 \in Nat /\ l + 1 \in Nat /\ l + 1 <= l + 2 /\ TRUE \in BOOLEAN
  <2>1. l \in Nat
    BY <1>1
  <2> HIDE DEF l
  <2> QED BY <2>1
<1>5. r = Advance(Put(p, l + 2, t, l + 1, TRUE), l + 1)
  BY DEF print_next, comma
<1> HIDE DEF t, l
<1>6. Prints(r, k, live, lost, depth, bare \o NoBlanks(t), 0, TRUE)
  BY <1>2, <1>4, <1>5, PutReady
<1> QED BY <1>2, <1>3, <1>6 DEF comma

DepthAfter(i, depth) == IF i.type = "object" THEN depth + 1 ELSE IF i.type = "endobject" THEN depth - 1 ELSE depth

LEMMA ValuePrints ==
  ASSUME NEW p, NEW k \in Nat, NEW live, NEW lost, NEW depth \in Nat, NEW bare,
         ReadyToPrint(p, k, live, lost, depth, bare), NEW i \in Items, i.type = "endobject" \/ Valued(i), i.type = "endobject" => depth >= 1,
         NEW r, r = print_value(p, i)
  PROVE  ReadyToPrint(r, k, live, lost, DepthAfter(i, depth), bare \o <<TokenOf(i)>>)
<1>1. PICK zero \in BOOLEAN : Prints(p, k, live, lost, depth, bare, 0, zero)
  BY DEF ReadyToPrint
<1>2. CASE i.type = "string"
  <2>1. r = update_offset(print_string_ptr(p, i.valuestring)) /\ i.valuestring \in TextBlocks
    BY <1>2 DEF print_value, Items
  <2>2. TokenOf(i) = StringToken(i.valuestring) /\ DepthAfter(i, depth) = depth
    BY <1>2 DEF TokenOf, DepthAfter
  <2>3. Prints(r, k, live, lost, depth, bare \o <<StringToken(i.valuestring)>>, 0, TRUE)
    BY <1>1, <2>1, StringPrints
  <2> QED BY <2>2, <2>3, ReadyText
<1>3. CASE i.type = "number"
  <2> DEFINE v == i.valuedouble[1]
  <2>1. r = update_offset(print_number(p, v)) /\ v \in Int
    BY <1>3 DEF print_value, Valued
  <2>2. TokenOf(i) = Num(v) /\ DepthAfter(i, depth) = depth
    BY <1>3 DEF TokenOf, DepthAfter
  <2> HIDE DEF v
  <2>3. Prints(r, k, live, lost, depth, bare \o <<Num(v)>>, 0, TRUE)
    BY <1>1, <2>1, NumberPrints
  <2> QED BY <2>2, <2>3, ReadyText
<1>4. CASE i.type = "object"
  <2>1. r = print_open(p)
    BY <1>4 DEF print_value
  <2>2. TokenOf(i) = Punct("object") /\ DepthAfter(i, depth) = depth + 1
    BY <1>4 DEF TokenOf, DepthAfter
  <2>3. Prints(r, k, live, lost, depth + 1, bare \o <<Punct("object")>>, 0, FALSE)
    BY <1>1, <2>1, OpenPrints
  <2> QED BY <2>2, <2>3, ReadyText
<1>5. CASE i.type = "endobject"
  <2>1. r = update_offset(print_close(p)) /\ depth >= 1
    BY <1>5 DEF print_value
  <2>2. TokenOf(i) = Punct("endobject") /\ DepthAfter(i, depth) = depth - 1
    BY <1>5 DEF TokenOf, DepthAfter
  <2>3. Prints(r, k, live, lost, depth - 1, bare \o <<Punct("endobject")>>, 0, TRUE)
    BY <1>1, <2>1, ClosePrints
  <2> QED BY <2>2, <2>3, ReadyText
<1> QED BY <1>2, <1>3, <1>4, <1>5 DEF Valued

SaidUpto(items, k) == ConcatUpto(Sayings(items))[k]
DepthAt(items, k) == IF k = 0 THEN 0 ELSE Depth(items, k)
CommaDue(items, k) == IF k = Len(items) THEN <<>> ELSE CommaUnless(First(items, k + 1))
BareAt(items, k) == SaidUpto(items, k) \o CommaDue(items, k)

\* The levels and the places of the items agree.
LEMMA DepthGoes ==
  ASSUME NEW items, Grown(items), NEW k \in 1 .. Len(items)
  PROVE  LET d == DepthAt(items, k - 1)
         IN /\ d \in Nat /\ (items[k].type = "endobject" => d >= 1)
            /\ DepthAt(items, k) = DepthAfter(items[k], d)
<1>1. items \in Seq(Items) /\ items[k] \in Items /\ (items[k].type = "endobject" \/ Valued(items[k]))
  BY GrownValues DEF Grown
<1>2. DepthAt(items, k) = Depth(items, k)
  BY DEF DepthAt
<1>3. (Opens(items[k].type) <=> items[k].type = "object") /\ items[k].level \in Nat
  BY <1>1 DEF Opens, Closing, Valued, Items
<1>4. CASE k = 1
  <2>1. DepthAt(items, k - 1) = 0 /\ Valued(items[1]) /\ items[1].level = 0
    BY <1>4 DEF DepthAt, Grown
  <2>2. items[k].type # "endobject"
    BY <1>4, <2>1 DEF Valued
  <2> QED BY <1>2, <1>3, <1>4, <2>1, <2>2 DEF Depth, DepthAfter
<1>5. CASE k # 1
  <2> DEFINE j == k - 1
  <2>1. j \in 1 .. Len(items) - 1 /\ j + 1 = k /\ j # 0 /\ j \in 1 .. Len(items)
    BY <1>1, <1>5
  <2> HIDE DEF j
  <2>2. Depth(items, j) >= 1 /\ Follows(items[k], Depth(items, j)) /\ Depth(items, j) \in Nat
    BY <1>1, <2>1, DepthTyped DEF Grown
  <2>3. DepthAt(items, j) = Depth(items, j)
    BY <2>1 DEF DepthAt
  <2> DEFINE d == Depth(items, j)
  <2>4. CASE items[k].type = "endobject"
    <3>1. items[k].level = d - 1
      BY <2>2, <2>4 DEF Follows, Valued
    <3>2. Depth(items, k) = items[k].level
      BY <1>3, <2>4 DEF Depth
    <3>3. DepthAfter(items[k], d) = d - 1
      BY <2>4 DEF DepthAfter
    <3> QED BY <1>2, <2>2, <2>3, <3>1, <3>2, <3>3 DEF j
  <2>5. CASE items[k].type # "endobject"
    <3>1. items[k].level = d
      BY <2>2, <2>5 DEF Follows
    <3>2. Depth(items, k) = DepthAfter(items[k], d)
      BY <1>3, <2>5, <3>1 DEF Depth, DepthAfter
    <3> QED BY <1>2, <2>2, <2>3, <2>5, <3>2 DEF j
  <2> QED BY <2>4, <2>5
<1> QED BY <1>4, <1>5

LEMMA PendingTyped ==
  ASSUME NEW items, NEW k \in Nat
  PROVE  CommaDue(items, k) \in Seq(Tokens) /\ First(items, k) \in BOOLEAN /\ CommaUnless(First(items, k)) \in Seq(Tokens)
<1>1. \A j : First(items, j) \in BOOLEAN
  BY DEF First, Opens, Closes
<1>2. \A j : CommaUnless(First(items, j)) \in Seq(Tokens)
  BY <1>1, CommaTyped
<1>3. <<>> \in Seq(Tokens)
  OBVIOUS
<1>4. CASE k = Len(items)
  BY <1>1, <1>2, <1>3, <1>4 DEF CommaDue
<1>5. CASE k # Len(items)
  BY <1>1, <1>2, <1>5 DEF CommaDue
<1> QED BY <1>4, <1>5

\* The text so far, item by item.
LEMMA BareGoes ==
  ASSUME NEW items, Grown(items), NEW k, k \in 1 .. Len(items)
  PROVE  /\ SaidUpto(items, k) = ((BareAt(items, k - 1) \o NameSaid(items[k].string)) \o <<TokenOf(items[k])>>)
         /\ BareAt(items, k - 1) \in Seq(Tokens) /\ SaidUpto(items, k) \in Seq(Tokens)
<1> DEFINE i == items[k]
           f == First(items, k)
           u == SaidUpto(items, k - 1)
           c == CommaUnless(f)
           n == NameSaid(i.string)
           t == <<TokenOf(i)>>
<1>1. items \in Seq(Items) /\ i \in Items /\ (i.type = "endobject" \/ Valued(i))
  BY GrownValues DEF Grown
<1>2. Sayings(items) \in Seq(Seq(Tokens)) /\ Len(Sayings(items)) = Len(items)
  BY SayingsTyped
<1>3. Concats(ConcatUpto(Sayings(items)), Tokens, Sayings(items))
  BY <1>2, ConcatSteps
<1>4. k - 1 \in 0 .. Len(items) /\ k \in 0 .. Len(items) /\ k - 1 # Len(items) /\ k - 1 + 1 = k
  BY <1>1
<1>5. u \in Seq(Tokens) /\ SaidUpto(items, k) \in Seq(Tokens) /\ SaidUpto(items, k) = u \o Sayings(items)[k]
  BY <1>2, <1>3, <1>4 DEF Concats, SaidUpto
<1>6. Sayings(items)[k] = Say(items, k)
  BY DEF Sayings
<1>7. Say(items, k) = Tell(i, f)
  BY SayTells
<1>8. Tell(i, f) = (c \o n) \o t
  BY DEF Tell
<1>9. c \in Seq(Tokens) /\ n \in Seq(Tokens) /\ t \in Seq(Tokens)
  <2>1. i.string \in TextBlocks
    BY <1>1 DEF Items
  <2>2. TokenOf(i) \in Tokens
    BY <1>1, TokenOfTyped
  <2>3. k \in Nat
    OBVIOUS
  <2> QED BY <2>1, <2>2, <2>3, NameTyped, PendingTyped
<1>10. BareAt(items, k - 1) = u \o c
  BY <1>4 DEF BareAt, CommaDue
<1> HIDE DEF u, c, n, t, f, i
<1>11. u \in Seq(Tokens)
  BY <1>5
<1> DEFINE cn == c \o n
<1>12. cn \in Seq(Tokens) /\ u \o c \in Seq(Tokens)
  BY ONLY <1>9, <1>11, ConcatProperties
<1>13. (u \o c) \o n = u \o cn
  BY ONLY <1>9, <1>11, ConcatAssociative DEF cn
<1> HIDE DEF cn
<1>14. (u \o cn) \o t = u \o (cn \o t)
  BY ONLY <1>9, <1>11, <1>12, ConcatAssociative, SMTT(30)
<1>15. SaidUpto(items, k) = (u \o cn) \o t
  BY <1>5, <1>6, <1>7, <1>8, <1>14 DEF cn
<1>16. SaidUpto(items, k) = ((u \o c) \o n) \o t
  BY <1>13, <1>15
<1> QED BY <1>5, <1>10, <1>12, <1>16 DEF n, t, i

LEMMA ItemPrints ==
  ASSUME NEW items, Grown(items), NEW j \in 1 .. Len(items), NEW p, NEW k \in Nat, NEW live, NEW lost,
         ReadyToPrint(p, k, live, lost, DepthAt(items, j - 1), BareAt(items, j - 1)), NEW r, r = print_item(p, items, j)
  PROVE  ReadyToPrint(r, k, live, lost, DepthAt(items, j), BareAt(items, j))
<1> DEFINE i == items[j]
           d == DepthAt(items, j - 1)
           b == BareAt(items, j - 1)
           named == IF i.string.at = 0 THEN p ELSE print_name(p, i.string)
           value == print_value(named, i)
           n == NameSaid(i.string)
           u == SaidUpto(items, j)
           after == DepthAt(items, j)
<1>1. items \in Seq(Items) /\ i \in Items /\ (i.type = "endobject" \/ Valued(i)) /\ i.string \in TextBlocks
  BY GrownValues DEF Grown, Items
<1>2. d \in Nat /\ (i.type = "endobject" => d >= 1) /\ after = DepthAfter(i, d)
  BY DepthGoes
<1>3. u = (b \o n) \o <<TokenOf(i)>> /\ b \in Seq(Tokens) /\ u \in Seq(Tokens)
  BY BareGoes
<1>4. r = IF Opens(i.type) \/ j = Len(items) THEN value
          ELSE print_next(value, IF Closes(items[j + 1].type) THEN <<>> ELSE <<Punct("comma")>>)
  BY DEF print_item
<1> HIDE DEF b, d, u, after
<1>5. ReadyToPrint(named, k, live, lost, d, b \o n)
  <2>1. ReadyToPrint(p, k, live, lost, d, b)
    BY DEF d, b
  <2>2. PICK zero \in BOOLEAN : Prints(p, k, live, lost, d, b, 0, zero)
    BY <2>1 DEF ReadyToPrint
  <2>3. CASE i.string.at = 0
    <3>1. n = <<>> /\ named = p
      BY <2>3 DEF NameSaid
    <3>2. b \o <<>> = b
      BY <1>3, ConcatEmptySeq
    <3> QED BY <2>1, <3>1, <3>2
  <2>4. CASE i.string.at # 0
    <3>1. named = print_name(p, i.string)
      BY <2>4
    <3> HIDE DEF i, named
    <3>2. Prints(named, k, live, lost, d, b \o n, 0, FALSE)
      BY <1>1, <1>2, <1>3, <2>2, <2>4, <3>1, NamePrints
    <3> HIDE DEF n
    <3> QED BY <3>2, ReadyText
  <2> QED BY <2>3, <2>4
<1> HIDE DEF i, named, n
<1>6. ReadyToPrint(value, k, live, lost, after, u)
  BY <1>1, <1>2, <1>3, <1>5, ValuePrints
<1> HIDE DEF value
<1>7. CASE j = Len(items)
  <2>1. r = value
    BY <1>4, <1>7
  <2>2. BareAt(items, j) = u \o <<>>
    BY <1>7 DEF BareAt, CommaDue, u
  <2>3. u \o <<>> = u
    BY <1>3, ConcatEmptySeq
  <2> QED BY <1>6, <2>1, <2>2, <2>3 DEF after
<1>8. CASE j # Len(items) /\ Opens(i.type)
  <2>1. r = value
    BY <1>4, <1>8
  <2>2. j + 1 - 1 = j /\ First(items, j + 1) = TRUE
    <3>1. j + 1 - 1 = j
      OBVIOUS
    <3>2. Opens(items[j + 1 - 1].type)
      BY <1>8, <3>1 DEF i
    <3> QED BY <3>1, <3>2 DEF First
  <2>3. BareAt(items, j) = u \o <<>>
    BY <1>8, <2>2 DEF BareAt, CommaDue, u, CommaUnless
  <2>4. u \o <<>> = u
    BY <1>3, ConcatEmptySeq
  <2> QED BY <1>6, <2>1, <2>3, <2>4 DEF after
<1>9. CASE j # Len(items) /\ ~ Opens(i.type)
  <2> DEFINE f == First(items, j + 1)
  <2>1. j + 1 # 1 /\ j + 1 - 1 = j /\ j + 1 \in Nat
    OBVIOUS
  <2>2. f <=> Closes(items[j + 1].type)
    <3>1. ~ Opens(items[j + 1 - 1].type)
      BY <1>9, <2>1 DEF i
    <3> QED BY <2>1, <3>1 DEF First
  <2>3. r = print_next(value, CommaUnless(f))
    BY <1>4, <1>9, <2>2 DEF CommaUnless
  <2>4. f \in BOOLEAN
    BY <2>1, PendingTyped
  <2>5. BareAt(items, j) = u \o CommaUnless(f)
    BY <1>9 DEF BareAt, CommaDue, u
  <2> HIDE DEF f
  <2>6. PICK zero \in BOOLEAN : Prints(value, k, live, lost, after, u, 0, zero)
    BY <1>6 DEF ReadyToPrint
  <2>7. Prints(r, k, live, lost, after, u \o CommaUnless(f), 0, TRUE)
    BY <2>3, <2>4, <2>6, NextPrints
  <2>8. ReadyToPrint(r, k, live, lost, after, u \o CommaUnless(f))
    BY <2>7, ReadyText
  <2> QED BY <2>5, <2>8 DEF after
<1> QED BY <1>7, <1>8, <1>9

\* An empty print buffer.
LEMMA BufferReady ==
  ASSUME NEW heap, Sane(heap), heap.over = FALSE, NEW items, Grown(items)
  PROVE  LET b == PrintBuffer(allocate(heap))
         IN b \in Buffers /\ ReadyToPrint(b, heap.fails, heap.live, heap.lost, DepthAt(items, 0), BareAt(items, 0))
<1> DEFINE h == allocate(heap)
           a == IF Granted(h) THEN h.made ELSE 0
           o == Granted(h)
           b == PrintBuffer(h)
<1>1. /\ Sane(h) /\ h.made \in Nat \ {0} /\ h.made \notin heap.live
      /\ h.live = (IF Granted(h) THEN heap.live \cup {h.made} ELSE heap.live)
      /\ h.lost = heap.lost /\ h.fails = heap.fails /\ h.over = FALSE
  BY Allocated
<1>2. h \in Heaps /\ a \in Nat /\ o \in BOOLEAN
  BY <1>1 DEF Sane, Granted
<1>3. 0 \notin heap.live
  <2>1. heap.live \subseteq 1 .. heap.made
    BY DEF Sane
  <2> QED BY <2>1
<1>4. h.live = heap.live \cup ({a} \ {0}) /\ a \notin heap.live /\ (o => a # 0)
  BY <1>1, <1>3
<1>5. heap.fails = 0 => o
  BY <1>1, GotUnlessFails
<1>6. BufferSize \in Int /\ 0 < BufferSize
  <2>1. BufferSize \in Nat \ {0}
    BY CjsonAssumption, Zenon
  <2> QED BY ONLY <2>1
<1>7. b = [ok |-> o, heap |-> h, buffer |-> a, length |-> BufferSize,
           offset |-> 0, filled |-> 0, zero |-> FALSE, depth |-> 0, text |-> <<>>, bad |-> FALSE]
  BY DEF PrintBuffer
<1> HIDE DEF h, a, o, b
<1>8. /\ b \in Buffers /\ (b.ok <=> o) /\ b.heap = h /\ b.buffer = a /\ b.length = BufferSize /\ b.offset = 0
      /\ b.filled = 0 /\ b.zero = FALSE /\ b.depth = 0 /\ b.text = <<>> /\ b.bad = FALSE
  <2>1. <<>> \in Seq(Tokens)
    OBVIOUS
  <2> DEFINE e == <<>>
  <2>2. e \in Seq(Tokens) /\ b = [ok |-> o, heap |-> h, buffer |-> a, length |-> BufferSize,
           offset |-> 0, filled |-> 0, zero |-> FALSE, depth |-> 0, text |-> e, bad |-> FALSE]
    BY <1>7, <2>1
  <2> HIDE DEF e
  <2>3. /\ b \in Buffers /\ (b.ok <=> o) /\ b.heap = h /\ b.buffer = a /\ b.length = BufferSize /\ b.offset = 0
        /\ b.filled = 0 /\ b.zero = FALSE /\ b.depth = 0 /\ b.text = e /\ b.bad = FALSE
    BY ONLY <1>2, <1>6, <2>2 DEF Buffers
  <2> QED BY <2>3 DEF e
<1>9. Borrows(b, heap.fails, heap.live, heap.lost)
  BY <1>1, <1>4, <1>5, <1>8 DEF Borrows
<1>10. Stands(b, 0, <<>>, 0, FALSE)
  BY <1>6, <1>8, NoBlanksNone DEF Stands
<1>11. Prints(b, heap.fails, heap.live, heap.lost, 0, <<>>, 0, FALSE)
  BY <1>8, <1>9, <1>10 DEF Prints
<1>12. DepthAt(items, 0) = 0 /\ BareAt(items, 0) = <<>>
  <2>1. SaidUpto(items, 0) = <<>>
    <3>1. Concats(ConcatUpto(Sayings(items)), Tokens, Sayings(items))
      BY SayingsTyped, ConcatSteps
    <3> QED BY <3>1 DEF Concats, SaidUpto
  <2>2. 0 # Len(items) /\ 0 + 1 = 1
    BY DEF Grown
  <2>3. First(items, 1)
    BY DEF First
  <2>4. CommaDue(items, 0) = <<>>
    BY <2>2, <2>3 DEF CommaDue, CommaUnless
  <2>5. <<>> \o <<>> = <<>>
    OBVIOUS
  <2> QED BY <2>1, <2>4, <2>5 DEF DepthAt, BareAt
<1> QED BY <1>8, <1>11, <1>12, ReadyText DEF b, h

\* At the end the buffer holds what the items say.
LEMMA PrintingSteps ==
  ASSUME NEW heap, Sane(heap), heap.over = FALSE, NEW items, Grown(items)
  PROVE  ReadyToPrint(Printing(heap, items)[Len(items)], heap.fails, heap.live, heap.lost, 0, Spell(items))
<1> DEFINE n == Len(items)
           base == PrintBuffer(allocate(heap))
           D == Buffers
           E == [i \in 0 .. n |-> {x \in Buffers : ReadyToPrint(x, heap.fails, heap.live, heap.lost, DepthAt(items, i), BareAt(items, i))}]
           step == [i \in 1 .. n |-> [x \in D |-> IF x \in E[i - 1] THEN print_item(x, items, i) ELSE base]]
           Value(p, i) == IF i = 0 THEN base ELSE print_item(p[i - 1], items, i)
           Made(p) == [i \in 0 .. n |-> Value(p, i)]
           g == CHOOSE after : after =
                  [i \in 0 .. Len(items) |->
                     IF i = 0 THEN PrintBuffer(allocate(heap)) ELSE print_item(after[i - 1], items, i)]
<1>0. n \in Nat
  BY DEF Grown
<1>1. base \in D /\ base \in E[0]
  <2>1. 0 \in 0 .. n
    BY <1>0
  <2> HIDE DEF n
  <2> QED BY <2>1, BufferReady
<1>2. \A i \in 1 .. n : \A x \in D : x \in E[i - 1] => print_item(x, items, i) \in D /\ print_item(x, items, i) \in E[i]
  <2> SUFFICES ASSUME NEW i \in 1 .. n, NEW x \in Buffers, ReadyToPrint(x, heap.fails, heap.live, heap.lost, DepthAt(items, i - 1), BareAt(items, i - 1))
               PROVE  print_item(x, items, i) \in Buffers
                      /\ ReadyToPrint(print_item(x, items, i), heap.fails, heap.live, heap.lost, DepthAt(items, i), BareAt(items, i))
    <3>1. \A i \in 1 .. n : i \in 0 .. n /\ i - 1 \in 0 .. n
      BY <1>0
    <3> HIDE DEF n, base
    <3> QED BY <3>1
  <2> DEFINE r == print_item(x, items, i)
  <2>1. heap.fails \in Nat
    BY DEF Sane, Heaps
  <2>2. ReadyToPrint(r, heap.fails, heap.live, heap.lost, DepthAt(items, i), BareAt(items, i))
    BY <2>1, ItemPrints
  <2> HIDE DEF r
  <2>3. r \in Buffers
    BY <2>2 DEF ReadyToPrint, Prints
  <2> QED BY <2>2, <2>3 DEF r
<1>3. step \in [1 .. n -> [D -> D]]
  <2>1. \A i \in 1 .. n : \A x \in D : (IF x \in E[i - 1] THEN print_item(x, items, i) ELSE base) \in D
    <3> HIDE DEF base, D, E, n
    <3> QED BY <1>1, <1>2
  <2> QED BY <2>1
<1>4. Printing(heap, items)[Len(items)] = g[n]
  BY DEF Printing
<1>5. g = CHOOSE p : p = Made(p)
  OBVIOUS
<1> HIDE DEF base, E
<1>6. \A p : Value(p, 0) = base /\ \A i \in 1 .. n : Value(p, i) = print_item(p[i - 1], items, i)
  <2>1. \A i \in 1 .. n : i # 0
    OBVIOUS
  <2> QED BY <2>1, Zenon
<1> HIDE DEF Value, g
<1>7. PICK f \in [0 .. n -> D] : f[0] = base /\ \A i \in 1 .. n : f[i] = step[i][f[i - 1]]
  <2> HIDE DEF step, n, D
  <2>1. Iterates(n, D, base, step)
    BY <1>0, <1>1, <1>3, Iteration
  <2> QED BY <2>1 DEF Iterates
<1> HIDE DEF D
<1>8. \A i \in 1 .. n : f[i - 1] \in D /\ (f[i - 1] \in E[i - 1] => f[i] = print_item(f[i - 1], items, i))
  <2> SUFFICES ASSUME NEW i \in 1 .. n PROVE f[i - 1] \in D /\ (f[i - 1] \in E[i - 1] => f[i] = print_item(f[i - 1], items, i))
    OBVIOUS
  <2>1. i - 1 \in 0 .. n
    OBVIOUS
  <2>2. f[i - 1] \in D
    BY <2>1
  <2> QED BY <1>7, <2>2
<1> HIDE DEF n
<1>81. \A i \in 0 .. n : f[i] \in E[i]
  <2> DEFINE P == {i \in 0 .. n : f[i] \in E[i]}
  <2>1. 0 \in P
    BY <1>0, <1>1, <1>7
  <2>2. \A i \in 1 .. n : i - 1 \in P => i \in P
    <3> SUFFICES ASSUME NEW i \in 1 .. n, f[i - 1] \in E[i - 1] PROVE i \in 0 .. n /\ f[i] \in E[i]
      OBVIOUS
    <3>1. print_item(f[i - 1], items, i) \in E[i] /\ i \in 0 .. n
      BY <1>2, <1>8
    <3> QED BY <1>8, <3>1
  <2> HIDE DEF P
  <2>3. \A i \in 0 .. n : i \in P
    BY <1>0, <2>1, <2>2, Ladder
  <2> QED BY <2>3 DEF P
<1>9. f = Made(f)
  <2>1. ASSUME NEW i \in 0 .. n PROVE f[i] = Value(f, i)
    <3>1. CASE i = 0
      BY <1>6, <1>7, <3>1
    <3>2. CASE i # 0
      <4>1. i \in 1 .. n /\ i - 1 \in 0 .. n
        BY <1>0, <3>2
      <4> QED BY <1>6, <1>8, <1>81, <4>1
    <3> QED BY <3>1, <3>2
  <2> QED BY <2>1
<1>10. g = Made(g)
  <2> HIDE DEF Made
  <2> QED BY <1>5, <1>9
<1>11. g[0] = base
  <2>1. 0 \in 0 .. n
    BY <1>0
  <2> QED BY <1>10, <1>6, <2>1
<1>12. \A i \in 1 .. n : g[i] = print_item(g[i - 1], items, i)
  <2> SUFFICES ASSUME NEW i \in 1 .. n PROVE g[i] = print_item(g[i - 1], items, i)
    OBVIOUS
  <2>1. i \in 0 .. n
    BY <1>0
  <2> QED BY <1>10, <1>6, <2>1
<1>13. \A i \in 0 .. n : g[i] \in D /\ g[i] \in E[i]
  <2> DEFINE P == {i \in 0 .. n : g[i] \in D /\ g[i] \in E[i]}
  <2>1. 0 \in P
    BY <1>0, <1>1, <1>11
  <2>2. \A i \in 1 .. n : i - 1 \in P => i \in P
    <3> SUFFICES ASSUME NEW i \in 1 .. n, g[i - 1] \in D, g[i - 1] \in E[i - 1] PROVE i \in 0 .. n /\ g[i] \in D /\ g[i] \in E[i]
      OBVIOUS
    <3>1. print_item(g[i - 1], items, i) \in D /\ print_item(g[i - 1], items, i) \in E[i] /\ i \in 0 .. n
      BY <1>2
    <3> QED BY <1>12, <3>1
  <2> HIDE DEF P
  <2>3. \A i \in 0 .. n : i \in P
    BY <1>0, <2>1, <2>2, Ladder
  <2> QED BY <2>3 DEF P
<1>14. n \in 0 .. n
  BY <1>0
<1>15. ReadyToPrint(g[n], heap.fails, heap.live, heap.lost, DepthAt(items, n), BareAt(items, n))
  BY <1>13, <1>14 DEF E
<1>16. DepthAt(items, n) = 0 /\ BareAt(items, n) = Spell(items)
  <2>1. n = Len(items) /\ n # 0 /\ Depth(items, Len(items)) = 0
    BY DEF n, Grown
  <2>2. Sayings(items) \in Seq(Seq(Tokens)) /\ Len(Sayings(items)) = n /\ Spell(items) = Concat(Sayings(items)) /\ Spell(items) \in Seq(Tokens)
    BY <2>1, SayingsTyped
  <2>3. SaidUpto(items, n) = Spell(items)
    BY <2>2, ConcatSteps DEF SaidUpto
  <2>4. CommaDue(items, n) = <<>>
    BY <2>1 DEF CommaDue
  <2>5. Spell(items) \o <<>> = Spell(items)
    BY <2>2, ConcatEmptySeq
  <2> QED BY <2>1, <2>3, <2>4, <2>5 DEF DepthAt, BareAt
<1> QED BY <1>4, <1>15, <1>16

Marked(h, over) == [h EXCEPT !.over = over]

LEMMA MarkedIs ==
  ASSUME NEW h, Sane(h), h.over = FALSE
  PROVE  Sane(Marked(h, FALSE)) /\ Marked(h, FALSE).live = h.live /\ Marked(h, FALSE).lost = h.lost
         /\ Marked(h, FALSE).fails = h.fails /\ Marked(h, FALSE).over = FALSE /\ Marked(h, FALSE).made = h.made
<1>1. h \in Heaps
  BY DEF Sane
<1> DEFINE m == Marked(h, FALSE)
<1>2. m \in Heaps /\ m.live = h.live /\ m.lost = h.lost /\ m.fails = h.fails /\ m.over = FALSE /\ m.made = h.made /\ m.wild = h.wild
  BY <1>1 DEF Marked, Heaps
<1> HIDE DEF m
<1>3. Sane(m)
  BY <1>2 DEF Sane
<1> QED BY <1>2, <1>3 DEF m

\* What cJSON_Print gives its caller: the text that the items say, in a block of its own.
PrintGives(r, heap, items) ==
  /\ r.ok \in BOOLEAN /\ Sane(r.heap) /\ r.heap.fails = heap.fails /\ r.heap.over = FALSE /\ r.heap.lost = heap.lost
  /\ heap.fails = 0 => r.ok
  /\ r.heap.live = heap.live \cup (IF r.ok THEN {r.printed} ELSE {})
  /\ r.ok => /\ r.printed \in Nat /\ r.printed \notin heap.live
             /\ r.text \in Seq(Tokens) /\ NoBlanks(r.text) = Spell(items)

LEMMA PrintedGives ==
  ASSUME NEW heap, Sane(heap), NEW items, NEW p, NEW depth,
         ReadyToPrint(p, heap.fails, heap.live, heap.lost, depth, Spell(items)), NEW r, r = Cut(p)
  PROVE  PrintGives(r, heap, items)
<1> DEFINE cut == IF p.ok THEN allocate(p.heap) ELSE p.heap
           free == {p.buffer} \ {0}
           d == deallocate(cut, free)
           h == Marked(d, p.bad)
<1>1. PICK zero \in BOOLEAN : Prints(p, heap.fails, heap.live, heap.lost, depth, Spell(items), 0, zero)
  BY DEF ReadyToPrint
<1>2. p \in Buffers /\ Borrows(p, heap.fails, heap.live, heap.lost) /\ Stands(p, depth, Spell(items), 0, zero)
  BY <1>1 DEF Prints
<1>3. Sane(p.heap) /\ p.heap.live = heap.live \cup free /\ p.buffer \notin heap.live /\ p.bad = FALSE
      /\ p.heap.fails = heap.fails /\ p.heap.over = FALSE /\ p.heap.lost = heap.lost /\ p.text \in Seq(Tokens)
      /\ (heap.fails = 0 => p.ok) /\ (p.ok => p.buffer # 0) /\ p.buffer \in Nat
  BY <1>2 DEF Borrows, Stands, Buffers
<1>4. LET a == allocate(p.heap)
      IN /\ Sane(a) /\ a.made \in Nat \ {0} /\ a.made \notin p.heap.live
         /\ a.live = (IF Granted(a) THEN p.heap.live \cup {a.made} ELSE p.heap.live)
         /\ a.lost = heap.lost /\ a.fails = heap.fails /\ a.over = FALSE
  BY <1>3, Allocated
<1>5. /\ Sane(cut) /\ cut.lost = heap.lost /\ cut.fails = heap.fails /\ cut.over = FALSE
      /\ p.ok => cut.made \in Nat \ {0} /\ cut.made \notin p.heap.live
      /\ cut.live = (IF p.ok /\ Granted(cut) THEN p.heap.live \cup {cut.made} ELSE p.heap.live)
  <2>1. CASE p.ok
    <3>1. cut = allocate(p.heap)
      BY <2>1
    <3> HIDE DEF cut
    <3> QED BY <1>4, <2>1, <3>1
  <2>2. CASE ~ p.ok
    <3>1. cut = p.heap
      BY <2>2
    <3> HIDE DEF cut
    <3> QED BY <1>3, <2>2, <3>1
  <2> QED BY <2>1, <2>2
<1>6. heap.fails = 0 => p.ok /\ Granted(cut)
  <2> SUFFICES ASSUME heap.fails = 0 PROVE p.ok /\ Granted(cut)
    OBVIOUS
  <2>1. p.ok
    BY <1>3
  <2>2. cut.fails = 0 /\ cut.made # 0
    BY <1>5, <2>1
  <2> HIDE DEF cut
  <2> QED BY <2>1, <2>2, GotUnlessFails
<1> HIDE DEF cut
<1>7. free \subseteq cut.live
  BY <1>3, <1>5
<1> HIDE DEF free
<1>8. Sane(d) /\ d.live = cut.live \ free /\ d.lost = heap.lost /\ d.fails = heap.fails /\ d.over = FALSE
  BY <1>5, <1>7, Deallocated
<1> HIDE DEF d
<1>9. h = Marked(d, FALSE)
  BY <1>3
<1>10. Sane(h) /\ h.live = d.live /\ h.lost = heap.lost /\ h.fails = heap.fails /\ h.over = FALSE
  BY <1>8, <1>9, MarkedIs
<1>11. r = IF p.ok /\ Granted(cut) THEN [ok |-> TRUE, heap |-> h, printed |-> cut.made, text |-> p.text]
           ELSE [ok |-> FALSE, heap |-> h, printed |-> 0, text |-> <<>>]
  BY DEF Cut, Printed, Marked, cut, d, free
<1> HIDE DEF h
<1>12. CASE p.ok /\ Granted(cut)
  <2>1. r.ok = TRUE /\ r.heap = h /\ r.printed = cut.made /\ r.text = p.text
    BY <1>11, <1>12
  <2>2. cut.live = p.heap.live \cup {cut.made} /\ cut.made \in Nat /\ cut.made \notin p.heap.live
    BY <1>5, <1>12
  <2>3. h.live = heap.live \cup {cut.made} /\ cut.made \notin heap.live
    BY <1>3, <1>8, <1>10, <2>2 DEF free
  <2>4. NoBlanks(p.text) = Spell(items)
    BY <1>2, <1>12 DEF Stands
  <2> QED BY <1>3, <1>10, <2>1, <2>2, <2>3, <2>4 DEF PrintGives
<1>13. CASE ~ (p.ok /\ Granted(cut))
  <2>1. r.ok = FALSE /\ r.heap = h
    BY <1>11, <1>13
  <2>2. cut.live = p.heap.live
    BY <1>5, <1>13
  <2>3. h.live = heap.live
    BY <1>3, <1>8, <1>10, <2>2 DEF free
  <2> QED BY <1>6, <1>10, <1>13, <2>1, <2>3 DEF PrintGives
<1> QED BY <1>12, <1>13

\* Whichever allocation fails, printing stays within its buffer, which is freed; the text, if
\* there is one, says what the items say and is the one block that is left.
THEOREM PrintIs ==
  ASSUME NEW heap, Sane(heap), heap.over = FALSE, NEW items, Grown(items)
  PROVE  PrintGives(cJSON_Print(heap, items), heap, items)
<1> DEFINE p == Printing(heap, items)[Len(items)]
<1>1. ReadyToPrint(p, heap.fails, heap.live, heap.lost, 0, Spell(items))
  BY PrintingSteps
<1>2. cJSON_Print(heap, items) = Cut(p)
  BY DEF cJSON_Print
<1> HIDE DEF p
<1> QED BY <1>1, <1>2, PrintedGives

-----------------------------------------------------------------------------
(* Reading from any state on.                                              *)

OnItsWay(s, k) == Between(s) /\ s.heap.fails = k /\ s.heap.over = FALSE

RunUpto(s, text) ==
  CHOOSE after : after = [n \in 0 .. Len(text) |-> IF n = 0 THEN s ELSE Read(after[n - 1], text[n])]

Run(s, text) == RunUpto(s, text)[Len(text)]

Runs(f, s, k, text) ==
  /\ f[0] = s
  /\ \A i \in 1 .. Len(text) : f[i] = Read(f[i - 1], text[i])
  /\ \A i \in 0 .. Len(text) : OnItsWay(f[i], k)

\* What a text makes of a state, token by token.
LEMMA RunSteps ==
  ASSUME NEW k, NEW s, OnItsWay(s, k), NEW text \in Seq(Tokens)
  PROVE  Runs(RunUpto(s, text), s, k, text)
<1> DEFINE n == Len(text)
           base == s
           D == {x \in States : OnItsWay(x, k)}
           step == [i \in 1 .. n |-> [x \in D |-> Read(x, text[i])]]
           Value(p, i) == IF i = 0 THEN base ELSE Read(p[i - 1], text[i])
           Made(p) == [i \in 0 .. n |-> Value(p, i)]
           g == CHOOSE after : after =
                  [i \in 0 .. Len(text) |->
                     IF i = 0 THEN s ELSE Read(after[i - 1], text[i])]
<1>0. n \in Nat
  OBVIOUS
<1>1. base \in D
  BY DEF OnItsWay, Between, Owning
<1>2. \A i \in 1 .. n : \A x \in D : Read(x, text[i]) \in D
  <2> SUFFICES ASSUME NEW i \in 1 .. n, NEW x \in D PROVE Read(x, text[i]) \in D
    OBVIOUS
  <2>1. OnItsWay(x, k) /\ text[i] \in Tokens
    OBVIOUS
  <2> DEFINE r == Read(x, text[i])
  <2>2. StepKeeps(r, x)
    BY <2>1, ReadKeeps DEF OnItsWay
  <2> HIDE DEF r
  <2>3. OnItsWay(r, k) /\ r \in States
    BY <2>1, <2>2 DEF OnItsWay, StepKeeps, Between, Owning
  <2> QED BY <2>3 DEF r
<1>3. step \in [1 .. n -> [D -> D]]
  BY <1>2
<1>4. RunUpto(s, text) = g
  BY DEF RunUpto
<1>5. g = CHOOSE p : p = Made(p)
  OBVIOUS
<1> HIDE DEF base
<1>6. \A p : Value(p, 0) = base /\ \A i \in 1 .. n : Value(p, i) = Read(p[i - 1], text[i])
  <2>1. \A i \in 1 .. n : i # 0
    OBVIOUS
  <2> QED BY <2>1, Zenon
<1> HIDE DEF Value, g
<1>7. PICK f \in [0 .. n -> D] : f[0] = base /\ \A i \in 1 .. n : f[i] = step[i][f[i - 1]]
  <2> HIDE DEF step, n, D
  <2>1. Iterates(n, D, base, step)
    BY <1>0, <1>1, <1>3, Iteration
  <2> QED BY <2>1 DEF Iterates
<1> HIDE DEF D
<1>8. \A i \in 1 .. n : f[i] = Read(f[i - 1], text[i])
  <2> SUFFICES ASSUME NEW i \in 1 .. n PROVE f[i] = Read(f[i - 1], text[i])
    OBVIOUS
  <2>1. i - 1 \in 0 .. n
    OBVIOUS
  <2>2. f[i - 1] \in D
    BY <2>1
  <2> QED BY <1>7, <2>2
<1> HIDE DEF n
<1>9. f = Made(f)
  <2>1. ASSUME NEW i \in 0 .. n PROVE f[i] = Value(f, i)
    <3>1. CASE i = 0
      BY <1>6, <1>7, <3>1
    <3>2. CASE i # 0
      <4>1. i \in 1 .. n
        BY <1>0, <3>2
      <4> QED BY <1>6, <1>8, <4>1
    <3> QED BY <3>1, <3>2
  <2> QED BY <2>1
<1>10. g = Made(g)
  <2> HIDE DEF Made
  <2> QED BY <1>5, <1>9
<1>11. g[0] = base
  <2>1. 0 \in 0 .. n
    BY <1>0
  <2> QED BY <1>10, <1>6, <2>1
<1>12. \A i \in 1 .. n : g[i] = Read(g[i - 1], text[i])
  <2> SUFFICES ASSUME NEW i \in 1 .. n PROVE g[i] = Read(g[i - 1], text[i])
    OBVIOUS
  <2>1. i \in 0 .. n
    BY <1>0
  <2> QED BY <1>10, <1>6, <2>1
<1>13. \A i \in 0 .. n : g[i] \in D
  <2> DEFINE P == {i \in 0 .. n : g[i] \in D}
  <2>1. 0 \in P
    BY <1>0, <1>1, <1>11
  <2>2. \A i \in 1 .. n : i - 1 \in P => i \in P
    <3> SUFFICES ASSUME NEW i \in 1 .. n, g[i - 1] \in D PROVE i \in 0 .. n /\ g[i] \in D
      OBVIOUS
    <3>1. Read(g[i - 1], text[i]) \in D /\ i \in 0 .. n
      BY <1>2
    <3> QED BY <1>12, <3>1
  <2> HIDE DEF P
  <2>3. \A i \in 0 .. n : i \in P
    BY <1>0, <2>1, <2>2, Ladder
  <2> QED BY <2>3 DEF P
<1>14. \A i \in 0 .. n : OnItsWay(g[i], k)
  BY <1>13 DEF D
<1> QED BY <1>4, <1>11, <1>12, <1>14 DEF Runs, n, base

LEMMA RunGoes ==
  ASSUME NEW k, NEW s, OnItsWay(s, k), NEW text \in Seq(Tokens)
  PROVE  OnItsWay(Run(s, text), k)
<1>1. Len(text) \in 0 .. Len(text)
  OBVIOUS
<1> QED BY <1>1, RunSteps DEF Runs, Run

LEMMA RunNone == ASSUME NEW k, NEW s, OnItsWay(s, k) PROVE Run(s, <<>>) = s
<1>1. <<>> \in Seq(Tokens) /\ Len(<<>>) = 0
  OBVIOUS
<1> QED BY <1>1, RunSteps DEF Runs, Run

\* A text behind another is read from where the other has led.
LEMMA RunJoin ==
  ASSUME NEW k, NEW s, OnItsWay(s, k), NEW x \in Seq(Tokens), NEW y \in Seq(Tokens)
  PROVE  Run(s, x \o y) = Run(Run(s, x), y)
<1> DEFINE z == x \o y
           a == Len(x)
           b == Len(y)
           f == RunUpto(s, z)
           g == RunUpto(s, x)
           m == Run(s, x)
           h == RunUpto(m, y)
<1>1. /\ z \in Seq(Tokens) /\ Len(z) = a + b /\ a \in Nat /\ b \in Nat
      /\ \A i \in 1 .. a : z[i] = x[i]
      /\ \A i \in 1 .. b : z[a + i] = y[i]
  BY ConcatPlaces
<1>2. Runs(g, s, k, x) /\ OnItsWay(m, k)
  BY RunSteps, RunGoes
<1>3. m = g[a]
  BY DEF Run
<1> HIDE DEF z, m
<1>4. Runs(f, s, k, z)
  BY <1>1, RunSteps
<1>5. Runs(h, m, k, y)
  BY <1>2, RunSteps
<1> HIDE DEF f, g, h
<1>6. \A i \in 0 .. a : f[i] = g[i]
  <2> DEFINE P == {i \in 0 .. a : f[i] = g[i]}
  <2>1. 0 \in P
    BY <1>1, <1>2, <1>4 DEF Runs
  <2>2. \A i \in 1 .. a : i - 1 \in P => i \in P
    <3> SUFFICES ASSUME NEW i \in 1 .. a, f[i - 1] = g[i - 1] PROVE i \in 0 .. a /\ f[i] = g[i]
      OBVIOUS
    <3>1. i \in 1 .. Len(z) /\ i \in 1 .. Len(x) /\ i \in 0 .. a
      BY <1>1
    <3>2. f[i] = Read(f[i - 1], z[i]) /\ g[i] = Read(g[i - 1], x[i]) /\ z[i] = x[i]
      BY <1>1, <1>2, <1>4, <3>1 DEF Runs
    <3> QED BY <3>1, <3>2
  <2> HIDE DEF P
  <2>3. \A i \in 0 .. a : i \in P
    BY <1>1, <2>1, <2>2, Ladder
  <2> QED BY <2>3 DEF P
<1>7. \A i \in 0 .. b : f[a + i] = h[i]
  <2> DEFINE P == {i \in 0 .. b : f[a + i] = h[i]}
  <2>1. 0 \in P
    <3>1. a + 0 = a /\ a \in 0 .. a /\ 0 \in 0 .. b
      BY <1>1
    <3>2. h[0] = m
      BY <1>5 DEF Runs
    <3> QED BY <1>3, <1>6, <3>1, <3>2
  <2>2. \A i \in 1 .. b : i - 1 \in P => i \in P
    <3> SUFFICES ASSUME NEW i \in 1 .. b, f[a + (i - 1)] = h[i - 1] PROVE i \in 0 .. b /\ f[a + i] = h[i]
      OBVIOUS
    <3> DEFINE j == a + i
    <3>1. j \in 1 .. Len(z) /\ j - 1 = a + (i - 1) /\ i \in 0 .. b /\ z[j] = y[i] /\ i \in 1 .. Len(y)
      BY <1>1
    <3> HIDE DEF j
    <3>2. f[j] = Read(f[j - 1], z[j]) /\ h[i] = Read(h[i - 1], y[i])
      BY <1>4, <1>5, <3>1 DEF Runs
    <3> QED BY <3>1, <3>2 DEF j
  <2> HIDE DEF P
  <2>3. \A i \in 0 .. b : i \in P
    BY <1>1, <2>1, <2>2, Ladder
  <2> QED BY <2>3 DEF P
<1>8. b \in 0 .. b /\ Len(z) = a + b
  BY <1>1
<1> QED BY <1>7, <1>8 DEF Run, z, m, f, h

LEMMA RunOne == ASSUME NEW k, NEW s, OnItsWay(s, k), NEW t \in Tokens PROVE Run(s, <<t>>) = Read(s, t)
<1> DEFINE x == <<t>>
<1>1. x \in Seq(Tokens) /\ Len(x) = 1 /\ x[1] = t
  OBVIOUS
<1> HIDE DEF x
<1>2. Runs(RunUpto(s, x), s, k, x)
  BY <1>1, RunSteps
<1>3. 1 \in 1 .. Len(x) /\ 1 - 1 = 0
  BY <1>1
<1> QED BY <1>1, <1>2, <1>3 DEF Runs, Run, x

\* The next token.
LEMMA RunMore ==
  ASSUME NEW k, NEW s, OnItsWay(s, k), NEW x \in Seq(Tokens), NEW t \in Tokens
  PROVE  Run(s, x \o <<t>>) = Read(Run(s, x), t)
<1>1. <<t>> \in Seq(Tokens)
  OBVIOUS
<1>2. OnItsWay(Run(s, x), k)
  BY RunGoes
<1> DEFINE y == <<t>>
<1>3. y \in Seq(Tokens) /\ Run(Run(s, x), y) = Read(Run(s, x), t)
  BY <1>1, <1>2, RunOne
<1> HIDE DEF y
<1>4. Run(s, x \o y) = Run(Run(s, x), y)
  BY <1>3, RunJoin
<1> QED BY <1>3, <1>4 DEF y

LEMMA BlankRead == ASSUME NEW s PROVE Read(s, Blank) = s
BY DEF Read

\* White space makes no difference.
LEMMA RunBare ==
  ASSUME NEW k, NEW s, OnItsWay(s, k), NEW text \in Seq(Tokens)
  PROVE  Run(s, text) = Run(s, NoBlanks(text))
<1> DEFINE bares == [n \in 1 .. Len(text) |-> Bare(text[n])]
           n == Len(text)
           u == ConcatUpto(bares)
           f == RunUpto(s, text)
<1>1. NoBlanks(text) = Concat(bares) /\ bares \in Seq(Seq(Tokens)) /\ Len(bares) = n /\ n \in Nat
  BY NoBlanksIs
<1>2. \A i \in 1 .. n : bares[i] = Bare(text[i]) /\ text[i] \in Tokens
  OBVIOUS
<1>3. Runs(f, s, k, text)
  BY RunSteps
<1> HIDE DEF bares, f
<1>4. Concats(u, Tokens, bares) /\ Concat(bares) = u[n]
  BY <1>1, ConcatSteps
<1> HIDE DEF u
<1>5. \A i \in 0 .. n : f[i] = Run(s, u[i])
  <2> DEFINE P == {i \in 0 .. n : f[i] = Run(s, u[i])}
  <2>1. 0 \in P
    <3>1. f[0] = s /\ u[0] = <<>> /\ 0 \in 0 .. n
      BY <1>1, <1>3, <1>4 DEF Runs, Concats
    <3> QED BY <3>1, RunNone
  <2>2. \A i \in 1 .. n : i - 1 \in P => i \in P
    <3> SUFFICES ASSUME NEW i \in 1 .. n, f[i - 1] = Run(s, u[i - 1]) PROVE i \in 0 .. n /\ f[i] = Run(s, u[i])
      OBVIOUS
    <3> DEFINE t == text[i]
               v == u[i - 1]
    <3>1. i \in 0 .. n /\ i - 1 \in 0 .. n /\ i \in 1 .. Len(bares)
      BY <1>1
    <3>2. v \in Seq(Tokens) /\ u[i] = v \o bares[i] /\ bares[i] = Bare(t) /\ t \in Tokens /\ f[i] = Read(Run(s, v), t)
      BY <1>1, <1>2, <1>3, <1>4, <3>1 DEF Concats, Runs
    <3> HIDE DEF t, v
    <3>3. CASE t = Blank
      <4>1. u[i] = v
        <5>1. Bare(t) = <<>>
          BY <3>3 DEF Bare
        <5>2. v \o <<>> = v
          BY <3>2, ConcatEmptySeq
        <5> QED BY <3>2, <5>1, <5>2
      <4>2. f[i] = Run(s, v)
        BY <3>2, <3>3, BlankRead
      <4> QED BY <3>1, <4>1, <4>2
    <3>4. CASE t # Blank
      <4>1. Bare(t) = <<t>>
        BY <3>4 DEF Bare
      <4>2. Run(s, v \o <<t>>) = Read(Run(s, v), t)
        BY <3>2, RunMore
      <4> QED BY <3>1, <3>2, <4>1, <4>2
    <3> QED BY <3>3, <3>4
  <2> HIDE DEF P
  <2>3. \A i \in 0 .. n : i \in P
    BY <1>1, <2>1, <2>2, Ladder
  <2> QED BY <2>3 DEF P
<1>6. n \in 0 .. n
  BY <1>1
<1> QED BY <1>1, <1>4, <1>5, <1>6 DEF Run, f

-----------------------------------------------------------------------------
(* What each token makes of the parser.                                    *)

\* The item that stands for a value.
Means(i, token, string, level) ==
  /\ i \in Items /\ i.string = string /\ i.level = level /\ i.type = token.t /\ TokenOf(i) = token
  /\ i.type # "string" => i.valuestring = NoText
  /\ i.type = "number" => i.valuedouble = token.n

Begins == Scalar \cup {"string"} \cup Opening

\* A value is read to its end, or a list is open, or it is no value.
Accepts(s, token, r, string, level) ==
  \/ /\ r.want = "error"
     /\ s.heap.fails # 0 \/ token.t \notin Begins \/ (token.t \in Opening /\ TooDeep(Len(s.open)))
  \/ \E i : /\ Means(i, token, string, level) /\ r.items = Append(s.items, i)
            /\ \/ token.t \in Scalar \cup {"string"} /\ r.open = s.open /\ r.want = IF s.open = <<>> THEN "done" ELSE "next"
               \/ /\ token.t \in Opening /\ ~ TooDeep(Len(s.open))
                  /\ r.open = Append(s.open, token.t) /\ r.want = "first"

\* A name is read, or there is none.
Names(s, token, r, level) ==
  \/ r.want = "error" /\ (s.heap.fails # 0 \/ token.t # "string")
  \/ /\ token.t = "string" /\ r.want = "colon" /\ r.items = s.items /\ r.open = s.open
     /\ r.item \in Items /\ r.item.level = level /\ r.item.string.at # 0 /\ StringToken(r.item.string) = token

\* An element is begun.
Elements(s, token, r) ==
  \/ r.want = "error" /\ s.heap.fails # 0
  \/ Last(s.open) = "object" /\ Names(s, token, r, Len(s.open))
  \/ Last(s.open) = "array" /\ Accepts(s, token, r, NoText, Len(s.open))

\* The next in a list.
MayContinue(s, token, r) ==
  \/ /\ token.t = Closing[Last(s.open)] /\ r.items = Append(s.items, Mark(token.t, Len(s.open) - 1))
     /\ r.open = Front(s.open) /\ r.want = IF Front(s.open) = <<>> THEN "done" ELSE "next"
  \/ token.t = "comma" /\ s.want = "next" /\ r.want = "element" /\ r.items = s.items /\ r.open = s.open
  \/ token.t # Closing[Last(s.open)] /\ s.want = "first" /\ Elements(s, token, r)
  \/ token.t # Closing[Last(s.open)] /\ token.t # "comma" /\ s.want = "next" /\ r.want = "error"

Colon(s, token, r) ==
  \/ token.t = "colon" /\ r.want = "value" /\ r.items = s.items /\ r.open = s.open /\ r.item = s.item
  \/ token.t # "colon" /\ r.want = "error"

Reads(s, token, r) ==
  CASE s.want = "value" -> Accepts(s, token, r, s.item.string, s.item.level)
    [] s.want = "colon" -> Colon(s, token, r)
    [] s.want = "element" -> Elements(s, token, r)
    [] s.want \in {"first", "next"} -> MayContinue(s, token, r)

LEMMA FailedWant == ASSUME NEW s \in States PROVE Failed(s).want = "error"
<1>1. Failed(s) = [s EXCEPT !.want = "error", !.heap = cJSON_Delete(s.heap, Append(s.items, s.item)),
            !.items = <<>>, !.item = Item(0, 0), !.open = <<>>]
  BY DEF Failed
<1> QED BY <1>1 DEF States

LEMMA FailedHeap == ASSUME NEW s \in States, NEW h PROVE Failed([s EXCEPT !.heap = h]).want = "error"
<1> DEFINE q == [s EXCEPT !.heap = h]
<1>1. Failed(q) = [q EXCEPT !.want = "error", !.heap = cJSON_Delete(q.heap, Append(q.items, q.item)),
            !.items = <<>>, !.item = Item(0, 0), !.open = <<>>]
  BY DEF Failed
<1>2. DOMAIN s = {"want", "heap", "items", "item", "open"}
  BY DEF States
<1>3. DOMAIN q = DOMAIN s
  OBVIOUS
<1> HIDE DEF q
<1>4. "want" \in DOMAIN q
  BY <1>2, <1>3
<1> QED BY <1>1, <1>4 DEF q

LEMMA ReturnedIs ==
  ASSUME NEW s \in States, NEW item \in Items, NEW open \in Seq(Opening), NEW r, r = Returned(s, item, open)
  PROVE  r.want = (IF open = <<>> THEN "done" ELSE "next") /\ r.items = Append(s.items, item) /\ r.open = open
BY DEF Returned, States

LEMMA GotAlways ==
  ASSUME NEW heap, Sane(heap), heap.fails = 0
  PROVE  Granted(allocate(heap)) /\ allocate(heap).fails = 0 /\ Sane(allocate(heap))
BY Allocated DEF Granted

LEMMA ThreeFields ==
  ASSUME NEW T, NEW S, NEW N, NEW x \in [t : T, s : S, n : N]
  PROVE  x.t \in T /\ x.s \in S /\ x.n \in N /\ x = [t |-> x.t, s |-> x.s, n |-> x.n]
OBVIOUS

\* Tokens that say only what kind they are, and numbers.
LEMMA TokenForms ==
  ASSUME NEW token \in Tokens
  PROVE  /\ token.t = "number" => token = Num(token.n[1]) /\ token.n \in [1 .. 1 -> Int]
         /\ token.t \notin {"string", "number"} => token = Punct(token.t)
         /\ token.t = "string" => token = [t |-> "string", s |-> token.s, n |-> token.n]
<1>1. CASE token \in [t : {"string"}, s : Words, n : Seq(Int)]
  <2>1. token.t \in {"string"} /\ token = [t |-> token.t, s |-> token.s, n |-> token.n]
    BY <1>1, ThreeFields
  <2>2. token.t = "string" /\ token.t # "number"
    BY <2>1
  <2>3. token = [t |-> "string", s |-> token.s, n |-> token.n]
    BY <2>1, <2>2
  <2> QED BY <2>2, <2>3
<1>2. CASE token \in [t : {"number"}, s : {""}, n : [1 .. 1 -> Int]]
  <2>1. token.t \in {"number"} /\ token.s \in {""} /\ token.n \in [1 .. 1 -> Int] /\ token = [t |-> token.t, s |-> token.s, n |-> token.n]
    BY <1>2, ThreeFields
  <2>2. token.n = <<token.n[1]>>
    <3> DEFINE v == token.n
    <3>1. v \in [1 .. 1 -> Int]
      BY <2>1
    <3> HIDE DEF v
    <3>2. v = [k \in 1 .. 1 |-> v[k]]
      BY <3>1
    <3>3. <<v[1]>> = [k \in 1 .. 1 |-> v[1]]
      OBVIOUS
    <3>4. \A k \in 1 .. 1 : v[k] = v[1]
      OBVIOUS
    <3>5. v = <<v[1]>>
      BY <3>2, <3>3, <3>4
    <3> QED BY <3>5 DEF v
  <2>3. token.t = "number" /\ token.s = ""
    BY <2>1
  <2>4. token = [t |-> "number", s |-> "", n |-> <<token.n[1]>>]
    BY <2>1, <2>2, <2>3
  <2> QED BY <2>1, <2>3, <2>4 DEF Num
<1>3. CASE token \in {Punct(c) : c \in Kind \ {"string", "number"}}
  <2>1. PICK c \in Kind \ {"string", "number"} : token = Punct(c)
    BY <1>3
  <2>2. token.t = c
    BY <2>1 DEF Punct
  <2> QED BY <2>1, <2>2
<1> QED BY <1>1, <1>2, <1>3 DEF Tokens

\* Strings, as names and as values.
LEMMA StringForm ==
  ASSUME NEW s, Owning(s), s.want \in {"name", "value"}, NEW token \in Tokens, s.item.valuestring = NoText,
         NEW r, r = parse_string(s, token, allocate(s.heap))
  PROVE  /\ s.want = "name" => Names(s, token, r, s.item.level)
         /\ s.want = "value" /\ token.t \in Strings => Accepts(s, token, r, s.item.string, s.item.level)
<1> DEFINE h == allocate(s.heap)
           string == [at |-> h.made, s |-> token.s, n |-> token.n]
<1>1. s \in States /\ s.item \in Items /\ Sane(s.heap) /\ s.items \in Seq(Items) /\ s.open \in Seq(Opening)
  BY DEF Owning, States
<1>2. /\ Sane(h) /\ h.made \in Nat \ {0} /\ (~ Granted(h) => s.heap.fails # 0)
  BY <1>1, Allocated, GotAlways
<1>3. string \in TextBlocks /\ string.at = h.made /\ (token.t = "string" => StringToken(string) = token)
  <2>1. string \in TextBlocks /\ string.at = h.made /\ string.s = token.s /\ string.n = token.n
    BY <1>2, NewText
  <2>2. token.t = "string" => token = [t |-> "string", s |-> token.s, n |-> token.n]
    BY TokenForms
  <2> QED BY <2>1, <2>2 DEF StringToken
<1>4. r = CASE token.t \notin Strings -> Failed(s)
       [] token.t \in Strings /\ ~ Granted(h) -> Failed([s EXCEPT !.heap = h])
       [] token.t = "badstring" /\ Granted(h) -> Failed([s EXCEPT !.heap = deallocate(h, {h.made})])
       [] token.t = "string" /\ Granted(h) /\ s.want = "name" ->
            [s EXCEPT !.want = "colon", !.heap = h, !.item.string = string]
       [] token.t = "string" /\ Granted(h) /\ s.want = "value" ->
            Returned([s EXCEPT !.heap = h], [s.item EXCEPT !.type = "string", !.valuestring = string], s.open)
  BY DEF parse_string
<1>5. "string" \in Strings /\ "badstring" \in Strings /\ \A x \in Strings : x = "string" \/ x = "badstring"
  BY DEF Strings
<1>6. "badstring" \notin Begins
  BY DEF Begins, Scalar, Opening
<1> HIDE DEF h, string
<1>7. CASE token.t \notin Strings
  <2>1. r.want = "error"
    BY <1>1, <1>4, <1>5, <1>7, FailedWant
  <2> QED BY <1>5, <1>7, <2>1 DEF Names
<1>8. CASE token.t \in Strings /\ ~ Granted(h)
  <2>1. r.want = "error"
    BY <1>1, <1>4, <1>5, <1>8, FailedHeap
  <2> QED BY <1>2, <1>8, <2>1 DEF Names, Accepts
<1>9. CASE token.t = "badstring" /\ Granted(h)
  <2>1. r.want = "error"
    BY <1>1, <1>4, <1>5, <1>9, FailedHeap
  <2> QED BY <1>6, <1>9, <2>1 DEF Names, Accepts
<1>10. CASE token.t = "string" /\ Granted(h) /\ s.want = "name"
  <2> DEFINE i == [s.item EXCEPT !.string = string]
  <2>1. r = [s EXCEPT !.want = "colon", !.heap = h, !.item = i]
    BY <1>1, <1>4, <1>5, <1>10 DEF States
  <2>a. i = [s.item EXCEPT !.string = string]
    OBVIOUS
  <2> HIDE DEF i
  <2>2. i \in Items /\ i.string = string /\ i.level = s.item.level
    BY <1>1, <1>3, <2>a, ItemNamed
  <2>3. r.want = "colon" /\ r.item = i /\ r.items = s.items /\ r.open = s.open
    BY <1>1, <2>1 DEF States
  <2> QED BY <1>2, <1>3, <1>10, <2>2, <2>3 DEF Names
<1>11. CASE token.t = "string" /\ Granted(h) /\ s.want = "value"
  <2> DEFINE i == [s.item EXCEPT !.type = "string", !.valuestring = string]
             q == [s EXCEPT !.heap = h]
  <2>1. r = Returned(q, i, s.open)
    BY <1>4, <1>5, <1>11
  <2>2. "string" \in Kind
    BY DEF Kind
  <2>a. i = [s.item EXCEPT !.type = "string", !.valuestring = string]
    OBVIOUS
  <2> HIDE DEF i
  <2>3. i \in Items /\ i.string = s.item.string /\ i.level = s.item.level /\ i.type = "string" /\ i.valuestring = string
    <3> DEFINE old == s.item
    <3>1. old \in Items /\ i = [old EXCEPT !.type = "string", !.valuestring = string] /\ old = s.item
      BY <1>1, <2>a
    <3> HIDE DEF old
    <3> QED BY <3>1, <1>3, <2>2 DEF Items
  <2>4. q \in States /\ q.items = s.items /\ q.open = s.open
    BY <1>1, <1>2, WithHeap DEF Sane
  <2> HIDE DEF q
  <2>5. r.want = (IF s.open = <<>> THEN "done" ELSE "next") /\ r.items = Append(s.items, i) /\ r.open = s.open
    BY <1>1, <2>1, <2>3, <2>4, ReturnedIs
  <2>6. TokenOf(i) = token
    BY <1>3, <1>11, <2>3 DEF TokenOf
  <2>7. Means(i, token, s.item.string, s.item.level)
    BY <1>11, <2>3, <2>6 DEF Means
  <2> QED BY <1>11, <2>5, <2>7 DEF Accepts
<1> QED BY <1>5, <1>7, <1>8, <1>9, <1>10, <1>11

LEMMA ValueForm ==
  ASSUME NEW s, Owning(s), s.want = "value", NEW token \in Tokens, s.item.valuestring = NoText,
         NEW r, r = parse_value(s, token)
  PROVE  Accepts(s, token, r, s.item.string, s.item.level)
<1> DEFINE v == [s.item EXCEPT !.type = token.t, !.valuedouble = token.n]
<1>1. s \in States /\ s.item \in Items /\ Sane(s.heap) /\ s.items \in Seq(Items) /\ s.open \in Seq(Opening)
  BY DEF Owning, States
<1>2. token.t \in Kind /\ token.n \in Seq(Int)
  BY TokenTyped
<1>3. r = CASE token.t \in Scalar -> Returned(s, v, s.open)
            [] token.t \in Strings -> parse_string(s, token, allocate(s.heap))
            [] Opens(token.t) -> ListBegins(s, token.t)
            [] OTHER -> Failed(s)
  BY DEF parse_value
<1>4. /\ token.t \in Scalar => token.t \notin Strings /\ ~ Opens(token.t) /\ token.t # "string"
      /\ token.t \in Strings => ~ Opens(token.t)
      /\ Opens(token.t) <=> token.t \in Opening
      /\ token.t \in Opening => token.t \notin {"string", "number"}
      /\ token.t = "string" => token.t \in Strings
  BY DEF Scalar, Strings, Opens, Closing, Opening
<1>5. CASE token.t \in Scalar
  <2>1. r = Returned(s, v, s.open)
    BY <1>3, <1>4, <1>5
  <2>2. v \in Items /\ v.string = s.item.string /\ v.level = s.item.level /\ v.valuestring = NoText
        /\ v.type = token.t /\ v.valuedouble = token.n
    <3> DEFINE i == s.item
    <3>1. i \in Items /\ v = [i EXCEPT !.type = token.t, !.valuedouble = token.n] /\ i = s.item
      BY <1>1
    <3> HIDE DEF i, v
    <3> QED BY <1>2, <3>1 DEF Items
  <2> HIDE DEF v
  <2>3. r.want = (IF s.open = <<>> THEN "done" ELSE "next") /\ r.items = Append(s.items, v) /\ r.open = s.open
    BY <1>1, <2>1, <2>2, ReturnedIs
  <2>4. TokenOf(v) = token
    BY <1>4, <1>5, <2>2, TokenForms DEF TokenOf
  <2>5. Means(v, token, s.item.string, s.item.level)
    BY <2>2, <2>4 DEF Means
  <2> QED BY <1>5, <2>3, <2>5 DEF Accepts
<1>6. CASE token.t \in Strings
  <2>1. r = parse_string(s, token, allocate(s.heap))
    BY <1>3, <1>4, <1>6
  <2> QED BY <1>6, <2>1, StringForm
<1>7. CASE Opens(token.t)
  <2>1. r = ListBegins(s, token.t)
    BY <1>3, <1>4, <1>7
  <2>2. CASE TooDeep(Len(s.open))
    <3>1. r = Failed(s)
      BY <2>1, <2>2 DEF ListBegins
    <3>2. r.want = "error"
      BY <1>1, <3>1, FailedWant
    <3> QED BY <1>4, <1>7, <2>2, <3>2 DEF Accepts
  <2>3. CASE ~ TooDeep(Len(s.open))
    <3> DEFINE i == [s.item EXCEPT !.type = token.t]
    <3>1. r = [s EXCEPT !.want = "first", !.items = Append(s.items, i), !.item = Item(0, 0),
                        !.open = Append(s.open, token.t)]
      BY <2>1, <2>3 DEF ListBegins
    <3>2. i \in Items /\ i.string = s.item.string /\ i.level = s.item.level /\ i.type = token.t
          /\ i.valuestring = s.item.valuestring
      BY <1>1, <1>2, ItemType
    <3> HIDE DEF i
    <3>7. r.want = "first" /\ r.items = Append(s.items, i) /\ r.open = Append(s.open, token.t)
      BY <1>1, <3>1 DEF States
    <3>8. TokenOf(i) = token
      BY <1>4, <1>7, <3>2, TokenForms DEF TokenOf
    <3>9. Means(i, token, s.item.string, s.item.level)
      BY <1>4, <1>7, <3>2, <3>8 DEF Means
    <3> QED BY <1>4, <1>7, <2>3, <3>7, <3>9 DEF Accepts
  <2> QED BY <2>2, <2>3
<1>8. CASE token.t \notin Scalar /\ token.t \notin Strings /\ ~ Opens(token.t)
  <2>1. r = Failed(s)
    BY <1>3, <1>8
  <2>2. r.want = "error" /\ token.t \notin Begins
    BY <1>1, <1>4, <1>8, <2>1, FailedWant DEF Begins
  <2> QED BY <2>2 DEF Accepts
<1> QED BY <1>5, <1>6, <1>7, <1>8

LEMMA ElementForm ==
  ASSUME NEW s, Between(s), Own(s.item) = {}, s.open # <<>>, NEW token \in Tokens,
         NEW r, r = Element(s, token, allocate(s.heap))
  PROVE  Elements(s, token, r)
<1> DEFINE h == allocate(s.heap)
           new == [s EXCEPT !.heap = h, !.item = Item(h.made, Len(s.open))]
<1>1. /\ s \in States /\ Sane(s.heap) /\ Owning(s) /\ s.open \in Seq(Opening)
  BY DEF Between, Owning, States
<1>2. /\ Sane(h) /\ h.fails = s.heap.fails /\ (~ Granted(h) => s.heap.fails # 0) /\ h.made \in Nat \ {0}
  BY <1>1, Allocated, GotAlways
<1>3. r = CASE ~ Granted(h) -> Failed([s EXCEPT !.heap = h])
            [] Granted(h) /\ Last(s.open) = "object" -> parse_string([new EXCEPT !.want = "name"], token, allocate(h))
            [] Granted(h) /\ Last(s.open) = "array" -> parse_value([new EXCEPT !.want = "value"], token)
  BY DEF Element
<1>4. Last(s.open) \in {"array", "object"} /\ Len(s.open) \in Nat
  BY <1>1, LastOpen DEF Opening
<1>5. h = allocate(s.heap)
  OBVIOUS
<1>6. Item(h.made, Len(s.open)).level = Len(s.open)
  BY DEF Item
<1> HIDE DEF h
<1>7. CASE ~ Granted(h)
  <2>1. r.want = "error"
    BY <1>1, <1>3, <1>7, FailedHeap
  <2> QED BY <1>2, <1>7, <2>1 DEF Elements
<1>8. CASE Granted(h) /\ Last(s.open) = "object"
  <2> DEFINE n == [new EXCEPT !.want = "name"]
  <2>1. r = parse_string(n, token, allocate(h))
    BY <1>3, <1>8
  <2>a. n = [[s EXCEPT !.heap = h, !.item = Item(h.made, Len(s.open))] EXCEPT !.want = "name"]
    OBVIOUS
  <2> HIDE DEF n
  <2>b. Starts(n, s, h, "name")
    BY <1>5, <1>8, <2>a, NewElement
  <2>2. /\ Owning(n) /\ n.want = "name" /\ n.heap = h /\ n.item.string = NoText /\ n.item.valuestring = NoText
        /\ n.items = s.items /\ n.open = s.open /\ n.item.level = Len(s.open)
    BY <1>6, <2>b DEF Starts
  <2> HIDE DEF n
  <2>3. Names(n, token, r, n.item.level)
    BY <2>1, <2>2, StringForm
  <2>4. Names(s, token, r, Len(s.open))
    BY <1>2, <2>2, <2>3 DEF Names
  <2> QED BY <1>8, <2>4 DEF Elements
<1>9. CASE Granted(h) /\ Last(s.open) = "array"
  <2> DEFINE n == [new EXCEPT !.want = "value"]
  <2>1. r = parse_value(n, token)
    BY <1>3, <1>9
  <2>a. n = [[s EXCEPT !.heap = h, !.item = Item(h.made, Len(s.open))] EXCEPT !.want = "value"]
    OBVIOUS
  <2> HIDE DEF n
  <2>b. Starts(n, s, h, "value")
    BY <1>5, <1>9, <2>a, NewElement
  <2>2. /\ Owning(n) /\ n.want = "value" /\ n.heap = h /\ n.item.string = NoText /\ n.item.valuestring = NoText
        /\ n.items = s.items /\ n.open = s.open /\ n.item.level = Len(s.open)
    BY <1>6, <2>b DEF Starts
  <2> HIDE DEF n
  <2>3. Accepts(n, token, r, n.item.string, n.item.level)
    BY <2>1, <2>2, ValueForm
  <2>4. Accepts(s, token, r, NoText, Len(s.open))
    BY <1>2, <2>2, <2>3 DEF Accepts
  <2> QED BY <1>9, <2>4 DEF Elements
<1> QED BY <1>4, <1>7, <1>8, <1>9

LEMMA ListForm ==
  ASSUME NEW s, Between(s), s.want \in {"first", "next"}, NEW token \in Tokens,
         NEW r, r = ListGoesOn(s, token)
  PROVE  MayContinue(s, token, r)
<1> DEFINE m == Mark(token.t, Len(s.open) - 1)
<1>1. /\ s \in States /\ s.items \in Seq(Items) /\ s.open \in Seq(Opening) /\ s.open # <<>> /\ Own(s.item) = {}
  BY DEF Between, Owning, States
<1>2. token.t \in Kind
  BY TokenTyped
<1>3. r = CASE token.t = Closing[Last(s.open)] -> Returned(s, m, Front(s.open))
            [] token.t = "comma" /\ s.want = "next" -> [s EXCEPT !.want = "element"]
            [] token.t # Closing[Last(s.open)] /\ s.want = "first" -> Element(s, token, allocate(s.heap))
            [] OTHER -> Failed(s)
  BY DEF ListGoesOn
<1>4. Last(s.open) \in {"array", "object"} /\ Closing[Last(s.open)] # "comma"
  BY <1>1, LastOpen DEF Opening
<1>5. CASE token.t = Closing[Last(s.open)]
  <2>1. r = Returned(s, m, Front(s.open))
    BY <1>3, <1>4, <1>5
  <2>2. Len(s.open) - 1 \in Nat /\ Front(s.open) \in Seq(Opening)
    BY <1>1 DEF Front
  <2>3. m \in Items
    BY <1>2, <2>2, MarkTyped
  <2>4. m = Mark(token.t, Len(s.open) - 1)
    OBVIOUS
  <2> HIDE DEF m
  <2>5. r.want = (IF Front(s.open) = <<>> THEN "done" ELSE "next") /\ r.items = Append(s.items, m) /\ r.open = Front(s.open)
    BY <1>1, <2>1, <2>2, <2>3, ReturnedIs
  <2> QED BY <1>5, <2>4, <2>5 DEF MayContinue
<1>6. CASE token.t = "comma" /\ s.want = "next"
  <2>1. r = [s EXCEPT !.want = "element"]
    BY <1>3, <1>4, <1>6
  <2>2. r.want = "element" /\ r.items = s.items /\ r.open = s.open
    BY <1>1, <2>1 DEF States
  <2> QED BY <1>6, <2>2 DEF MayContinue
<1>7. CASE token.t # Closing[Last(s.open)] /\ s.want = "first"
  <2>1. r = Element(s, token, allocate(s.heap))
    BY <1>3, <1>7
  <2>2. Elements(s, token, r)
    BY <1>1, <2>1, ElementForm
  <2> QED BY <1>7, <2>2 DEF MayContinue
<1>8. CASE token.t # Closing[Last(s.open)] /\ s.want # "first" /\ ~ (token.t = "comma" /\ s.want = "next")
  <2>1. r = Failed(s)
    BY <1>3, <1>8
  <2>2. r.want = "error" /\ s.want = "next" /\ token.t # "comma"
    BY <1>1, <1>8, <2>1, FailedWant
  <2> QED BY <1>8, <2>2 DEF MayContinue
<1> QED BY <1>5, <1>6, <1>7, <1>8

\* What a token makes of the parser.
LEMMA ReadForm ==
  ASSUME NEW s, Between(s), s.want \notin {"done", "error"}, NEW token \in Tokens, token # Blank,
         NEW r, r = Read(s, token)
  PROVE  Reads(s, token, r)
<1>1. /\ s \in States /\ Owning(s) /\ s.want \in Wants /\ s.want # "name" /\ (s.want = "value" => s.item.valuestring = NoText)
      /\ (s.want = "element" => s.open # <<>> /\ Own(s.item) = {})
  BY DEF Between, Owning, States
<1>2. r = CASE s.want \in {"done", "error"} \/ token = Blank -> s
            [] s.want = "value" /\ token # Blank -> parse_value(s, token)
            [] s.want = "colon" /\ token # Blank -> IF token.t = "colon" THEN [s EXCEPT !.want = "value"] ELSE Failed(s)
            [] s.want = "element" /\ token # Blank -> Element(s, token, allocate(s.heap))
            [] s.want \in {"first", "next"} /\ token # Blank -> ListGoesOn(s, token)
  BY DEF Read
<1>4. CASE s.want = "value"
  <2>1. r = parse_value(s, token)
    BY <1>2, <1>4
  <2>2. Accepts(s, token, r, s.item.string, s.item.level)
    BY <1>1, <1>4, <2>1, ValueForm
  <2> QED BY <1>4, <2>2 DEF Reads
<1>5. CASE s.want = "colon"
  <2>1. r = IF token.t = "colon" THEN [s EXCEPT !.want = "value"] ELSE Failed(s)
    BY <1>2, <1>5
  <2>2. CASE token.t = "colon"
    <3>1. r.want = "value" /\ r.items = s.items /\ r.item = s.item /\ r.open = s.open
      BY <1>1, <2>1, <2>2 DEF States
    <3> QED BY <1>5, <2>2, <3>1 DEF Reads, Colon
  <2>3. CASE token.t # "colon"
    <3>1. r.want = "error"
      BY <1>1, <2>1, <2>3, FailedWant
    <3> QED BY <1>5, <2>3, <3>1 DEF Reads, Colon
  <2> QED BY <2>2, <2>3
<1>6. CASE s.want = "element"
  <2>1. r = Element(s, token, allocate(s.heap))
    BY <1>2, <1>6
  <2>2. Elements(s, token, r)
    BY <1>1, <1>6, <2>1, ElementForm
  <2> QED BY <1>6, <2>2 DEF Reads
<1>7. CASE s.want \in {"first", "next"}
  <2>1. r = ListGoesOn(s, token)
    BY <1>2, <1>7
  <2>2. MayContinue(s, token, r)
    BY <1>7, <2>1, ListForm
  <2> QED BY <1>7, <2>2 DEF Reads
<1> QED BY <1>1, <1>4, <1>5, <1>6, <1>7 DEF Wants

-----------------------------------------------------------------------------
(* The items say what has been read.                                       *)

\* Items that stand for what is read.
ReadItems ==
  {i \in Items : /\ TokenOf(i) \in Tokens /\ (i.type # "string" => i.valuestring = NoText)
                 /\ (i.type = "number" => i.valuedouble \in [1 .. 1 -> Int])}

\* What comes next is the first in its list.
Behind(items) == items = <<>> \/ Opens(items[Len(items)].type)

\* What has been read of an element that is no item yet.
Partial(s) ==
  CASE s.want = "value" -> CommaUnless(Behind(s.items)) \o NameSaid(s.item.string)
    [] s.want = "colon" -> CommaUnless(Behind(s.items)) \o <<StringToken(s.item.string)>>
    [] s.want = "element" -> <<Punct("comma")>>
    [] s.want \in {"first", "next", "done"} -> <<>>

Tells(s, bare) ==
  /\ s.items \in Seq(ReadItems) /\ bare \in Seq(Tokens) /\ bare = Spell(s.items) \o Partial(s)
  /\ s.want = "first" => Behind(s.items)
  /\ s.want \in {"next", "element", "done"} => ~ Behind(s.items)
  /\ s.want = "colon" => s.item.string.at # 0

LEMMA BehindTyped == ASSUME NEW items PROVE Behind(items) \in BOOLEAN
BY DEF Behind, Opens

LEMMA ReadTellTyped ==
  ASSUME NEW i \in ReadItems, NEW first \in BOOLEAN
  PROVE  Tell(i, first) \in Seq(Tokens)
<1>1. i.string \in TextBlocks /\ TokenOf(i) \in Tokens
  BY DEF Items, ReadItems
<1>3. CommaUnless(first) \in Seq(Tokens) /\ NameSaid(i.string) \in Seq(Tokens) /\ <<TokenOf(i)>> \in Seq(Tokens)
  BY <1>1, CommaTyped, NameTyped
<1> DEFINE x == CommaUnless(first)
           y == NameSaid(i.string)
           z == <<TokenOf(i)>>
<1>4. x \in Seq(Tokens) /\ y \in Seq(Tokens) /\ z \in Seq(Tokens)
  BY <1>3
<1> HIDE DEF x, y, z
<1>5. x \o y \in Seq(Tokens)
  BY <1>4, ConcatProperties
<1>6. x \o y \o z \in Seq(Tokens)
  BY <1>4, <1>5, ConcatProperties
<1> QED BY <1>6 DEF Tell, x, y, z

LEMMA ReadSayings ==
  ASSUME NEW items \in Seq(ReadItems)
  PROVE  /\ Sayings(items) \in Seq(Seq(Tokens)) /\ Len(Sayings(items)) = Len(items)
         /\ \A k \in 1 .. Len(items) : Sayings(items)[k] = Say(items, k)
         /\ Spell(items) = Concat(Sayings(items)) /\ Spell(items) \in Seq(Tokens)
<1>1. ASSUME NEW k \in 1 .. Len(items) PROVE Say(items, k) \in Seq(Tokens)
  <2>1. First(items, k) \in BOOLEAN
    BY DEF First, Closes, Opens
  <2>2. items[k] \in ReadItems
    OBVIOUS
  <2> QED BY <2>1, <2>2, ReadTellTyped, SayTells
<1>2. Len(items) \in Nat
  OBVIOUS
<1>3. Sayings(items) \in Seq(Seq(Tokens)) /\ Len(Sayings(items)) = Len(items)
  BY <1>1, <1>2 DEF Sayings
<1>4. \A k \in 1 .. Len(items) : Sayings(items)[k] = Say(items, k)
  BY DEF Sayings
<1>5. Spell(items) = Concat(Sayings(items))
  BY DEF Spell, Sayings
<1> QED BY <1>3, <1>4, <1>5, ConcatTyped

\* One more item.
LEMMA SpellMore ==
  ASSUME NEW items \in Seq(ReadItems), NEW i \in ReadItems
  PROVE  /\ Append(items, i) \in Seq(ReadItems) /\ Behind(Append(items, i)) = Opens(i.type)
         /\ Spell(Append(items, i)) = Spell(items) \o Tell(i, Closes(i.type) \/ Behind(items))
         /\ Tell(i, Closes(i.type) \/ Behind(items)) \in Seq(Tokens)
<1> DEFINE l == Len(items)
           A == Append(items, i)
           x == Sayings(A)
           y == Sayings(items)
           t == Tell(i, Closes(i.type) \/ Behind(items))
           z == Append(y, t)
<1>1. l \in Nat /\ A \in Seq(ReadItems) /\ Len(A) = l + 1 /\ A[l + 1] = i /\ \A k \in 1 .. l : A[k] = items[k]
  BY AppendProperties
<1>2. Behind(A) = Opens(i.type)
  <2>1. A # <<>> /\ Len(A) = l + 1 /\ A[l + 1] = i
    BY <1>1
  <2> HIDE DEF A
  <2>2. A[Len(A)] = i
    BY <2>1
  <2>3. Opens(A[Len(A)].type) = Opens(i.type)
    BY <2>2
  <2> QED BY <2>1, <2>3 DEF Behind, Opens
<1>3. t \in Seq(Tokens)
  <2>1. (Closes(i.type) \/ Behind(items)) \in BOOLEAN
    BY DEF Closes, Behind, Opens
  <2> QED BY <2>1, ReadTellTyped
<1> HIDE DEF A
<1>4. /\ x \in Seq(Seq(Tokens)) /\ Len(x) = l + 1 /\ \A k \in 1 .. l + 1 : x[k] = Say(A, k)
      /\ Spell(A) = Concat(x)
  BY <1>1, ReadSayings
<1>5. /\ y \in Seq(Seq(Tokens)) /\ Len(y) = l /\ \A k \in 1 .. l : y[k] = Say(items, k)
      /\ Spell(items) = Concat(y)
  BY ReadSayings
<1>6. ASSUME NEW k \in 1 .. l PROVE Say(A, k) = Say(items, k)
  <2>1. A[k] = items[k]
    BY <1>1
  <2>2. First(A, k) = First(items, k)
    <3>1. CASE k = 1
      BY <2>1, <3>1 DEF First
    <3>2. CASE k # 1
      <4>1. k - 1 \in 1 .. l
        BY <1>1, <3>2
      <4>2. A[k - 1] = items[k - 1]
        BY <1>1, <4>1
      <4> QED BY <2>1, <4>2 DEF First
    <3> QED BY <3>1, <3>2
  <2> QED BY <2>1, <2>2, SayTells
<1>7. Say(A, l + 1) = t
  <2>1. First(A, l + 1) = (Closes(i.type) \/ Behind(items))
    <3>1. CASE l = 0
      <4>1. items = <<>>
        BY <3>1
      <4>2. l + 1 = 1
        BY <3>1
      <4> QED BY <4>1, <4>2 DEF First, Behind
    <3>2. CASE l # 0
      <4>1. l + 1 # 1 /\ l + 1 - 1 = l /\ l \in 1 .. l /\ items # <<>>
        BY <1>1, <3>2
      <4>2. A[l] = items[l] /\ A[l + 1] = i
        BY <1>1, <4>1
      <4> QED BY <4>1, <4>2 DEF First, Behind
    <3> QED BY <3>1, <3>2
  <2> QED BY <1>1, <2>1, SayTells
<1> HIDE DEF l, x, y, t
<1>8. x = z
  <2>1. z \in Seq(Seq(Tokens)) /\ Len(z) = l + 1 /\ z[l + 1] = t /\ \A k \in 1 .. l : z[k] = y[k]
    BY <1>1, <1>3, <1>5, AppendProperties
  <2> HIDE DEF z
  <2>2. ASSUME NEW k \in 1 .. Len(x) PROVE x[k] = z[k]
    <3>1. k \in 1 .. l + 1
      BY <1>4
    <3>2. CASE k = l + 1
      BY <1>4, <1>7, <2>1, <3>1, <3>2
    <3>3. CASE k # l + 1
      <4>1. k \in 1 .. l
        BY <1>1, <3>1, <3>3
      <4> QED BY <1>4, <1>5, <1>6, <2>1, <3>1, <4>1
    <3> QED BY <3>2, <3>3
  <2> QED BY <1>4, <2>1, <2>2, SeqEqual
<1>9. Concat(z) = Concat(y) \o t
  BY <1>3, <1>5, ConcatMore
<1> QED BY <1>1, <1>2, <1>3, <1>4, <1>5, <1>8, <1>9 DEF A, t

LEMMA TellBehind ==
  ASSUME NEW i \in ReadItems, NEW first \in BOOLEAN
  PROVE  Tell(i, first) = (CommaUnless(first) \o NameSaid(i.string)) \o <<TokenOf(i)>>
BY DEF Tell

LEMMA ThreeJoin ==
  ASSUME NEW S, NEW x \in Seq(S), NEW y \in Seq(S), NEW z \in Seq(S)
  PROVE  (x \o y) \o z = x \o (y \o z) /\ x \o y \in Seq(S) /\ y \o z \in Seq(S) /\ (x \o y) \o z \in Seq(S)
<1>1. x \o y \in Seq(S) /\ y \o z \in Seq(S)
  BY ConcatProperties
<1>2. (x \o y) \o z \in Seq(S)
  BY <1>1, ConcatProperties
<1>3. (x \o y) \o z = x \o (y \o z)
  BY ConcatAssociative
<1> QED BY <1>1, <1>2, <1>3

LEMMA AcceptsTells ==
  ASSUME NEW s, s.items \in Seq(ReadItems), NEW token \in Tokens, NEW string \in TextBlocks, NEW level,
         NEW bare, bare = Spell(s.items) \o (CommaUnless(Behind(s.items)) \o NameSaid(string)),
         NEW r, Accepts(s, token, r, string, level), r.want # "error"
  PROVE  Tells(r, bare \o <<token>>)
<1> DEFINE items == s.items
           b == Behind(items)
           head == CommaUnless(b) \o NameSaid(string)
           x == Spell(items)
           y == <<token>>
<1>1. PICK i : /\ Means(i, token, string, level) /\ r.items = Append(s.items, i)
               /\ \/ token.t \in Scalar \cup {"string"} /\ r.open = s.open /\ r.want = IF s.open = <<>> THEN "done" ELSE "next"
                  \/ /\ token.t \in Opening /\ ~ TooDeep(Len(s.open))
                     /\ r.open = Append(s.open, token.t) /\ r.want = "first"
  BY DEF Accepts
<1>2. i \in Items /\ i.string = string /\ i.type = token.t /\ TokenOf(i) = token
      /\ (i.type # "string" => i.valuestring = NoText) /\ (i.type = "number" => i.valuedouble = token.n)
  BY <1>1 DEF Means
<1>3. i \in ReadItems
  BY <1>2, TokenForms DEF ReadItems
<1>4. /\ ~ Closes(i.type) /\ (Opens(i.type) <=> token.t \in Opening)
      /\ (token.t \in Scalar \cup {"string"} => token.t \notin Opening)
  BY <1>1, <1>2 DEF Closes, Opens, Closing, Opening, Scalar
<1>5. b \in BOOLEAN /\ (Closes(i.type) \/ b) = b
  BY <1>4, BehindTyped DEF Closes
<1>6. /\ r.items \in Seq(ReadItems) /\ Behind(r.items) = Opens(i.type)
      /\ Spell(r.items) = x \o Tell(i, b)
  <2>1. items \in Seq(ReadItems)
    OBVIOUS
  <2>2. /\ Append(items, i) \in Seq(ReadItems) /\ Behind(Append(items, i)) = Opens(i.type)
        /\ Spell(Append(items, i)) = Spell(items) \o Tell(i, Closes(i.type) \/ Behind(items))
    BY <1>3, <2>1, SpellMore
  <2> QED BY <1>1, <1>5, <2>2
<1>7. Tell(i, b) = head \o y
  BY <1>2, <1>3, <1>5, TellBehind
<1>8. x \in Seq(Tokens) /\ head \in Seq(Tokens) /\ y \in Seq(Tokens)
  <2>1. CommaUnless(b) \in Seq(Tokens) /\ NameSaid(string) \in Seq(Tokens)
    BY <1>5, CommaTyped, NameTyped
  <2> DEFINE c == CommaUnless(b)
             d == NameSaid(string)
  <2>2. c \in Seq(Tokens) /\ d \in Seq(Tokens)
    BY <2>1
  <2> HIDE DEF c, d
  <2>3. c \o d \in Seq(Tokens)
    BY <2>2, ConcatProperties
  <2> QED BY <2>3, ReadSayings DEF c, d
<1>9. bare = x \o head
  OBVIOUS
<1> HIDE DEF x, y, head, b
<1>10. (x \o head) \o y = x \o (head \o y) /\ (x \o head) \o y \in Seq(Tokens)
  BY ONLY <1>8, ThreeJoin
<1>11. bare \o y = Spell(r.items) /\ bare \o y \in Seq(Tokens)
  BY <1>6, <1>7, <1>9, <1>10
<1>12. r.want \in {"first", "next", "done"} /\ (r.want = "first" <=> Behind(r.items))
  BY <1>1, <1>4, <1>6
<1>13. Partial(r) = <<>>
  BY <1>12 DEF Partial
<1>14. Spell(r.items) \o <<>> = Spell(r.items)
  <2>1. Spell(r.items) \in Seq(Tokens)
    BY <1>6, ReadSayings
  <2> QED BY <2>1
<1>15. y = <<token>>
  BY DEF y
<1>16. bare \o <<token>> = Spell(r.items) \o Partial(r)
  BY <1>11, <1>13, <1>14, <1>15
<1> QED BY <1>6, <1>11, <1>12, <1>15, <1>16 DEF Tells

LEMMA NamesTell ==
  ASSUME NEW s, s.items \in Seq(ReadItems), NEW token \in Tokens, NEW level,
         NEW bare, bare = Spell(s.items) \o CommaUnless(Behind(s.items)),
         NEW r, Names(s, token, r, level), r.want # "error"
  PROVE  Tells(r, bare \o <<token>>)
<1> DEFINE b == Behind(s.items)
           x == Spell(s.items)
           c == CommaUnless(b)
           y == <<token>>
<1>1. /\ r.want = "colon" /\ r.items = s.items
      /\ r.item.string.at # 0 /\ StringToken(r.item.string) = token
  BY DEF Names
<1>2. x \in Seq(Tokens) /\ c \in Seq(Tokens) /\ y \in Seq(Tokens)
  BY BehindTyped, CommaTyped, ReadSayings
<1>3. Partial(r) = c \o y
  BY <1>1 DEF Partial
<1>4. bare = x \o c /\ y = <<token>> /\ x = Spell(r.items)
  BY <1>1
<1> HIDE DEF x, y, c
<1>5. (x \o c) \o y = x \o (c \o y) /\ (x \o c) \o y \in Seq(Tokens)
  BY ONLY <1>2, ThreeJoin
<1>6. bare \o y = Spell(r.items) \o Partial(r) /\ bare \o y \in Seq(Tokens)
  BY <1>3, <1>4, <1>5
<1> QED BY <1>1, <1>4, <1>6 DEF Tells

LEMMA ElementsTell ==
  ASSUME NEW s, s.items \in Seq(ReadItems), NEW token \in Tokens,
         NEW bare, bare = Spell(s.items) \o CommaUnless(Behind(s.items)),
         NEW r, Elements(s, token, r), r.want # "error"
  PROVE  Tells(r, bare \o <<token>>)
<1>1. CASE Names(s, token, r, Len(s.open))
  BY <1>1, NamesTell
<1>2. CASE Accepts(s, token, r, NoText, Len(s.open))
  <2>1. NoText \in TextBlocks /\ NameSaid(NoText) = <<>>
    BY NoTextTyped DEF NameSaid
  <2> DEFINE c == CommaUnless(Behind(s.items))
  <2>2. c \in Seq(Tokens)
    BY BehindTyped, CommaTyped
  <2>3. c \o <<>> = c
    BY <2>2
  <2>4. bare = Spell(s.items) \o (CommaUnless(Behind(s.items)) \o NameSaid(NoText))
    BY <2>1, <2>3
  <2> HIDE DEF c
  <2> QED BY <1>2, <2>1, <2>4, AcceptsTells
<1> QED BY <1>1, <1>2 DEF Elements

\* Every token that is accepted is said.
LEMMA ReadTells ==
  ASSUME NEW s, Between(s), s.want \notin {"done", "error"}, NEW token \in Tokens, token # Blank,
         NEW bare, Tells(s, bare), NEW r, r = Read(s, token), r.want # "error"
  PROVE  Tells(r, bare \o <<token>>)
<1>1. Reads(s, token, r)
  BY ReadForm
<1>2. s \in States /\ s.want \in Wants /\ s.want # "name" /\ s.item.string \in TextBlocks /\ s.open \in Seq(Opening)
      /\ (s.want \in {"first", "next", "element"} => s.open # <<>>)
  BY DEF Between, Owning, States, Items
<1>3. s.items \in Seq(ReadItems) /\ bare \in Seq(Tokens) /\ bare = Spell(s.items) \o Partial(s)
  BY DEF Tells
<1>4. Spell(s.items) \in Seq(Tokens) /\ Behind(s.items) \in BOOLEAN
  BY <1>3, ReadSayings, BehindTyped
<1>5. CASE s.want = "value"
  <2>1. Accepts(s, token, r, s.item.string, s.item.level)
    BY <1>1, <1>5 DEF Reads
  <2>2. Partial(s) = CommaUnless(Behind(s.items)) \o NameSaid(s.item.string)
    BY <1>5 DEF Partial
  <2> QED BY <1>2, <1>3, <2>1, <2>2, AcceptsTells
<1>6. CASE s.want = "colon"
  <2>1. token.t = "colon" /\ r.want = "value" /\ r.items = s.items /\ r.open = s.open /\ r.item = s.item
    BY <1>1, <1>6 DEF Reads, Colon
  <2>2. token = Punct("colon")
    BY <2>1, TokenForms
  <2> DEFINE x == Spell(s.items)
             c == CommaUnless(Behind(s.items))
             d == <<StringToken(s.item.string)>>
             y == <<token>>
  <2>3. Partial(s) = c \o d /\ Partial(r) = c \o NameSaid(s.item.string)
    BY <1>6, <2>1 DEF Partial
  <2>4. NameSaid(s.item.string) = d \o y
    <3>1. s.item.string.at # 0 /\ StringToken(s.item.string) \in Tokens
      BY <1>2, <1>6, SaidTyped DEF Tells
    <3>2. NameSaid(s.item.string) = <<StringToken(s.item.string), token>>
      BY <2>2, <3>1 DEF NameSaid
    <3>3. <<StringToken(s.item.string)>> \o <<token>> = <<StringToken(s.item.string), token>>
      BY <3>1, TwoJoin
    <3> QED BY <3>2, <3>3
  <2>5. x \in Seq(Tokens) /\ c \in Seq(Tokens) /\ d \in Seq(Tokens) /\ y \in Seq(Tokens)
    BY <1>2, <1>4, SaidTyped, CommaTyped
  <2>6. y = <<token>> /\ x = Spell(r.items)
    BY <2>1
  <2> HIDE DEF x, c, d, y
  <2>7. (c \o d) \o y = c \o (d \o y) /\ c \o d \in Seq(Tokens)
    BY ONLY <2>5, ThreeJoin
  <2>8. (x \o (c \o d)) \o y = x \o ((c \o d) \o y) /\ (x \o (c \o d)) \o y \in Seq(Tokens)
    <3> DEFINE e == c \o d
    <3>1. e \in Seq(Tokens)
      BY <2>7
    <3> HIDE DEF e
    <3>2. (x \o e) \o y = x \o (e \o y) /\ (x \o e) \o y \in Seq(Tokens)
      BY ONLY <2>5, <3>1, ThreeJoin, SMTT(30)
    <3> QED BY <3>2 DEF e
  <2>9. bare \o y = Spell(r.items) \o Partial(r) /\ bare \o y \in Seq(Tokens)
    BY <1>3, <2>3, <2>4, <2>6, <2>7, <2>8 DEF x
  <2> QED BY <1>3, <1>6, <2>1, <2>6, <2>9 DEF Tells
<1>7. CASE s.want = "element"
  <2>1. Elements(s, token, r)
    BY <1>1, <1>7 DEF Reads
  <2>2. Partial(s) = CommaUnless(Behind(s.items))
    BY <1>7 DEF Partial, Tells, CommaUnless
  <2> QED BY <1>3, <2>1, <2>2, ElementsTell
<1>8. CASE s.want \in {"first", "next"}
  <2>0. MayContinue(s, token, r)
    BY <1>1, <1>8 DEF Reads
  <2>1. bare = Spell(s.items) /\ Partial(s) = <<>>
    <3>1. Partial(s) = <<>>
      BY <1>8 DEF Partial
    <3> QED BY <1>3, <1>4, <3>1
  <2>2. CASE token.t = Closing[Last(s.open)] /\ r.items = Append(s.items, Mark(token.t, Len(s.open) - 1)) /\ r.want \in {"next", "done"}
    <3> DEFINE m == Mark(token.t, Len(s.open) - 1)
               t == Tell(m, Closes(m.type) \/ Behind(s.items))
    <3>1. token.t \in {"endarray", "endobject"} /\ Len(s.open) - 1 \in Nat
      BY <1>2, <1>8, <2>2, LastOpen
    <3>2. m \in Items /\ m.type = token.t /\ m.string = NoText /\ m.valuestring = NoText
      <4>1. token.t \in Kind
        BY TokenTyped
      <4> QED BY <3>1, <4>1, MarkTyped DEF Mark, Item
    <3>3. TokenOf(m) = token /\ token.t \notin {"string", "number"}
      BY <3>1, <3>2, TokenForms DEF TokenOf
    <3>4. m \in ReadItems
      BY <3>2, <3>3 DEF ReadItems
    <3>5. Closes(m.type) /\ ~ Opens(m.type)
      BY <3>1, <3>2 DEF Closes, Opens, Closing
    <3>6. m = Mark(token.t, Len(s.open) - 1)
      OBVIOUS
    <3> HIDE DEF m
    <3>7. t = <<token>>
      <4>1. CommaUnless(Closes(m.type) \/ Behind(s.items)) = <<>>
        BY <3>5 DEF CommaUnless
      <4>2. NameSaid(m.string) = <<>>
        BY <3>2, NoTextTyped DEF NameSaid
      <4>3. t = <<>> \o <<>> \o <<token>>
        BY <3>3, <4>1, <4>2 DEF Tell
      <4> QED BY <4>3
    <3>8. /\ r.items \in Seq(ReadItems) /\ Behind(r.items) = Opens(m.type)
          /\ Spell(r.items) = Spell(s.items) \o t
      BY <1>3, <2>2, <3>4, <3>6, SpellMore
    <3> HIDE DEF t
    <3>9. Partial(r) = <<>>
      BY <2>2 DEF Partial
    <3>10. bare \o <<token>> = Spell(r.items) /\ Spell(r.items) \in Seq(Tokens)
      BY <2>1, <3>7, <3>8, ReadSayings
    <3>11. Spell(r.items) \o <<>> = Spell(r.items)
      BY <3>10
    <3>12. bare \o <<token>> = Spell(r.items) \o Partial(r) /\ bare \o <<token>> \in Seq(Tokens)
      BY <3>9, <3>10, <3>11
    <3>13. ~ Behind(r.items) /\ r.want # "first" /\ r.want # "colon"
      BY <2>2, <3>5, <3>8
    <3> QED BY <3>8, <3>12, <3>13 DEF Tells
  <2>3. CASE token.t = "comma" /\ s.want = "next" /\ r.want = "element" /\ r.items = s.items
    <3>1. token = Punct("comma")
      BY <2>3, TokenForms
    <3>2. Partial(r) = <<token>>
      BY <2>3, <3>1 DEF Partial
    <3>3. bare \o <<token>> \in Seq(Tokens)
      <4>1. <<token>> \in Seq(Tokens)
        OBVIOUS
      <4> QED BY <1>3, <4>1, ConcatProperties
    <3> QED BY <1>3, <2>1, <2>3, <3>2, <3>3 DEF Tells
  <2>4. CASE s.want = "first" /\ Elements(s, token, r)
    <3>1. Behind(s.items)
      BY <2>4 DEF Tells
    <3>2. CommaUnless(Behind(s.items)) = <<>>
      BY <3>1 DEF CommaUnless
    <3>3. bare = Spell(s.items) \o CommaUnless(Behind(s.items))
      BY <1>4, <2>1, <3>2
    <3> QED BY <1>3, <2>4, <3>3, ElementsTell
  <2> QED BY <2>0, <2>2, <2>3, <2>4 DEF MayContinue
<1> QED BY <1>2, <1>5, <1>6, <1>7, <1>8 DEF Wants

\* The items say what has been read; behind the end of the value nothing is looked at.
Told(s, bare) ==
  s.want # "error" =>
    \E x, y \in Seq(Tokens) : bare = x \o y /\ Tells(s, x) /\ (s.want # "done" => y = <<>>)

LEMMA ReadTold ==
  ASSUME NEW s, Between(s), NEW token \in Tokens, NEW bare, Told(s, bare), NEW r, r = Read(s, token)
  PROVE  Told(r, bare \o Bare(token))
<1>1. CASE s.want = "error"
  <2>1. r = s
    BY <1>1 DEF Read
  <2> QED BY <1>1, <2>1 DEF Told
<1>2. CASE s.want # "error"
  <2>1. PICK x \in Seq(Tokens), y \in Seq(Tokens) : bare = x \o y /\ Tells(s, x) /\ (s.want # "done" => y = <<>>)
    BY <1>2 DEF Told
  <2> DEFINE b == Bare(token)
  <2>2. b \in Seq(Tokens)
    BY BareTyped
  <2>3. CASE s.want = "done"
    <3>1. r = s
      BY <2>3 DEF Read
    <3>2. (x \o y) \o b = x \o (y \o b) /\ y \o b \in Seq(Tokens)
      <4> HIDE DEF b
      <4> QED BY ONLY <2>2, x \in Seq(Tokens), y \in Seq(Tokens), ThreeJoin
    <3> HIDE DEF b
    <3>3. bare \o b = x \o (y \o b) /\ Tells(r, x) /\ r.want = "done"
      BY <2>1, <2>3, <3>1, <3>2
    <3>4. Told(r, bare \o b)
      BY <3>2, <3>3 DEF Told
    <3> QED BY <3>4 DEF b
  <2>4. CASE s.want # "done" /\ token = Blank
    <3>1. r = s
      BY <2>4 DEF Read
    <3>2. b = <<>>
      BY <2>4 DEF Bare
    <3>3. bare = x /\ bare \o b = bare
      BY <2>1, <2>4, <3>2
    <3> QED BY <3>1, <3>3, <2>1, <2>4 DEF Told
  <2>5. CASE s.want # "done" /\ token # Blank
    <3>1. b = <<token>>
      BY <2>5 DEF Bare
    <3>2. bare = x
      BY <2>1, <2>5
    <3>3. SUFFICES ASSUME r.want # "error" PROVE Told(r, bare \o Bare(token))
      BY DEF Told
    <3>4. Tells(r, x \o <<token>>)
      BY <1>2, <2>1, <2>5, <3>3, ReadTells
    <3> DEFINE z == x \o <<token>>
    <3>5. z \in Seq(Tokens) /\ Tells(r, z) /\ bare \o Bare(token) = z
      BY <3>1, <3>2, <3>4 DEF Tells
    <3> HIDE DEF z
    <3>6. z = z \o <<>> /\ <<>> \in Seq(Tokens)
      BY <3>5
    <3> QED BY <3>5, <3>6 DEF Told
  <2> QED BY <2>3, <2>4, <2>5
<1> QED BY <1>1, <1>2

LEMMA RunTold ==
  ASSUME NEW k, NEW s, OnItsWay(s, k), Told(s, <<>>), NEW text \in Seq(Tokens)
  PROVE  Told(Run(s, text), NoBlanks(text))
<1> DEFINE n == Len(text)
           f == RunUpto(s, text)
           x(i) == SubSeq(text, 1, i)
           P == {i \in 0 .. n : Told(f[i], NoBlanks(x(i)))}
<1>1. Runs(f, s, k, text) /\ n \in Nat
  BY RunSteps
<1> HIDE DEF f, n
<1>2. 0 \in P
  <2>1. x(0) = <<>>
    OBVIOUS
  <2>2. f[0] = s
    BY <1>1 DEF Runs
  <2>3. NoBlanks(x(0)) = <<>>
    BY <2>1, NoBlanksNone
  <2>4. Told(f[0], NoBlanks(x(0))) /\ 0 \in 0 .. n
    BY <1>1, <2>2, <2>3
  <2> HIDE DEF x
  <2> QED BY <2>4
<1>3. \A i \in 1 .. n : i - 1 \in P => i \in P
  <2> SUFFICES ASSUME NEW i, i \in 1 .. n, Told(f[i - 1], NoBlanks(x(i - 1))) PROVE i \in 0 .. n /\ Told(f[i], NoBlanks(x(i)))
    BY DEF P
  <2>1. f[i] = Read(f[i - 1], text[i]) /\ Between(f[i - 1]) /\ text[i] \in Tokens /\ i - 1 \in 0 .. n /\ i \in 0 .. n
    BY <1>1 DEF Runs, OnItsWay, n
  <2> DEFINE u == x(i - 1)
             t == text[i]
  <2>2. x(i) = u \o <<t>> /\ u \in Seq(Tokens)
    <3>1. x(i) = Append(u, t) /\ u \in Seq(Tokens)
      BY <2>1 DEF n
    <3> HIDE DEF u, t, x
    <3> QED BY <3>1
  <2>3. NoBlanks(x(i)) = NoBlanks(u) \o Bare(t)
    <3>1. t \in Tokens /\ <<t>> \in Seq(Tokens)
      BY <2>1
    <3> HIDE DEF u, t, x
    <3>2. NoBlanks(u \o <<t>>) = NoBlanks(u) \o NoBlanks(<<t>>)
      BY <2>2, <3>1, NoBlanksJoin
    <3>3. NoBlanks(<<t>>) = Bare(t)
      BY <3>1, NoBlanksOne
    <3> QED BY <2>2, <3>2, <3>3
  <2>4. Told(f[i - 1], NoBlanks(u))
    OBVIOUS
  <2> HIDE DEF u, x
  <2> QED BY <2>1, <2>3, <2>4, ReadTold
<1> HIDE DEF P
<1>4. \A i \in 0 .. n : i \in P
  BY <1>1, <1>2, <1>3, Ladder
<1>5. x(n) = text
  BY DEF n
<1>6. n \in 0 .. n
  BY <1>1
<1> HIDE DEF x
<1>7. Told(f[n], NoBlanks(text))
  BY <1>4, <1>5, <1>6 DEF P
<1> QED BY <1>7 DEF Run, f, n

\* No text ends with its zero byte.
LEMMA EndFails ==
  ASSUME NEW s, Between(s), s.want \notin {"done", "error"}
  PROVE  Read(s, Punct("end")).want = "error"
<1> DEFINE token == Punct("end")
           r == Read(s, token)
<1>0. "end" \in Kind
  BY DEF Kind
<1>1. token \in Tokens /\ token # Blank /\ token.t = "end"
  BY <1>0, PunctTyped DEF Punct, Blank
<1>2. s.want \in Wants /\ s.want # "name" /\ s.open \in Seq(Opening)
      /\ (s.want \in {"first", "next", "element"} => s.open # <<>>)
  BY DEF Between, Owning, States
<1> HIDE DEF token, r
<1>3. Reads(s, token, r)
  BY <1>1, ReadForm DEF r
<1>4. "end" \notin Begins /\ "end" \notin Scalar \cup {"string"} /\ "end" \notin Opening /\ "end" # "string" /\ "end" # "comma" /\ "end" # "colon"
  BY DEF Begins, Scalar, Opening
<1>5. \A x, y : Accepts(s, token, r, x, y) => r.want = "error"
  BY <1>1, <1>4 DEF Accepts
<1>6. \A y : Names(s, token, r, y) => r.want = "error"
  BY <1>1, <1>4 DEF Names
<1>7. Elements(s, token, r) => r.want = "error"
  BY <1>5, <1>6 DEF Elements
<1>8. s.open # <<>> => Closing[Last(s.open)] # "end"
  <2>1. s.open # <<>> => Closing[Last(s.open)] \in {"endarray", "endobject"}
    BY <1>2, LastOpen
  <2> QED BY <2>1
<1>9. s.open # <<>> /\ MayContinue(s, token, r) => r.want = "error"
  BY <1>1, <1>4, <1>7, <1>8 DEF MayContinue
<1>10. r.want = "error"
  BY <1>1, <1>2, <1>3, <1>4, <1>5, <1>7, <1>9 DEF Reads, Colon, Wants
<1> QED BY <1>10 DEF r, token

\* cJSON_Parse as a run.
LEMMA ParseRuns ==
  ASSUME NEW k \in Nat, NEW text \in Seq(Tokens)
  PROVE  LET b == Begun(allocate(Heap(k)))
             s == Run(b, text)
             r == cJSON_Parse(Heap(k), text)
         IN /\ OnItsWay(b, k) /\ OnItsWay(s, k)
            /\ r.ok = (s.want = "done")
            /\ s.want = "done" => r.items = s.items /\ r.heap = s.heap
<1> DEFINE b == Begun(allocate(Heap(k)))
           end == Punct("end")
           all == Append(text, end)
           s == Run(b, text)
           q == Run(b, all)
           r == cJSON_Parse(Heap(k), text)
<1>1. OnItsWay(b, k)
  BY BegunBetween DEF OnItsWay
<1>2. all \in Seq(Tokens) /\ Len(all) = Len(text) + 1 /\ all = text \o <<end>>
  <2>1. all \in Seq(Tokens)
    BY WithEnd
  <2>2. Len(all) = Len(text) + 1 /\ all = text \o <<end>>
    OBVIOUS
  <2> QED BY <2>1, <2>2
<1>3. end \in Tokens
  BY PunctTyped DEF Kind
<1> HIDE DEF b, end
<1>4. q = Read(s, end) /\ OnItsWay(s, k)
  BY <1>1, <1>2, <1>3, RunMore, RunGoes
<1>5. Parsing(Heap(k), all)[Len(text) + 1] = q
  <2>1. Parsing(Heap(k), all) = RunUpto(b, all)
    BY DEF Parsing, RunUpto, b
  <2> QED BY <1>2, <2>1 DEF Run
<1> HIDE DEF all, s, q
<1>6. r = [ok |-> q.want = "done", heap |-> q.heap, items |-> q.items]
  BY <1>5 DEF cJSON_Parse, all, end
<1>7. CASE s.want = "done"
  <2>1. q = s
    BY <1>4, <1>7 DEF Read
  <2> QED BY <1>1, <1>4, <1>6, <1>7, <2>1 DEF s, b
<1>8. CASE s.want = "error"
  <2>1. q = s
    BY <1>4, <1>8 DEF Read
  <2> QED BY <1>1, <1>4, <1>6, <1>8, <2>1 DEF s, b
<1>9. CASE s.want \notin {"done", "error"}
  <2>1. q.want = "error"
    BY <1>4, <1>9, EndFails DEF end, OnItsWay
  <2> QED BY <1>1, <1>4, <1>6, <1>9, <2>1 DEF s, b
<1> QED BY <1>7, <1>8, <1>9

LEMMA BegunTold ==
  ASSUME NEW k \in Nat
  PROVE  Told(Begun(allocate(Heap(k))), <<>>)
<1> DEFINE h == allocate(Heap(k))
           b == Begun(h)
           i == Item(IF Granted(h) THEN h.made ELSE 0, 0)
<1>1. b = [want |-> IF Granted(h) THEN "value" ELSE "error", heap |-> h, items |-> <<>>, item |-> i, open |-> <<>>]
  BY DEF Begun
<1>2. i.string = NoText
  BY DEF Item
<1> HIDE DEF i, h, b
<1>3. ASSUME b.want # "error" PROVE Tells(b, <<>>)
  <2>1. b.want = "value" /\ b.items = <<>> /\ b.item = i
    BY <1>1, <1>3
  <2>2. Partial(b) = CommaUnless(TRUE) \o NameSaid(NoText)
    BY <1>2, <2>1 DEF Partial, Behind
  <2>3. CommaUnless(TRUE) = <<>> /\ NameSaid(NoText) = <<>>
    BY NoTextTyped DEF CommaUnless, NameSaid
  <2>4. Partial(b) = <<>>
    <3>1. <<>> \o <<>> = <<>>
      OBVIOUS
    <3> QED BY <2>2, <2>3, <3>1
  <2>5. Spell(b.items) = <<>>
    <3>1. [n \in 1 .. Len(<<>>) |-> Say(<<>>, n)] = <<>>
      OBVIOUS
    <3>2. Spell(<<>>) = Concat([n \in 1 .. Len(<<>>) |-> Say(<<>>, n)])
      BY DEF Spell
    <3> QED BY <2>1, <3>1, <3>2, ConcatNone
  <2>6. <<>> \in Seq(ReadItems) /\ <<>> \in Seq(Tokens) /\ <<>> = <<>> \o <<>>
    OBVIOUS
  <2> QED BY <2>1, <2>4, <2>5, <2>6 DEF Tells
<1>4. <<>> \in Seq(Tokens) /\ <<>> = <<>> \o <<>>
  OBVIOUS
<1>5. Told(b, <<>>)
  BY <1>3, <1>4 DEF Told
<1> QED BY <1>5 DEF b, h

\* Whatever cJSON_Parse accepts, the items it makes say what the text says, up to its end.
THEOREM ParseTells ==
  ASSUME NEW k \in Nat, NEW text \in Seq(Tokens), NEW r, r = cJSON_Parse(Heap(k), text), r.ok
  PROVE  /\ r.items \in Seq(ReadItems) /\ Spell(r.items) \in Seq(Tokens)
         /\ \E y \in Seq(Tokens) : NoBlanks(text) = Spell(r.items) \o y
<1> DEFINE b == Begun(allocate(Heap(k)))
           s == Run(b, text)
<1>1. OnItsWay(b, k) /\ s.want = "done" /\ r.items = s.items
  BY ParseRuns
<1>2. Told(b, <<>>)
  BY BegunTold
<1> HIDE DEF b
<1>3. Told(s, NoBlanks(text))
  BY <1>1, <1>2, RunTold
<1> HIDE DEF s
<1>4. PICK x \in Seq(Tokens), y \in Seq(Tokens) : NoBlanks(text) = x \o y /\ Tells(s, x)
  BY <1>1, <1>3 DEF Told
<1>5. s.items \in Seq(ReadItems) /\ x = Spell(s.items) \o Partial(s) /\ Partial(s) = <<>>
  BY <1>1, <1>4 DEF Tells, Partial
<1>6. Spell(s.items) \in Seq(Tokens)
  BY <1>5, ReadSayings
<1>7. x = Spell(s.items)
  BY <1>5, <1>6
<1> QED BY <1>1, <1>4, <1>5, <1>6, <1>7

\* Where a part stands in a concatenation.
LEMMA ConcatAt ==
  ASSUME NEW S, NEW parts \in Seq(Seq(S)), NEW k, k \in 1 .. Len(parts)
  PROVE  \E x, y \in Seq(S) : Concat(parts) = (x \o parts[k]) \o y
<1> DEFINE n == Len(parts)
           p == SubSeq(parts, 1, k)
           o == SubSeq(parts, 1, k - 1)
           q == SubSeq(parts, k + 1, n)
           e == parts[k]
           c == Concat(parts)
<1>1. p \in Seq(Seq(S)) /\ q \in Seq(Seq(S)) /\ o \in Seq(Seq(S)) /\ e \in Seq(S)
  OBVIOUS
<1>2. parts = p \o q
  OBVIOUS
<1>3. p = Append(o, e)
  OBVIOUS
<1> HIDE DEF p, q, o, e
<1>4. Concat(p \o q) = Concat(p) \o Concat(q)
  BY <1>1, ConcatJoin
<1>5. c = Concat(p) \o Concat(q)
  BY <1>2, <1>4
<1> HIDE DEF c
<1>6. Concat(p) = Concat(o) \o e
  BY <1>1, <1>3, ConcatMore
<1>7. Concat(o) \in Seq(S) /\ Concat(q) \in Seq(S)
  BY <1>1, ConcatTyped
<1>8. c = (Concat(o) \o e) \o Concat(q)
  BY <1>5, <1>6
<1> QED BY <1>7, <1>8 DEF c, e

\* Three things in a row, and where they stand in what they stand in.
Around(S, x, y, a, b, c) == x \in Seq(S) /\ y \in Seq(S) /\ a \in S /\ b \in S /\ c \in S
StandIn(all, a, b, c) == \E j \in 1 .. Len(all) - 2 : all[j] = a /\ all[j + 1] = b /\ all[j + 2] = c

LEMMA ThreeAt ==
  ASSUME NEW S, NEW x, NEW y, NEW a, NEW b, NEW c, Around(S, x, y, a, b, c),
         NEW t, t = <<a, b, c>>, NEW all, all = (x \o t) \o y
  PROVE  StandIn(all, a, b, c)
<1>0. x \in Seq(S) /\ y \in Seq(S) /\ a \in S /\ b \in S /\ c \in S
  BY DEF Around
<1> DEFINE m == Len(x)
           xt == x \o t
<1>1. t \in Seq(S) /\ Len(t) = 3 /\ t[1] = a /\ t[2] = b /\ t[3] = c
  BY <1>0
<1>2. PICK l : l = Len(t)
  OBVIOUS
<1>3. all = xt \o y
  OBVIOUS
<1>4. m = Len(x)
  OBVIOUS
<1>a. t \in Seq(S) /\ x \in Seq(S)
  BY <1>0, <1>1
<1>c. y \in Seq(S)
  BY <1>0
<1> HIDE DEF m
<1>b. x \o t \in Seq(S) /\ Len(x \o t) = m + l /\ m \in Nat /\ \A i \in 1 .. l : (x \o t)[m + i] = t[i]
  BY ONLY <1>a, <1>2, <1>4, ConcatPlaces
<1>5. xt \in Seq(S) /\ Len(xt) = m + l /\ m \in Nat /\ \A i \in 1 .. l : xt[m + i] = t[i]
  BY <1>b
<1> HIDE DEF xt
<1>6. PICK v : v = Len(y)
  OBVIOUS
<1>7. PICK w : w = Len(xt)
  OBVIOUS
<1>8. Len(xt \o y) = w + v /\ v \in Nat /\ w \in Nat /\ \A i \in 1 .. w : (xt \o y)[i] = xt[i]
  BY ONLY <1>5, <1>6, <1>7, <1>c, ConcatPlaces
<1>9. w = m + 3 /\ xt[m + 1] = t[1] /\ xt[m + 2] = t[2] /\ xt[m + 3] = t[3]
  BY ONLY <1>1, <1>2, <1>5, <1>7
<1>10. m + 1 \in 1 .. w /\ m + 2 \in 1 .. w /\ m + 3 \in 1 .. w
  BY ONLY <1>5, <1>9
<1>11. all[m + 1] = t[1] /\ all[m + 2] = t[2] /\ all[m + 3] = t[3] /\ Len(all) = w + v
  BY ONLY <1>3, <1>8, <1>9, <1>10
<1>12. m + 1 \in 1 .. Len(all) - 2 /\ (m + 1) + 1 = m + 2 /\ (m + 1) + 2 = m + 3
  BY ONLY <1>5, <1>8, <1>9, <1>11
<1>13. all[m + 1] = a /\ all[(m + 1) + 1] = b /\ all[(m + 1) + 2] = c
  BY ONLY <1>1, <1>11, <1>12
<1> QED BY <1>12, <1>13 DEF StandIn

LEMMA ThreeIn ==
  ASSUME NEW S, NEW comma, NEW more, NEW a, NEW b, NEW c, Around(S, comma, more, a, b, c)
  PROVE  /\ (comma \o <<a, b>>) \o <<c>> = comma \o <<a, b, c>> /\ <<a, b, c>> \in Seq(S)
<1>0. comma \in Seq(S) /\ a \in S /\ b \in S /\ c \in S
  BY DEF Around
<1>1. <<a, b>> \in Seq(S) /\ <<c>> \in Seq(S) /\ <<a, b>> \o <<c>> = <<a, b, c>>
  <2>1. <<a, b>> \in Seq(S) /\ <<c>> \in Seq(S)
    BY <1>0
  <2>2. <<a, b>> \o <<c>> = Append(<<a, b>>, c)
    BY <2>1, AppendIsConcat
  <2>3. Append(<<a, b>>, c) = <<a, b, c>>
    <3> DEFINE x == <<a, b>>
               y == <<a, b, c>>
    <3>1. x \in Seq(S) /\ y \in Seq(S) /\ Len(x) = 2 /\ Len(y) = 3 /\ x[1] = a /\ x[2] = b /\ y[1] = a /\ y[2] = b /\ y[3] = c
      BY <1>0
    <3>5. x \in Seq(S) /\ c \in S
      BY <1>0, <3>1
    <3> HIDE DEF x, y
    <3>2. Append(x, c) \in Seq(S) /\ Len(Append(x, c)) = Len(x) + 1 /\ Append(x, c)[Len(x) + 1] = c
          /\ \A i \in 1 .. Len(x) : Append(x, c)[i] = x[i]
      BY ONLY <3>5, AppendProperties
    <3>4. Len(Append(x, c)) = 3 /\ Append(x, c)[1] = a /\ Append(x, c)[2] = b /\ Append(x, c)[3] = c
      BY <3>1, <3>2
    <3>3. Append(x, c) = y
      BY <3>1, <3>2, <3>4
    <3> QED BY <3>3 DEF x, y
  <2> QED BY <2>1, <2>2, <2>3
<1> DEFINE x == <<a, b>>
           y == <<c>>
<1>2. x \in Seq(S) /\ y \in Seq(S) /\ comma \in Seq(S)
  BY <1>0, <1>1
<1> HIDE DEF x, y
<1>3. (comma \o x) \o y = comma \o (x \o y)
  BY ONLY <1>2, ThreeJoin
<1>4. (comma \o <<a, b>>) \o <<c>> = comma \o (<<a, b>> \o <<c>>)
  BY <1>3 DEF x, y
<1>5. <<a, b, c>> \in Seq(S)
  BY <1>0
<1> QED BY <1>1, <1>4, <1>5

\* The same, in a text that is put together of several.
Four(S, u, w, v, y) == u \in Seq(S) /\ w \in Seq(S) /\ v \in Seq(S) /\ y \in Seq(S)

LEMMA FiveJoin ==
  ASSUME NEW S, NEW u, NEW w, NEW v, NEW y, Four(S, u, w, v, y), NEW t, t \in Seq(S)
  PROVE  /\ ((u \o (w \o t)) \o v) \o y = ((u \o w) \o t) \o (v \o y)
         /\ u \o w \in Seq(S) /\ v \o y \in Seq(S)
<1> DEFINE uw == u \o w
           all == uw \o t
<1>a. u \in Seq(S) /\ w \in Seq(S) /\ t \in Seq(S)
  BY DEF Four
<1>b. v \in Seq(S) /\ y \in Seq(S)
  BY DEF Four
<1>1. (u \o w) \o t = u \o (w \o t) /\ uw \in Seq(S) /\ all \in Seq(S)
  BY ONLY <1>a, ThreeJoin
<1> HIDE DEF all
<1>c. all \in Seq(S)
  BY <1>1
<1>2. (all \o v) \o y = all \o (v \o y)
  BY ONLY <1>b, <1>c, ThreeJoin, SMTT(30)
<1>3. v \o y \in Seq(S)
  BY <1>b, ConcatProperties
<1> QED BY <1>1, <1>2, <1>3 DEF all

LEMMA ThreeWithin ==
  ASSUME NEW S, NEW u, NEW w, NEW v, NEW y, Four(S, u, w, v, y),
         NEW a, NEW b, NEW c, Around(S, w, y, a, b, c),
         NEW part, part = (w \o <<a, b>>) \o <<c>>, NEW all, all = ((u \o part) \o v) \o y
  PROVE  StandIn(all, a, b, c)
<1> DEFINE t == <<a, b, c>>
           x == u \o w
           z == v \o y
<1>0. Around(S, w, y, a, b, c) /\ Four(S, u, w, v, y)
  OBVIOUS
<1>1. part = w \o t /\ t \in Seq(S)
  <2>1. (w \o <<a, b>>) \o <<c>> = w \o <<a, b, c>> /\ <<a, b, c>> \in Seq(S)
    BY ONLY <1>0, ThreeIn
  <2> QED BY <2>1
<1>2. t = <<a, b, c>>
  OBVIOUS
<1> HIDE DEF t
<1>a. t \in Seq(S)
  BY <1>1
<1>3. ((u \o (w \o t)) \o v) \o y = (x \o t) \o z /\ x \in Seq(S) /\ z \in Seq(S)
  <2> HIDE DEF x, z
  <2>1. ((u \o (w \o t)) \o v) \o y = ((u \o w) \o t) \o (v \o y)
    BY ONLY <1>0, <1>a, FiveJoin, SMTT(30)
  <2>2. u \o w \in Seq(S) /\ v \o y \in Seq(S)
    BY ONLY <1>0, <1>a, FiveJoin
  <2> QED BY <2>1, <2>2 DEF x, z
<1> HIDE DEF x, z
<1>4. all = (x \o t) \o z
  BY <1>1, <1>3
<1>5. Around(S, x, z, a, b, c)
  BY <1>3 DEF Around
<1> QED BY ONLY <1>2, <1>4, <1>5, ThreeAt

\* A text has a name and behind it a value.
Gives(bare, string, value) == StandIn(bare, StringToken(string), Punct("colon"), value)

\* An item with a name stands in the text behind its name and a colon.
LEMMA NamedSaid ==
  ASSUME NEW items \in Seq(ReadItems), NEW k, k \in 1 .. Len(items), items[k].string.at # 0,
         NEW y \in Seq(Tokens), NEW bare, bare = Spell(items) \o y
  PROVE  Gives(bare, items[k].string, TokenOf(items[k]))
<1> DEFINE e == Sayings(items)[k]
           i == items[k]
           a == StringToken(i.string)
           b == Punct("colon")
           c == TokenOf(i)
           first == First(items, k)
           comma == CommaUnless(first)
           parts == Sayings(items)
<1>1. /\ parts \in Seq(Seq(Tokens)) /\ k \in 1 .. Len(parts) /\ parts[k] = Say(items, k) /\ e = parts[k]
      /\ Spell(items) = Concat(parts)
  BY ReadSayings
<1>2. PICK u \in Seq(Tokens), v \in Seq(Tokens) : Spell(items) = (u \o e) \o v
  <2> HIDE DEF parts, e
  <2>1. \E u, v \in Seq(Tokens) : Concat(parts) = (u \o parts[k]) \o v
    BY ONLY <1>1, ConcatAt
  <2> QED BY <1>1, <2>1
<1>3. e = Tell(i, first)
  BY <1>1, SayTells
<1>4. i \in Items /\ c \in Tokens /\ i \in ReadItems
  BY DEF ReadItems
<1>5. first \in BOOLEAN
  BY DEF First, Closes, Opens
<1>6. a \in Tokens /\ b \in Tokens
  <2>1. i.string \in TextBlocks
    BY <1>4 DEF Items
  <2>2. "colon" \in Kind /\ "colon" \notin {"string", "number"}
    BY DEF Kind
  <2> QED BY <2>1, <2>2, SaidTyped, PunctTyped
<1>7. NameSaid(i.string) = <<a, b>>
  BY DEF NameSaid
<1>8. e = (comma \o <<a, b>>) \o <<c>>
  BY <1>3, <1>4, <1>5, <1>7, TellBehind
<1>9. comma \in Seq(Tokens)
  BY <1>5, CommaTyped
<1> HIDE DEF e, a, b, c, comma, first, i
<1>10. bare = ((u \o e) \o v) \o y
  BY <1>2
<1>11. Four(Tokens, u, comma, v, y) /\ Around(Tokens, comma, y, a, b, c)
  BY <1>4, <1>6, <1>9 DEF Four, Around
<1>12. StandIn(bare, a, b, c)
  BY ONLY <1>8, <1>10, <1>11, ThreeWithin
<1> QED BY <1>12 DEF a, b, c, i, Gives

\* What cJSON_Parse makes an item of stands in the text behind the item's name.
LEMMA ParsedNamed ==
  ASSUME NEW k \in Nat, NEW text \in Seq(Tokens), NEW r, r = cJSON_Parse(Heap(k), text),
         NEW j, j \in 1 .. Len(r.items), r.items[j].string.at # 0,
         NEW bare, bare = NoBlanks(text)
  PROVE  /\ r.items[j] \in ReadItems
         /\ Gives(bare, r.items[j].string, TokenOf(r.items[j]))
<1>1. r.items \in Seq(Items) /\ (~ r.ok => r.items = <<>>)
  BY ParseOwns
<1>2. r.ok
  <2>1. r.items # <<>>
    BY <1>1
  <2> QED BY <1>1, <2>1
<1>3. r.items \in Seq(ReadItems)
  BY <1>2, ParseTells
<1>4. PICK y \in Seq(Tokens) : bare = Spell(r.items) \o y
  BY <1>2, ParseTells
<1> DEFINE items == r.items
<1>5. items \in Seq(ReadItems) /\ j \in 1 .. Len(items) /\ items[j].string.at # 0 /\ bare = Spell(items) \o y
  BY <1>3, <1>4
<1> HIDE DEF items
<1>6. Gives(bare, items[j].string, TokenOf(items[j]))
  BY ONLY <1>5, y \in Seq(Tokens), NamedSaid
<1>7. items[j] \in ReadItems
  BY <1>5
<1> QED BY <1>6, <1>7 DEF items

-----------------------------------------------------------------------------
(* What stands around the colons of an object.                             *)

Colon2 == Punct("colon")

\* Tokens that are no white space.
Solid == {t \in Tokens : t # Blank}

\* Around every colon stand the name and the value of a member in M.
Tied(text, M) ==
  /\ text \in Seq(Solid)
  /\ \A k \in 1 .. Len(text) :
       text[k] = Colon2 => /\ k >= 2 /\ k < Len(text)
                           /\ \E m \in M : text[k - 1] = Word(m[1]) /\ <<text[k + 1]>> = m[2]

LEMMA TiedJoin ==
  ASSUME NEW M, NEW x, Tied(x, M), NEW y, Tied(y, M)
  PROVE  Tied(x \o y, M)
<1> DEFINE z == x \o y
<1>1. x \in Seq(Solid) /\ y \in Seq(Solid)
  BY DEF Tied
<1>2. PICK a : a = Len(x)
  OBVIOUS
<1>3. PICK b : b = Len(y)
  OBVIOUS
<1>4. /\ z \in Seq(Solid) /\ Len(z) = a + b /\ a \in Nat /\ b \in Nat
      /\ \A i \in 1 .. a : z[i] = x[i]
      /\ \A i \in 1 .. b : z[a + i] = y[i]
  BY ONLY <1>1, <1>2, <1>3, ConcatPlaces
<1> HIDE DEF z
<1>5. ASSUME NEW k \in 1 .. Len(z), z[k] = Colon2
      PROVE  /\ k >= 2 /\ k < Len(z)
             /\ \E m \in M : z[k - 1] = Word(m[1]) /\ <<z[k + 1]>> = m[2]
  <2>1. CASE k <= a
    <3>1. k \in 1 .. a /\ x[k] = Colon2
      BY <1>4, <1>5, <2>1
    <3>2. k >= 2 /\ k < a
      BY <1>2, <3>1 DEF Tied
    <3>3. PICK m \in M : x[k - 1] = Word(m[1]) /\ <<x[k + 1]>> = m[2]
      BY <1>2, <3>1 DEF Tied
    <3>4. z[k - 1] = x[k - 1] /\ z[k + 1] = x[k + 1]
      BY <1>4, <3>1, <3>2
    <3> QED BY <1>4, <3>2, <3>3, <3>4
  <2>2. CASE k > a
    <3> DEFINE j == k - a
    <3>1. j \in 1 .. b /\ k = a + j
      BY <1>4, <2>2
    <3> HIDE DEF j
    <3>2. y[j] = Colon2
      BY <1>4, <1>5, <3>1
    <3>3. j >= 2 /\ j < b
      BY <1>3, <3>1, <3>2 DEF Tied
    <3>4. PICK m \in M : y[j - 1] = Word(m[1]) /\ <<y[j + 1]>> = m[2]
      BY <1>3, <3>1, <3>2 DEF Tied
    <3>5. j - 1 \in 1 .. b /\ j + 1 \in 1 .. b /\ a + (j - 1) = k - 1 /\ a + (j + 1) = k + 1
      BY <1>4, <3>1, <3>3
    <3>6. z[k - 1] = y[j - 1] /\ z[k + 1] = y[j + 1]
      BY <1>4, <3>5
    <3>7. k >= 2 /\ k < a + b
      BY <1>4, <3>1, <3>3
    <3> QED BY <1>4, <3>4, <3>6, <3>7
  <2> QED BY <1>4, <2>1, <2>2
<1>6. Tied(z, M)
  BY <1>4, <1>5 DEF Tied
<1> QED BY <1>6 DEF z

LEMMA TiedNone == ASSUME NEW M PROVE Tied(<<>>, M)
<1>1. <<>> \in Seq(Solid) /\ Len(<<>>) = 0
  OBVIOUS
<1> QED BY <1>1 DEF Tied

LEMMA TiedOne == ASSUME NEW M, NEW t \in Solid, t # Colon2 PROVE Tied(<<t>>, M)
<1> DEFINE x == <<t>>
<1>1. x \in Seq(Solid) /\ Len(x) = 1 /\ x[1] = t
  OBVIOUS
<1> HIDE DEF x
<1>2. Tied(x, M)
  BY <1>1 DEF Tied
<1> QED BY <1>2 DEF x

LEMMA TiedConcat ==
  ASSUME NEW M, NEW parts \in Seq(Seq(Tokens)), \A i \in 1 .. Len(parts) : Tied(parts[i], M)
  PROVE  Tied(Concat(parts), M)
<1> DEFINE n == Len(parts)
           f == ConcatUpto(parts)
           P == {i \in 0 .. n : Tied(f[i], M)}
<1>1. Concats(f, Tokens, parts) /\ Concat(parts) = f[n] /\ n \in Nat
  BY ConcatSteps
<1> HIDE DEF f
<1>2. 0 \in P
  BY <1>1, TiedNone DEF Concats
<1>3. ASSUME NEW i \in 1 .. n, i - 1 \in P PROVE i \in P
  <2>a. f[i] = f[i - 1] \o parts[i] /\ i \in 0 .. n /\ Tied(parts[i], M)
    <3>1. i \in 1 .. Len(parts) /\ i \in 0 .. n
      BY <1>1
    <3>2. f[i] = f[i - 1] \o parts[i]
      BY ONLY <1>1, <3>1 DEF Concats
    <3>3. Tied(parts[i], M)
      BY <3>1
    <3> QED BY <3>1, <3>2, <3>3
  <2>1. Tied(f[i - 1], M)
    BY <1>3
  <2>2. Tied(f[i - 1] \o parts[i], M)
    BY <2>a, <2>1, TiedJoin
  <2> QED BY <2>a, <2>2
<1>4. n \in 0 .. n
  BY <1>1
<1> HIDE DEF n, P
<1>5. \A i \in 0 .. n : i \in P
  BY <1>1, <1>2, <1>3, Ladder
<1>6. n \in P
  BY <1>4, <1>5
<1> QED BY <1>1, <1>6 DEF P

\* Members whose values are single tokens.
Plains == {m \in Members : \E t \in Tokens : m[2] = <<t>> /\ t.t \in {"string", "number"}}

LEMMA ColonAlone ==
  /\ Colon2 \in Tokens /\ Colon2.t = "colon"
  /\ \A w \in Words : Word(w) \in Tokens /\ Word(w) # Colon2
  /\ \A t \in Tokens : t.t \in {"string", "number"} => t # Colon2
  /\ Colon2 \in Solid /\ \A t \in Tokens : t.t # "blank" => t \in Solid
<1>1. "colon" \in Kind /\ "colon" \notin {"string", "number"}
  BY DEF Kind
<1>2. Colon2 \in Tokens /\ Colon2.t = "colon"
  BY <1>1, PunctTyped DEF Colon2, Punct
<1>3. ASSUME NEW w \in Words PROVE Word(w) \in Tokens /\ Word(w) # Colon2
  <2>1. Word(w).t = "string"
    BY DEF Word
  <2>2. <<>> \in Seq(Int)
    OBVIOUS
  <2>3. Word(w) \in Tokens
    BY <2>2 DEF Word, Tokens
  <2> QED BY <1>2, <2>1, <2>3
<1>4. Blank.t = "blank"
  BY DEF Blank, Punct
<1>5. Colon2 # Blank
  BY <1>2, <1>4
<1>6. \A t \in Tokens : t.t # "blank" => t \in Solid
  BY <1>4 DEF Solid
<1> QED BY <1>2, <1>3, <1>5, <1>6 DEF Solid

LEMMA TiedMember ==
  ASSUME NEW M, NEW m, m \in M, m \in Plains
  PROVE  Tied(MemberText(m), M)
<1>1. PICK t \in Tokens : m[2] = <<t>> /\ t.t \in {"string", "number"}
  BY DEF Plains
<1> DEFINE w == Word(m[1])
           z == <<w, Colon2, t>>
<1>2. m[1] \in Words /\ m \in Members
  BY DEF Plains, Members
<1>3. w \in Tokens /\ w # Colon2 /\ Colon2 \in Tokens /\ t # Colon2
  BY <1>1, <1>2, ColonAlone
<1>4. MemberText(m) = <<w, Colon2>> \o <<t>>
  BY <1>1 DEF MemberText, Colon2
<1> HIDE DEF w
<1>5. <<w, Colon2>> \o <<t>> = z
  <2> DEFINE e == <<>>
  <2>1. Around(Tokens, e, e, w, Colon2, t)
    BY <1>1, <1>3 DEF Around
  <2>2. (e \o <<w, Colon2>>) \o <<t>> = e \o <<w, Colon2, t>>
    <3> HIDE DEF e
    <3> QED BY ONLY <2>1, ThreeIn
  <2>3. <<w, Colon2>> \in Seq(Tokens) /\ <<w, Colon2, t>> \in Seq(Tokens)
    BY <1>1, <1>3
  <2>4. \A s \in Seq(Tokens) : e \o s = s
    BY ConcatEmptySeq
  <2> QED BY <2>2, <2>3, <2>4
<1>a. Word(m[1]).t = "string"
  BY DEF Word
<1>b. w \in Solid /\ t \in Solid /\ Colon2 \in Solid
  BY <1>1, <1>2, <1>a, ColonAlone DEF w
<1>6. z \in Seq(Solid) /\ Len(z) = 3 /\ z[1] = w /\ z[2] = Colon2 /\ z[3] = t
  BY <1>b
<1> HIDE DEF z
<1>7. ASSUME NEW k \in 1 .. Len(z), z[k] = Colon2
      PROVE  k >= 2 /\ k < Len(z) /\ z[k - 1] = w /\ z[k + 1] = t
  <2>1. k \in {1, 2, 3}
    BY <1>6
  <2>2. k = 2
    BY <1>3, <1>6, <1>7, <2>1
  <2> QED BY <1>6, <2>2
<1>8. Tied(z, M)
  BY <1>1, <1>6, <1>7 DEF Tied, w
<1> QED BY <1>4, <1>5, <1>8

\* In the text of an object, around every colon stand the name and the value of a member.
LEMMA TiedObject ==
  ASSUME NEW M, M \subseteq Plains, NEW ms \in Seq(Members), \A i \in 1 .. Len(ms) : ms[i] \in M
  PROVE  Tied(Object(ms), M)
<1> DEFINE parts == Comma(Mem(ms))
<1>1. parts \in Seq(Seq(Tokens)) /\ Len(parts) = Len(ms)
      /\ \A k \in 1 .. Len(ms) : parts[k] = IF k = 1 THEN MemberText(ms[k]) ELSE <<Punct("comma")>> \o MemberText(ms[k])
  BY PartsTyped
<1>2. Punct("comma") \in Tokens /\ Punct("object") \in Tokens /\ Punct("endobject") \in Tokens
  <2>1. "comma" \in Kind /\ "object" \in Kind /\ "endobject" \in Kind
    BY DEF Kind
  <2> QED BY <2>1, PunctTyped
<1>3. Punct("comma") # Colon2 /\ Punct("object") # Colon2 /\ Punct("endobject") # Colon2
  <2>1. Punct("comma").t = "comma" /\ Punct("object").t = "object" /\ Punct("endobject").t = "endobject"
    BY DEF Punct
  <2> QED BY <2>1, ColonAlone
<1>a. Punct("comma") \in Solid /\ Punct("object") \in Solid /\ Punct("endobject") \in Solid
  <2>1. Punct("comma").t = "comma" /\ Punct("object").t = "object" /\ Punct("endobject").t = "endobject"
    BY DEF Punct
  <2> QED BY <1>2, <2>1, ColonAlone
<1>4. Tied(<<Punct("comma")>>, M) /\ Tied(<<Punct("object")>>, M) /\ Tied(<<Punct("endobject")>>, M)
  BY <1>3, <1>a, TiedOne
<1> HIDE DEF parts
<1>5. ASSUME NEW i \in 1 .. Len(parts) PROVE Tied(parts[i], M)
  <2>1. i \in 1 .. Len(ms) /\ ms[i] \in M /\ ms[i] \in Plains
    BY <1>1
  <2>2. Tied(MemberText(ms[i]), M)
    BY <2>1, TiedMember
  <2>3. Tied(<<Punct("comma")>> \o MemberText(ms[i]), M)
    BY <1>4, <2>2, TiedJoin
  <2> QED BY <1>1, <2>1, <2>2, <2>3
<1>6. Tied(Concat(parts), M)
  BY <1>1, <1>5, TiedConcat
<1>7. Tied(<<Punct("object")>> \o Concat(parts), M)
  BY <1>4, <1>6, TiedJoin
<1>8. Tied((<<Punct("object")>> \o Concat(parts)) \o <<Punct("endobject")>>, M)
  BY <1>4, <1>7, TiedJoin
<1> QED BY <1>8, ObjectIs DEF Opened, parts

\* A text without white space is what is left without it.
LEMMA SolidBare ==
  ASSUME NEW text \in Seq(Solid)
  PROVE  NoBlanks(text) = text
<1> DEFINE n == Len(text)
           x(i) == SubSeq(text, 1, i)
           P == {i \in 0 .. n : NoBlanks(x(i)) = x(i)}
<1>1. n \in Nat
  OBVIOUS
<1>2. 0 \in P
  <2>1. x(0) = <<>>
    OBVIOUS
  <2> HIDE DEF x
  <2>2. NoBlanks(x(0)) = x(0) /\ 0 \in 0 .. n
    BY <1>1, <2>1, NoBlanksNone
  <2> QED BY <2>2
<1>3. \A i \in 1 .. n : i - 1 \in P => i \in P
  <2> SUFFICES ASSUME NEW i, i \in 1 .. n, NoBlanks(x(i - 1)) = x(i - 1) PROVE i \in 0 .. n /\ NoBlanks(x(i)) = x(i)
    BY DEF P
  <2> DEFINE u == x(i - 1)
             t == text[i]
  <2>1. t \in Solid /\ i \in 0 .. n
    BY <1>1
  <2>2. x(i) = Append(u, t) /\ u \in Seq(Solid)
    BY <1>1
  <2>3. NoBlanks(u) = u
    OBVIOUS
  <2> HIDE DEF u, t, x
  <2>4. x(i) = u \o <<t>> /\ <<t>> \in Seq(Solid)
    BY <2>1, <2>2
  <2>5. NoBlanks(u \o <<t>>) = NoBlanks(u) \o NoBlanks(<<t>>)
    BY <2>2, <2>4, NoBlanksJoin
  <2>6. NoBlanks(<<t>>) = <<t>>
    BY <2>1, NoBlanksOne DEF Bare, Solid
  <2> QED BY <2>1, <2>3, <2>4, <2>5, <2>6
<1> HIDE DEF P
<1>4. \A i \in 0 .. n : i \in P
  BY <1>1, <1>2, <1>3, Ladder
<1>5. x(n) = text
  BY DEF n
<1>6. n \in 0 .. n
  BY <1>1
<1> HIDE DEF x
<1> QED BY <1>4, <1>5, <1>6 DEF P

-----------------------------------------------------------------------------
(* The look-up of an item.                                                 *)

\* The item at a place with everything below it has an end.
Ends(items, k) == \E j \in k .. Len(items) : items[j].level = items[k].level /\ ~ Opens(items[j].type)

\* Every item has an end, but for the lists that are open.
Ended(items, depth) == \A k \in 1 .. Len(items) : items[k].level < depth \/ Ends(items, k)

Pends(s) ==
  /\ s.want \in {"value", "colon"} => s.item.level = Len(s.open)
  /\ s.want = "done" => s.open = <<>>
  /\ s.want # "error" => Ended(s.items, Len(s.open))

\* One more item: it has its own end, or is a list that is open, or ends a list.
LEMMA EndedMore ==
  ASSUME NEW items \in Seq(Items), NEW d \in Nat, NEW e \in Nat, Ended(items, d), NEW i \in Items,
         i.level < e \/ ~ Opens(i.type),
         d <= e \/ (d = e + 1 /\ i.level = e /\ ~ Opens(i.type))
  PROVE  Ended(Append(items, i), e)
<1> DEFINE n == Len(items)
           more == Append(items, i)
<1>1. /\ n \in Nat /\ Len(more) = n + 1 /\ more[n + 1] = i
      /\ \A k \in 1 .. n : more[k] = items[k] /\ items[k] \in Items
  OBVIOUS
<1>2. \A j \in Items : j.level \in Nat
  BY DEF Items
<1> HIDE DEF more
<1>3. ASSUME NEW k \in 1 .. n + 1 PROVE more[k].level < e \/ Ends(more, k)
  <2>1. CASE k = n + 1
    <3>1. k \in k .. Len(more) /\ more[k] = i
      BY <1>1, <2>1
    <3> QED BY <3>1 DEF Ends
  <2>2. CASE k # n + 1
    <3>1. k \in 1 .. n /\ more[k] = items[k] /\ items[k].level \in Nat
      BY <1>1, <1>2, <2>2
    <3>2. CASE Ends(items, k)
      <4>1. PICK j \in k .. n : items[j].level = items[k].level /\ ~ Opens(items[j].type)
        BY <3>2 DEF Ends
      <4>2. j \in k .. Len(more) /\ more[j] = items[j]
        BY <1>1, <3>1
      <4> QED BY <3>1, <4>1, <4>2 DEF Ends
    <3>3. CASE items[k].level < d
      <4>1. CASE items[k].level < e
        BY <3>1, <4>1
      <4>2. CASE ~ (items[k].level < e)
        <5>1. i.level = items[k].level /\ ~ Opens(i.type)
          BY <3>1, <3>3, <4>2
        <5>2. n + 1 \in k .. Len(more) /\ more[n + 1] = i
          BY <1>1, <3>1
        <5> QED BY <3>1, <5>1, <5>2 DEF Ends
      <4> QED BY <4>1, <4>2
    <3> QED BY <3>1, <3>2, <3>3 DEF Ended
  <2> QED BY <2>1, <2>2
<1>4. Ended(more, e)
  BY <1>1, <1>3 DEF Ended
<1> QED BY <1>4 DEF more

LEMMA OpensTyped ==
  /\ \A t \in Scalar \cup {"string"} : ~ Opens(t)
  /\ ~ Opens("endarray") /\ ~ Opens("endobject")
BY DEF Opens, Closing, Scalar

\* A value that begins where so many lists are open.
LEMMA AcceptsPends ==
  ASSUME NEW s, Between(s), Ended(s.items, Len(s.open)), NEW token \in Tokens,
         NEW string, NEW level, level = Len(s.open), NEW r, Accepts(s, token, r, string, level)
  PROVE  Pends(r)
<1>1. s.items \in Seq(Items) /\ s.open \in Seq(Opening)
  BY DEF Between, Owning, States
<1>2. Len(s.open) \in Nat
  BY <1>1
<1>3. CASE r.want = "error"
  BY <1>3 DEF Pends
<1>4. CASE r.want # "error"
  <2>1. PICK i : /\ Means(i, token, string, level) /\ r.items = Append(s.items, i)
                 /\ \/ token.t \in Scalar \cup {"string"} /\ r.open = s.open /\ r.want = IF s.open = <<>> THEN "done" ELSE "next"
                    \/ /\ token.t \in Opening /\ ~ TooDeep(Len(s.open))
                       /\ r.open = Append(s.open, token.t) /\ r.want = "first"
    BY <1>4 DEF Accepts
  <2>2. i \in Items /\ i.level = level /\ i.type = token.t
    BY <2>1 DEF Means
  <2>3. CASE token.t \in Scalar \cup {"string"} /\ r.open = s.open /\ r.want = IF s.open = <<>> THEN "done" ELSE "next"
    <3>1. ~ Opens(i.type)
      BY <2>2, <2>3, OpensTyped
    <3>2. Ended(r.items, Len(r.open))
      BY <1>1, <1>2, <2>1, <2>2, <2>3, <3>1, EndedMore
    <3> QED BY <2>3, <3>2 DEF Pends
  <2>4. CASE token.t \in Opening /\ r.open = Append(s.open, token.t) /\ r.want = "first"
    <3>1. Len(r.open) = Len(s.open) + 1
      BY <1>1, <2>4
    <3>2. Ended(r.items, Len(r.open))
      BY <1>1, <1>2, <2>1, <2>2, <3>1, EndedMore
    <3> QED BY <2>4, <3>2 DEF Pends
  <2> QED BY <2>1, <2>3, <2>4
<1> QED BY <1>3, <1>4

LEMMA ElementsPend ==
  ASSUME NEW s, Between(s), Ended(s.items, Len(s.open)), NEW token \in Tokens, NEW r, Elements(s, token, r)
  PROVE  Pends(r)
<1>1. CASE r.want = "error"
  BY <1>1 DEF Pends
<1>2. CASE r.want # "error" /\ Names(s, token, r, Len(s.open))
  <2>1. r.want = "colon" /\ r.items = s.items /\ r.open = s.open /\ r.item.level = Len(s.open)
    BY <1>2 DEF Names
  <2> QED BY <2>1 DEF Pends
<1>3. CASE Accepts(s, token, r, NoText, Len(s.open))
  BY <1>3, AcceptsPends
<1> QED BY <1>1, <1>2, <1>3 DEF Elements

LEMMA ReadPends ==
  ASSUME NEW s, Between(s), NEW token \in Tokens, Pends(s), NEW r, r = Read(s, token)
  PROVE  Pends(r)
<1>1. CASE s.want \in {"done", "error"} \/ token = Blank
  <2>1. r = s
    BY <1>1 DEF Read
  <2> QED BY <2>1
<1>2. CASE s.want \notin {"done", "error"} /\ token # Blank
  <2>1. Reads(s, token, r)
    BY <1>2, ReadForm
  <2>2. s.items \in Seq(Items) /\ s.open \in Seq(Opening) /\ s.want \in Wants /\ s.want # "name"
    BY DEF Between, Owning, States
  <2>3. Ended(s.items, Len(s.open))
    BY <1>2 DEF Pends
  <2>4. CASE s.want = "value"
    <3>1. Accepts(s, token, r, s.item.string, s.item.level) /\ s.item.level = Len(s.open)
      BY <2>1, <2>4 DEF Reads, Pends
    <3> QED BY <2>3, <3>1, AcceptsPends
  <2>5. CASE s.want = "colon"
    <3>1. Colon(s, token, r) /\ s.item.level = Len(s.open)
      BY <2>1, <2>5 DEF Reads, Pends
    <3> QED BY <2>3, <3>1 DEF Colon, Pends
  <2>6. CASE s.want = "element"
    <3>1. Elements(s, token, r)
      BY <2>1, <2>6 DEF Reads
    <3> QED BY <2>3, <3>1, ElementsPend
  <2>7. CASE s.want \in {"first", "next"}
    <3>1. MayContinue(s, token, r)
      BY <2>1, <2>7 DEF Reads
    <3>2. s.open # <<>>
      BY <2>7 DEF Between
    <3>3. /\ Closing[Last(s.open)] \in {"endarray", "endobject"} /\ Len(s.open) - 1 \in Nat
          /\ Len(Front(s.open)) = Len(s.open) - 1 /\ Len(s.open) \in Nat
      BY <2>2, <3>2, LastOpen
    <3>4. CASE /\ token.t = Closing[Last(s.open)] /\ r.items = Append(s.items, Mark(token.t, Len(s.open) - 1))
               /\ r.open = Front(s.open) /\ r.want = IF Front(s.open) = <<>> THEN "done" ELSE "next"
      <4> DEFINE m == Mark(token.t, Len(s.open) - 1)
      <4>0. token.t \in Kind
        BY TokenTyped
      <4>1. m \in Items /\ m.type = token.t /\ m.level = Len(s.open) - 1
        BY <3>3, <4>0, MarkTyped
      <4>2. ~ Opens(m.type)
        BY <3>3, <3>4, <4>1, OpensTyped
      <4> HIDE DEF m
      <4> DEFINE e == Len(s.open) - 1
                 d == Len(s.open)
      <4>3. e \in Nat /\ d \in Nat /\ d = e + 1 /\ Ended(s.items, d) /\ m.level = e
        BY <2>3, <3>3, <4>1
      <4> HIDE DEF e, d
      <4>4. Ended(Append(s.items, m), e)
        BY <2>2, <4>1, <4>2, <4>3, EndedMore
      <4>5. Ended(r.items, Len(r.open))
        BY <3>3, <3>4, <4>4 DEF e, m
      <4> QED BY <3>4, <4>5 DEF Pends
    <3>5. CASE token.t = "comma" /\ s.want = "next" /\ r.want = "element" /\ r.items = s.items /\ r.open = s.open
      BY <2>3, <3>5 DEF Pends
    <3>6. CASE Elements(s, token, r)
      BY <2>3, <3>6, ElementsPend
    <3>7. CASE r.want = "error"
      BY <3>7 DEF Pends
    <3> QED BY <3>1, <3>4, <3>5, <3>6, <3>7 DEF MayContinue
  <2> QED BY <1>2, <2>2, <2>4, <2>5, <2>6, <2>7 DEF Wants
<1> QED BY <1>1, <1>2

LEMMA RunPends ==
  ASSUME NEW k, NEW s, OnItsWay(s, k), Pends(s), NEW text \in Seq(Tokens)
  PROVE  Pends(Run(s, text))
<1> DEFINE n == Len(text)
           f == RunUpto(s, text)
           P == {i \in 0 .. n : Pends(f[i])}
<1>1. Runs(f, s, k, text) /\ n \in Nat
  BY RunSteps
<1> HIDE DEF f
<1>2. 0 \in P
  BY <1>1 DEF Runs
<1>3. \A i \in 1 .. n : i - 1 \in P => i \in P
  <2> SUFFICES ASSUME NEW i \in 1 .. n, Pends(f[i - 1]) PROVE i \in 0 .. n /\ Pends(f[i])
    OBVIOUS
  <2>1. f[i] = Read(f[i - 1], text[i]) /\ Between(f[i - 1]) /\ text[i] \in Tokens /\ i - 1 \in 0 .. n /\ i \in 0 .. n
    BY <1>1 DEF Runs, OnItsWay
  <2> QED BY <2>1, ReadPends
<1> HIDE DEF P
<1>4. \A i \in 0 .. n : i \in P
  <2> HIDE DEF n
  <2> QED BY <1>1, <1>2, <1>3, Ladder
<1>5. n \in P
  BY <1>1, <1>4
<1>6. Pends(f[n])
  BY <1>5 DEF P
<1> QED BY <1>6 DEF Run, f, n

\* In what cJSON_Parse makes, every item has its end.
LEMMA ParseEnds ==
  ASSUME NEW k \in Nat, NEW text \in Seq(Tokens), NEW r, r = cJSON_Parse(Heap(k), text), NEW j \in 1 .. Len(r.items)
  PROVE  Ends(r.items, j)
<1> DEFINE b == Begun(allocate(Heap(k)))
           s == Run(b, text)
<1>1. r.ok
  <2>1. ~ r.ok => r.items = <<>>
    BY ParseOwns
  <2>2. r.items # <<>>
    OBVIOUS
  <2> QED BY <2>1, <2>2
<1>2. OnItsWay(b, k) /\ OnItsWay(s, k) /\ s.want = "done" /\ r.items = s.items
  BY <1>1, ParseRuns
<1>3. Pends(b)
  <2>1. b.items = <<>> /\ b.open = <<>> /\ b.item.level = 0
    BY DEF Begun, Item
  <2>2. Ended(<<>>, 0) /\ Len(<<>>) = 0
    BY DEF Ended
  <2> HIDE DEF b
  <2> QED BY <2>1, <2>2 DEF Pends
<1> HIDE DEF b
<1>4. Pends(s)
  BY <1>2, <1>3, RunPends
<1> HIDE DEF s
<1>5. s.open = <<>> /\ Ended(s.items, Len(s.open)) /\ Len(<<>>) = 0
  BY <1>2, <1>4 DEF Pends
<1>6. s.items[j] \in Items /\ j \in 1 .. Len(s.items)
  BY <1>2 DEF OnItsWay, Between, Owning, States
<1>7. ~ (s.items[j].level < 0)
  BY <1>6 DEF Items
<1>8. Ends(s.items, j)
  BY <1>5, <1>6, <1>7 DEF Ended
<1> QED BY <1>2, <1>8

\* What the look-up of a name finds: items of the text, the first of which has the name.
Finds(x, items, name) ==
  /\ Len(x) >= 1 /\ x \in Seq(Items)
  /\ \A i \in 1 .. Len(x) : \E l \in 1 .. Len(items) : x[i] = items[l]
  /\ x[1].string.at # 0 /\ x[1].string.s = name

LEMMA LookUp ==
  ASSUME NEW k \in Nat, NEW text \in Seq(Tokens), NEW r, r = cJSON_Parse(Heap(k), text), NEW name,
         NEW x, x = cJSON_GetObjectItem(r.items, name), x # <<>>
  PROVE  Finds(x, r.items, name)
<1> DEFINE items == r.items
           n == Len(items)
           found == {j \in Children(items) : items[j].string.at = 0 \/ items[j].string.s = name}
           m == Min(found)
<1>1. items \in Seq(Items) /\ n \in Nat
  <2>1. items \in Seq(Items)
    BY ParseOwns, ZenonT(60)
  <2> QED BY <2>1
<1>2. x = IF found = {} \/ items[m].string.at = 0 THEN <<>> ELSE Below(items, m)
  BY DEF cJSON_GetObjectItem
<1>3. found # {} /\ items[m].string.at # 0 /\ x = Below(items, m)
  BY <1>2
<1>4. found \subseteq 0 .. n
  BY <1>1 DEF Children
<1>5. m \in found
  <2> HIDE DEF found, n
  <2> QED BY <1>1, <1>3, <1>4, MinProperties
<1>6. m \in 1 .. n /\ items[m].string.s = name
  <2>1. m \in Children(items) /\ (items[m].string.at = 0 \/ items[m].string.s = name)
    BY <1>5
  <2> HIDE DEF m, found
  <2> QED BY <1>1, <1>3, <2>1, SMTT(30) DEF Children
<1>7. Ends(items, m)
  BY <1>6, ParseEnds
<1> HIDE DEF m, found
<1> DEFINE ends == {j \in m .. n : items[j].level = items[m].level /\ ~ Opens(items[j].type)}
           e == Min(ends)
<1>8. ends # {} /\ ends \subseteq 0 .. n
  BY <1>1, <1>6, <1>7, SMTT(30) DEF Ends
<1>9. e \in ends
  <2> HIDE DEF ends, n
  <2> QED BY <1>1, <1>8, MinProperties
<1>10. e \in m .. n
  BY <1>9
<1>11. x = SubSeq(items, m, e)
  BY <1>3 DEF Below
<1> HIDE DEF e, ends, items
<1>12. /\ x \in Seq(Items) /\ Len(x) = e - m + 1
       /\ \A i \in 1 .. e - m + 1 : x[i] = items[m + i - 1]
  BY <1>1, <1>6, <1>10, <1>11
<1>13. Len(x) >= 1 /\ x[1] = items[m]
  BY <1>1, <1>6, <1>10, <1>12
<1>14. \A i \in 1 .. Len(x) : m + i - 1 \in 1 .. Len(items) /\ x[i] = items[m + i - 1]
  BY <1>1, <1>6, <1>10, <1>12
<1>15. Finds(x, items, name)
  BY <1>3, <1>6, <1>12, <1>13, <1>14 DEF Finds
<1> QED BY <1>15 DEF items

=============================================================================
