---------------------- MODULE ExtensionValidate_proofs ----------------------
(***************************************************************************)
(* Proofs about ExtensionValidate, for schemas of any size, any number of  *)
(* sections and any order of their keys.                                   *)
(***************************************************************************)
EXTENDS ExtensionValidate, FiniteSetTheorems, SequenceTheorems, WellFoundedInduction, TLAPS

-----------------------------------------------------------------------------
(***************************************************************************)
(* sortedKeys takes a recursive function: that there is one, and that it   *)
(* returns the keys of an info in their order, is shown by induction over  *)
(* the number of keys, from the fact that the naturals are well founded.   *)
(***************************************************************************)
(* A set of naturals that is not empty has a least element.                *)
LEMMA Least ==
  ASSUME NEW T, T \subseteq Nat, T # {}
  PROVE  \E m \in T : \A k \in T : m <= k
<1> DEFINE R == OpToRel(<, Nat)
<1>1. IsWellFoundedOn(R, Nat)
  BY NatLessThanWellFounded
<1>2. \A k, m \in Nat : k < m => <<k, m>> \in R
  BY DEF OpToRel
<1> HIDE DEF R
<1>3. PICK m \in T : \A k \in T : <<k, m>> \notin R
  BY <1>1, WFMin
<1>4. \A k \in T : ~(k < m)
  BY <1>2, <1>3
<1> QED
  BY <1>3, <1>4

LEMMA Induction ==
  ASSUME NEW S, 0 \in S, \A m \in Nat : m \in S => m + 1 \in S
  PROVE  Nat \subseteq S
<1> DEFINE T == Nat \ S
<1> SUFFICES ASSUME T # {} PROVE FALSE
  OBVIOUS
<1>1. PICK m \in T : \A k \in T : m <= k
  BY Least
<1>2. m \in Nat /\ m # 0 /\ m - 1 \in Nat /\ (m - 1) + 1 = m /\ ~(m <= m - 1)
  BY <1>1
<1> QED
  BY <1>1, <1>2

Selected(D, N, f) ==
  f = [k \in 0..N |-> IF k = 0 THEN <<>>
                      ELSE IF Keys[k] \in D THEN Append(f[k - 1], Keys[k])
                      ELSE f[k - 1]]

LEMMA SelectedExists ==
  ASSUME NEW D
  PROVE  \A N \in Nat : \E f : Selected(D, N, f)
<1> DEFINE S == {N \in Nat : \E f : Selected(D, N, f)}
<1>1. 0 \in S
  <2>1. Selected(D, 0, [k \in 0..0 |-> <<>>])
    BY DEF Selected
  <2> QED
    BY <2>1
<1>2. ASSUME NEW N \in Nat, N \in S PROVE N + 1 \in S
  <2>1. PICK f : Selected(D, N, f)
    BY <1>2
  <2> DEFINE g == [k \in 0..(N + 1) |->
                     IF k = 0 THEN <<>>
                     ELSE IF Keys[k] \in D THEN Append(f[k - 1], Keys[k])
                     ELSE f[k - 1]]
  <2>2. \A k \in 0..N : g[k] = f[k]
    <3> TAKE k \in 0..N
    <3>1. f[k] = IF k = 0 THEN <<>>
                 ELSE IF Keys[k] \in D THEN Append(f[k - 1], Keys[k])
                 ELSE f[k - 1]
      BY <2>1 DEF Selected
    <3> QED
      BY <3>1
  <2>3. \A k \in 0..(N + 1) : k # 0 => k - 1 \in 0..N
    OBVIOUS
  <2>4. Selected(D, N + 1, g)
    BY <2>2, <2>3 DEF Selected
  <2> QED
    BY <2>4
<1> HIDE DEF S
<1>3. Nat \subseteq S
  BY <1>1, <1>2, Induction
<1> QED
  BY <1>3 DEF S

SelectedKeys(D) == CHOOSE f : Selected(D, Len(Keys), f)

LEMMA KeysType ==
  /\ Len(Keys) \in Nat /\ DOMAIN Keys = 1..Len(Keys)
  /\ \A m \in 1..Len(Keys) : Keys[m] \in Key
BY ExtensionAssumption, LenProperties DEF Key

LEMMA SortedIsSelected ==
  ASSUME NEW info
  PROVE  /\ Selected(DOMAIN info, Len(Keys), SelectedKeys(DOMAIN info))
         /\ sortedKeys(info) = SelectedKeys(DOMAIN info)[Len(Keys)]
<1>1. \E f : Selected(DOMAIN info, Len(Keys), f)
  BY KeysType, SelectedExists
<1>2. Selected(DOMAIN info, Len(Keys), SelectedKeys(DOMAIN info))
  BY <1>1, Zenon DEF SelectedKeys
<1>3. sortedKeys(info) = SelectedKeys(DOMAIN info)[Len(Keys)]
  BY DEF sortedKeys, InOrder, SelectedKeys, Selected
<1> QED
  BY <1>2, <1>3

-----------------------------------------------------------------------------
(* The order of the keys.                                                  *)
LEMMA BeforeOrders ==
  /\ \A a, b \in Key : a = b \/ Before(a, b) \/ Before(b, a)
  /\ \A a, b : Before(a, b) => ~Before(b, a) /\ a # b
<1>1. /\ \A m \in 1..Len(Keys) : m \in Nat
      /\ \A m, n \in 1..Len(Keys) : Keys[m] = Keys[n] => m = n
      /\ DOMAIN Keys = 1..Len(Keys)
  BY ExtensionAssumption, KeysType
<1>2. ASSUME NEW a \in Key, NEW b \in Key, a # b PROVE Before(a, b) \/ Before(b, a)
  <2>1. PICK m \in 1..Len(Keys) : Keys[m] = a
    BY <1>1 DEF Key
  <2>2. PICK n \in 1..Len(Keys) : Keys[n] = b
    BY <1>1 DEF Key
  <2>3. m < n \/ n < m
    BY <1>1, <1>2, <2>1, <2>2
  <2> QED
    BY <1>1, <2>1, <2>2, <2>3 DEF Before
<1>3. ASSUME NEW a, NEW b, Before(a, b), Before(b, a) \/ a = b PROVE FALSE
  <2>1. PICK m \in 1..Len(Keys), n \in 1..Len(Keys) : m < n /\ Keys[m] = a /\ Keys[n] = b
    BY <1>1, <1>3 DEF Before
  <2>2. a # b
    BY <1>1, <2>1
  <2>3. PICK p \in 1..Len(Keys), q \in 1..Len(Keys) : p < q /\ Keys[p] = b /\ Keys[q] = a
    BY <1>1, <1>3, <2>2 DEF Before
  <2>4. p = n /\ q = m
    BY <1>1, <2>1, <2>3
  <2> QED
    BY <1>1, <2>1, <2>3, <2>4
<1> QED
  BY <1>2, <1>3

Ordered(s) == \A m, n \in 1..Len(s) : m < n => Before(s[m], s[n])

Elems(s) == {s[m] : m \in 1..Len(s)}

LEMMA SortedKeysSorts ==
  ASSUME NEW info, DOMAIN info \subseteq Key
  PROVE  /\ sortedKeys(info) \in Seq(Key)
         /\ Ordered(sortedKeys(info))
         /\ Elems(sortedKeys(info)) = DOMAIN info
<1> DEFINE D == DOMAIN info
           f == SelectedKeys(D)
           N == Len(Keys)
           P(k) == /\ f[k] \in Seq(Key)
                   /\ Ordered(f[k])
                   /\ Elems(f[k]) = {Keys[m] : m \in 1..k} \cap D
           S == {k \in Nat : k <= N => P(k)}
<1>1. N \in Nat /\ DOMAIN Keys = 1..N /\ \A m \in 1..N : Keys[m] \in Key
  BY KeysType
<1>2. \A k \in 0..N : f[k] = IF k = 0 THEN <<>>
                             ELSE IF Keys[k] \in D THEN Append(f[k - 1], Keys[k])
                             ELSE f[k - 1]
  BY SortedIsSelected DEF Selected
<1> HIDE DEF N, f, D
<1>3. 0 \in S
  <2>1. f[0] = <<>>
    BY <1>1, <1>2
  <2>2. Len(<<>>) = 0 /\ <<>> \in Seq(Key)
    BY EmptySeq
  <2>3. 1..0 = {}
    OBVIOUS
  <2> QED
    BY <2>1, <2>2, <2>3 DEF Ordered, Elems
<1>4. ASSUME NEW k \in Nat, k \in S PROVE k + 1 \in S
  <2> SUFFICES ASSUME k + 1 <= N PROVE P(k + 1)
    OBVIOUS
  <2>1. k + 1 \in 0..N /\ k + 1 \in 1..N /\ k + 1 # 0 /\ (k + 1) - 1 = k /\ k <= N
    BY <1>1
  <2>2. P(k)
    BY <1>4, <2>1
  <2> DEFINE s == f[k]
             x == Keys[k + 1]
  <2>3. f[k + 1] = IF x \in D THEN Append(s, x) ELSE s
    BY <1>2, <2>1
  <2>4. s \in Seq(Key) /\ Len(s) \in Nat /\ x \in Key
    BY <1>1, <2>1, <2>2, LenProperties
  <2>5. {Keys[m] : m \in 1..(k + 1)} = {Keys[m] : m \in 1..k} \union {x}
    <3>1. \A m : m \in 1..(k + 1) <=> (m \in 1..k \/ m = k + 1)
      OBVIOUS
    <3> QED
      BY <3>1
  <2>6. Elems(s) = {Keys[m] : m \in 1..k} \cap D /\ Ordered(s)
    BY <2>2
  <2>7. \A y \in Elems(s) : Before(y, x)
    <3> SUFFICES ASSUME NEW y \in Elems(s) PROVE Before(y, x)
      OBVIOUS
    <3>1. PICK m \in 1..k : Keys[m] = y
      BY <2>6
    <3>2. m \in 1..N /\ m < k + 1
      BY <1>1, <2>1
    <3> QED
      BY <1>1, <2>1, <3>1, <3>2 DEF Before, N
  <2> HIDE DEF s, x
  <2>8. CASE x \notin D
    <3>1. f[k + 1] = s
      BY <2>3, <2>8
    <3> QED
      BY <2>4, <2>5, <2>6, <2>8, <3>1
  <2>9. CASE x \in D
    <3> DEFINE t == Append(s, x)
    <3>1. /\ t \in Seq(Key) /\ Len(t) = Len(s) + 1 /\ t[Len(s) + 1] = x
          /\ \A m \in 1..Len(s) : t[m] = s[m]
      BY <2>4, AppendProperties
    <3> HIDE DEF t
    <3>2. \A m : m \in 1..Len(t) <=> (m \in 1..Len(s) \/ m = Len(s) + 1)
      BY <2>4, <3>1
    <3>3. Elems(t) = Elems(s) \union {x}
      BY <3>1, <3>2 DEF Elems
    <3>4. Ordered(t)
      <4> SUFFICES ASSUME NEW m \in 1..Len(t), NEW n \in 1..Len(t), m < n
                   PROVE  Before(t[m], t[n])
        BY DEF Ordered
      <4>1. m \in 1..Len(s) /\ t[m] = s[m]
        BY <2>4, <3>1
      <4>2. CASE n \in 1..Len(s)
        BY <2>6, <3>1, <4>1, <4>2 DEF Ordered
      <4>3. CASE n = Len(s) + 1
        BY <2>7, <3>1, <4>1, <4>3 DEF Elems
      <4> QED
        BY <3>2, <4>2, <4>3
    <3>5. f[k + 1] = t
      BY <2>3, <2>9 DEF t
    <3> QED
      BY <2>5, <2>6, <2>9, <3>1, <3>3, <3>4, <3>5
  <2> QED
    BY <2>8, <2>9
<1> HIDE DEF S, P
<1>5. Nat \subseteq S
  BY <1>3, <1>4, Induction
<1>6. P(N)
  BY <1>1, <1>5 DEF S
<1>7. {Keys[m] : m \in 1..N} \cap D = D
  BY <1>1 DEF D, Key
<1>8. sortedKeys(info) = f[N]
  BY SortedIsSelected DEF f, N, D
<1> QED
  BY <1>6, <1>7, <1>8 DEF P, D

-----------------------------------------------------------------------------
(***************************************************************************)
(* Sections.  Among those at one position the first by its key takes it.   *)
(***************************************************************************)
Section == [title : STRING, position : Int, parses : BOOLEAN]

IsInfo(info) == DOMAIN info \subseteq Key /\ info \in [DOMAIN info -> Section]

LEMMA FirstExists ==
  ASSUME NEW info, IsInfo(info), NEW key \in DOMAIN info, info[key].position >= 0
  PROVE  \E a \in DOMAIN info :
           /\ FirstAt(info, a)
           /\ info[a].position = info[key].position
           /\ a = key \/ Before(a, key)
<1> DEFINE T == {m \in 1..Len(Keys) : /\ Keys[m] \in DOMAIN info
                                      /\ info[Keys[m]].position = info[key].position}
<1>1. /\ DOMAIN Keys = 1..Len(Keys)
      /\ \A m \in 1..Len(Keys) : m \in Nat
  BY KeysType
<1>2. PICK k \in 1..Len(Keys) : Keys[k] = key
  BY <1>1 DEF IsInfo, Key
<1>3. k \in T /\ T \subseteq Nat
  BY <1>1, <1>2
<1>4. PICK m \in T : \A n \in T : m <= n
  BY <1>3, Least
<1>5. /\ Keys[m] \in DOMAIN info /\ m \in 1..Len(Keys)
      /\ info[Keys[m]].position = info[key].position
  BY <1>4
<1>6. FirstAt(info, Keys[m])
  <2> SUFFICES ASSUME NEW other \in DOMAIN info,
                      info[other].position = info[Keys[m]].position,
                      Before(other, Keys[m])
               PROVE  FALSE
    BY <1>5 DEF FirstAt
  <2>1. PICK n \in 1..Len(Keys), q \in 1..Len(Keys) :
          n < q /\ Keys[n] = other /\ Keys[q] = Keys[m]
    BY <1>1 DEF Before
  <2>2. q = m
    BY <1>1, <1>5, <2>1, ExtensionAssumption
  <2>3. n \in T
    BY <1>5, <2>1
  <2> QED
    BY <1>1, <1>4, <1>5, <2>1, <2>2, <2>3
<1>7. Keys[m] = key \/ Before(Keys[m], key)
  <2>1. m <= k
    BY <1>3, <1>4
  <2>2. m = k \/ m < k
    BY <1>1, <1>2, <1>5, <2>1
  <2> QED
    BY <1>1, <1>2, <1>5, <2>2 DEF Before
<1> QED
  BY <1>5, <1>6, <1>7

LEMMA FirstUnique ==
  ASSUME NEW info, IsInfo(info), NEW a \in DOMAIN info, NEW b \in DOMAIN info,
         FirstAt(info, a), FirstAt(info, b),
         info[a].position = info[b].position
  PROVE  a = b
BY BeforeOrders DEF IsInfo, FirstAt

(* What is wrong with one section, told without the others' order.         *)
KeyFaults(info, key, list, at) ==
  When(key \notin GoodKey, Problem("bad key", list, at, <<key>>))
  \union When(info[key].title \in Blank, Problem("no title", list, at, <<key>>))
  \union When(~info[key].parses, Problem("not a template", list, at, <<key>>))
  \union When(info[key].position < 0, Problem("negative position", list, at, <<key>>))
  \union {Problem("shared position", list, at, <<a, key>>) :
            a \in {a \in DOMAIN info : /\ FirstAt(info, a)
                                       /\ info[a].position = info[key].position
                                       /\ a # key}}

TooMany(info, list, at) ==
  When(Cardinality(DOMAIN info) > maxInfo, Problem("too many sections", list, at, <<>>))

LEMMA SectionFaultsAre ==
  ASSUME NEW info, NEW list, NEW at
  PROVE  SectionFaults(info, list, at)
           = TooMany(info, list, at)
               \union UNION {KeyFaults(info, key, list, at) : key \in DOMAIN info}
<1> DEFINE D == DOMAIN info
           Bad(key) == Problem("bad key", list, at, <<key>>)
           NoTitle(key) == Problem("no title", list, at, <<key>>)
           NoTemplate(key) == Problem("not a template", list, at, <<key>>)
           Negative(key) == Problem("negative position", list, at, <<key>>)
           Shared(pair) == Problem("shared position", list, at, pair)
           Sharing(a, key) == /\ FirstAt(info, a)
                              /\ info[a].position = info[key].position
                              /\ a # key
           Many == TooMany(info, list, at)
<1>1. SectionFaults(info, list, at) =
        {Bad(key) : key \in D \ GoodKey}
        \union {NoTitle(key) : key \in {key \in D : info[key].title \in Blank}}
        \union {NoTemplate(key) : key \in {key \in D : ~info[key].parses}}
        \union {Negative(key) : key \in {key \in D : info[key].position < 0}}
        \union {Shared(pair) : pair \in {p \in D \X D : Sharing(p[1], p[2])}}
        \union Many
  BY DEF SectionFaults, TooMany
<1>2. \A key : KeyFaults(info, key, list, at) =
        When(key \notin GoodKey, Bad(key))
        \union When(info[key].title \in Blank, NoTitle(key))
        \union When(~info[key].parses, NoTemplate(key))
        \union When(info[key].position < 0, Negative(key))
        \union {Shared(<<a, key>>) : a \in {a \in D : Sharing(a, key)}}
  BY DEF KeyFaults
<1>3. \A p : p \in {Shared(pair) : pair \in {q \in D \X D : Sharing(q[1], q[2])}}
               <=> \E key \in D : p \in {Shared(<<a, key>>) : a \in {a \in D : Sharing(a, key)}}
  <2> HIDE DEF D, Shared, Sharing
  <2>1. ASSUME NEW pair \in D \X D, Sharing(pair[1], pair[2])
        PROVE  \E key \in D : Shared(pair) \in {Shared(<<a, key>>) : a \in {a \in D : Sharing(a, key)}}
    <3>1. pair = <<pair[1], pair[2]>> /\ pair[1] \in D /\ pair[2] \in D
      OBVIOUS
    <3> QED
      BY <2>1, <3>1
  <2>2. ASSUME NEW key \in D, NEW a \in D, Sharing(a, key)
        PROVE  Shared(<<a, key>>) \in {Shared(pair) : pair \in {q \in D \X D : Sharing(q[1], q[2])}}
    <3>1. <<a, key>> \in D \X D /\ <<a, key>>[1] = a /\ <<a, key>>[2] = key
      OBVIOUS
    <3> QED
      BY <2>2, <3>1
  <2> QED
    BY <2>1, <2>2
<1> HIDE DEF D, Bad, NoTitle, NoTemplate, Negative, Shared, Sharing, Many
<1> DEFINE K(key) == KeyFaults(info, key, list, at)
           U == UNION {K(key) : key \in D}
<1>4. \A p : p \in SectionFaults(info, list, at) => p \in Many \union U
  BY <1>1, <1>2, <1>3 DEF When
<1>5. ASSUME NEW key \in D PROVE K(key) \subseteq SectionFaults(info, list, at)
  <2>1. {Shared(<<a, key>>) : a \in {a \in D : Sharing(a, key)}}
          \subseteq {Shared(pair) : pair \in {q \in D \X D : Sharing(q[1], q[2])}}
    BY <1>3
  <2>2. /\ When(key \notin GoodKey, Bad(key)) \subseteq {Bad(x) : x \in D \ GoodKey}
        /\ When(info[key].title \in Blank, NoTitle(key))
             \subseteq {NoTitle(x) : x \in {x \in D : info[x].title \in Blank}}
        /\ When(~info[key].parses, NoTemplate(key))
             \subseteq {NoTemplate(x) : x \in {x \in D : ~info[x].parses}}
        /\ When(info[key].position < 0, Negative(key))
             \subseteq {Negative(x) : x \in {x \in D : info[x].position < 0}}
    BY DEF When
  <2> DEFINE A1 == {Bad(x) : x \in D \ GoodKey}
             A2 == {NoTitle(x) : x \in {x \in D : info[x].title \in Blank}}
             A3 == {NoTemplate(x) : x \in {x \in D : ~info[x].parses}}
             A4 == {Negative(x) : x \in {x \in D : info[x].position < 0}}
             A5 == {Shared(pair) : pair \in {q \in D \X D : Sharing(q[1], q[2])}}
             B1 == When(key \notin GoodKey, Bad(key))
             B2 == When(info[key].title \in Blank, NoTitle(key))
             B3 == When(~info[key].parses, NoTemplate(key))
             B4 == When(info[key].position < 0, Negative(key))
             B5 == {Shared(<<a, key>>) : a \in {a \in D : Sharing(a, key)}}
  <2>3. SectionFaults(info, list, at) = A1 \union A2 \union A3 \union A4 \union A5 \union Many
    BY <1>1
  <2>4. K(key) = B1 \union B2 \union B3 \union B4 \union B5
    BY <1>2
  <2>5. B1 \subseteq A1 /\ B2 \subseteq A2 /\ B3 \subseteq A3 /\ B4 \subseteq A4 /\ B5 \subseteq A5
    BY <2>1, <2>2
  <2> HIDE DEF A1, A2, A3, A4, A5, B1, B2, B3, B4, B5, K
  <2> QED
    BY <2>3, <2>4, <2>5
<1>6. Many \subseteq SectionFaults(info, list, at)
  BY <1>1
<1> HIDE DEF K
<1>7. SectionFaults(info, list, at) = Many \union U
  BY <1>4, <1>5, <1>6
<1> QED
  BY <1>7 DEF U, K, D, Many

-----------------------------------------------------------------------------
(***************************************************************************)
(* Names.  The namespace, an underscore and a blank: the last part, and    *)
(* only that, is blank, and what comes before is the namespace.            *)
(***************************************************************************)
LEMMA OnlyPrefix ==
  ASSUME NEW ns \in Seq(STRING), NEW name \in Seq(STRING)
  PROVE  (\E b \in Blank : name = Append(ns, b))
           <=> CarriesNamespace(ns, name) /\ NothingFollows(ns, name)
<1>1. Blank \subseteq STRING /\ Len(ns) \in Nat /\ Len(name) \in Nat
  BY ExtensionAssumption, LenProperties
<1>2. ASSUME NEW b \in Blank, name = Append(ns, b)
      PROVE  CarriesNamespace(ns, name) /\ NothingFollows(ns, name)
  <2>1. /\ Len(name) = Len(ns) + 1 /\ name[Len(ns) + 1] = b
        /\ \A m \in 1..Len(ns) : name[m] = ns[m]
    BY <1>1, <1>2, AppendProperties
  <2>2. /\ SubSeq(name, 1, Len(ns)) \in Seq(STRING)
        /\ Len(SubSeq(name, 1, Len(ns))) = Len(ns)
        /\ \A m \in 1..Len(ns) : SubSeq(name, 1, Len(ns))[m] = name[m]
    <3>1. \A m \in 1..Len(ns) : name[m] \in STRING
      BY <1>1, <2>1, ElementOfSeq
    <3> QED
      BY <1>1, <3>1, SubSeqProperties
  <2>3. SubSeq(name, 1, Len(ns)) = ns
    BY <2>1, <2>2, SeqEqual
  <2> QED
    <3>1. b \in Blank
      BY <1>2
    <3>2. Len(ns) < Len(name) /\ name[Len(name)] = b
      BY <1>1, <2>1
    <3> QED
      BY <2>1, <2>3, <3>1, <3>2, Zenon DEF CarriesNamespace, NothingFollows
<1>3. ASSUME CarriesNamespace(ns, name), NothingFollows(ns, name)
      PROVE  \E b \in Blank : name = Append(ns, b)
  <2> DEFINE b == name[Len(name)]
             t == Append(ns, b)
  <2>1. /\ SubSeq(name, 1, Len(ns)) = ns /\ Len(name) = Len(ns) + 1 /\ b \in Blank
    BY <1>3 DEF CarriesNamespace, NothingFollows
  <2>2. \A m \in 1..Len(ns) : ns[m] = name[m]
    <3>1. \A m \in 1..Len(ns) : name[m] \in STRING
      BY <1>1, <2>1, ElementOfSeq
    <3>2. \A m \in 1..Len(ns) : SubSeq(name, 1, Len(ns))[m] = name[m]
      BY <1>1, <3>1, SubSeqProperties
    <3> QED
      BY <2>1, <3>2
  <2>3. /\ t \in Seq(STRING) /\ Len(t) = Len(ns) + 1 /\ t[Len(ns) + 1] = b
        /\ \A m \in 1..Len(ns) : t[m] = ns[m]
    BY <1>1, <2>1, AppendProperties
  <2>4. \A m \in 1..Len(t) : t[m] = name[m]
    <3> SUFFICES ASSUME NEW m \in 1..Len(t) PROVE t[m] = name[m]
      OBVIOUS
    <3>1. m \in 1..Len(ns) \/ m = Len(name)
      BY <1>1, <2>1, <2>3
    <3> HIDE DEF t
    <3> QED
      BY <2>1, <2>2, <2>3, <3>1
  <2>5. t = name
    BY <2>1, <2>3, <2>4, SeqEqual
  <2> QED
    BY <2>1, <2>5
<1> QED
  BY <1>2, <1>3

LEMMA NamespaceProblemsAre ==
  ASSUME ext \in ExtensionChoice, NEW name \in Name, NEW list, NEW at
  PROVE  name # EmptyName =>
           NamespaceProblems(ext.namespace, name, list, at) = NameFaults(name, list, at)
<1>1. ext.namespace \in Seq(STRING) /\ name \in Seq(STRING)
  BY ExtensionAssumption DEF Name
<1>2. (\E b \in Blank : name = Append(ext.namespace, b))
        <=> /\ CarriesNamespace(ext.namespace, name)
            /\ NothingFollows(ext.namespace, name)
  BY <1>1, OnlyPrefix
<1> QED
  BY <1>2 DEF NamespaceProblems, NameFaults, When

-----------------------------------------------------------------------------
(***************************************************************************)
(* The kinds, and where they are declared.                                 *)
(***************************************************************************)
NodeKinds == ext.nodeKinds
RelKinds == ext.relationshipKinds

LEMMA SchemaType ==
  ASSUME ext \in ExtensionChoice
  PROVE  /\ Len(NodeKinds) \in Nat /\ DOMAIN NodeKinds = 1..Len(NodeKinds)
         /\ Len(RelKinds) \in Nat /\ DOMAIN RelKinds = 1..Len(RelKinds)
         /\ Len(Kinds) = Len(NodeKinds) + Len(RelKinds)
         /\ Len(Kinds) \in Nat /\ DOMAIN Kinds = 1..Len(Kinds)
         /\ \A k \in 1..Len(NodeKinds) :
              Kinds[k] = NodeKinds[k] /\ ListOf(k) = "nodeKind" /\ PlaceOf(k) = k
         /\ \A k \in 1..Len(RelKinds) :
              /\ Kinds[Len(NodeKinds) + k] = RelKinds[k]
              /\ ListOf(Len(NodeKinds) + k) = "relationshipKind"
              /\ PlaceOf(Len(NodeKinds) + k) = k
         /\ \A k \in 1..Len(Kinds) : IsKind(Kinds[k]) /\ IsInfo(Kinds[k].info)
         /\ Len(ext.environments) \in Nat
         /\ DOMAIN ext.environments = 1..Len(ext.environments)
         /\ \A k \in 1..Len(ext.environments) :
              ext.environments[k].kind \in Name
         /\ (NodeKinds = <<>> <=> Len(NodeKinds) = 0)
<1> DEFINE S == KindsIn(ext)
<1>1. NodeKinds \in Seq(S) /\ RelKinds \in Seq(S) /\ \A r \in S : IsKind(r)
  BY ExtensionAssumption DEF NodeKinds, RelKinds
<1>2. /\ Len(NodeKinds) \in Nat /\ DOMAIN NodeKinds = 1..Len(NodeKinds)
      /\ Len(RelKinds) \in Nat /\ DOMAIN RelKinds = 1..Len(RelKinds)
  BY <1>1, LenProperties
<1>3. /\ Kinds \in Seq(S) /\ Len(Kinds) = Len(NodeKinds) + Len(RelKinds)
      /\ \A k \in 1..(Len(NodeKinds) + Len(RelKinds)) :
           Kinds[k] = IF k <= Len(NodeKinds) THEN NodeKinds[k]
                      ELSE RelKinds[k - Len(NodeKinds)]
  BY <1>1, ConcatProperties DEF Kinds, NodeKinds, RelKinds
<1>4. Len(Kinds) \in Nat /\ DOMAIN Kinds = 1..Len(Kinds)
  BY <1>3, LenProperties
<1> HIDE DEF S
<1>5. ASSUME NEW k \in 1..Len(NodeKinds)
      PROVE  Kinds[k] = NodeKinds[k] /\ ListOf(k) = "nodeKind" /\ PlaceOf(k) = k
  BY <1>2, <1>3 DEF ListOf, PlaceOf, NodeKinds
<1>6. ASSUME NEW k \in 1..Len(RelKinds)
      PROVE  /\ Kinds[Len(NodeKinds) + k] = RelKinds[k]
             /\ ListOf(Len(NodeKinds) + k) = "relationshipKind"
             /\ PlaceOf(Len(NodeKinds) + k) = k
  <2>1. /\ Len(NodeKinds) + k \in 1..(Len(NodeKinds) + Len(RelKinds))
        /\ ~(Len(NodeKinds) + k <= Len(NodeKinds))
        /\ (Len(NodeKinds) + k) - Len(NodeKinds) = k
    BY <1>2
  <2> QED
    BY <1>3, <2>1 DEF ListOf, PlaceOf, NodeKinds
<1>7. \A k \in 1..Len(Kinds) : IsKind(Kinds[k]) /\ IsInfo(Kinds[k].info)
  <2> TAKE k \in 1..Len(Kinds)
  <2>1. Kinds[k] \in S
    BY <1>3, ElementOfSeq
  <2>2. IsKind(Kinds[k])
    BY <1>1, <2>1
  <2> QED
    BY <2>2 DEF IsKind, IsInfo, Section
<1>8. /\ Len(ext.environments) \in Nat
      /\ DOMAIN ext.environments = 1..Len(ext.environments)
      /\ \A k \in 1..Len(ext.environments) : ext.environments[k].kind \in Name
  <2>1. ext.environments \in Seq([kind : Name, principals : Seq(Name)])
    BY ExtensionAssumption
  <2>2. /\ Len(ext.environments) \in Nat
        /\ DOMAIN ext.environments = 1..Len(ext.environments)
    BY <2>1, LenProperties
  <2>3. ASSUME NEW k \in 1..Len(ext.environments)
        PROVE  ext.environments[k].kind \in Name
    <3>1. ext.environments[k] \in [kind : Name, principals : Seq(Name)]
      BY <2>1, ElementOfSeq
    <3> QED
      BY <3>1
  <2> QED
    BY <2>2, <2>3
<1>9. NodeKinds = <<>> <=> Len(NodeKinds) = 0
  BY <1>1, EmptySeq
<1> QED
  BY <1>2, <1>3, <1>4, <1>5, <1>6, <1>7, <1>8, <1>9

(* What is wrong with a kind, its sections one by one apart.               *)
HeadFaults(k) ==
  NameFaults(Kinds[k].name, ListOf(k), PlaceOf(k))
    \union TooMany(Kinds[k].info, ListOf(k), PlaceOf(k))
    \union When(Kinds[k].name = EmptyName, Problem("empty name", ListOf(k), PlaceOf(k), <<>>))
    \union When(/\ Kinds[k].name # EmptyName
                /\ \E j \in 1..(k - 1) : Kinds[j].name = Kinds[k].name,
                Problem("duplicate name", ListOf(k), PlaceOf(k), <<>>))

SectionFaultsOf(k, key) == KeyFaults(Kinds[k].info, key, ListOf(k), PlaceOf(k))

LEMMA KindFaultsAre ==
  ASSUME NEW k
  PROVE  KindFaults(k)
           = HeadFaults(k)
               \union UNION {SectionFaultsOf(k, key) : key \in DOMAIN Kinds[k].info}
<1> DEFINE U == UNION {SectionFaultsOf(k, key) : key \in DOMAIN Kinds[k].info}
           S == SectionFaults(Kinds[k].info, ListOf(k), PlaceOf(k))
           M == TooMany(Kinds[k].info, ListOf(k), PlaceOf(k))
           A == NameFaults(Kinds[k].name, ListOf(k), PlaceOf(k))
           B == When(Kinds[k].name = EmptyName, Problem("empty name", ListOf(k), PlaceOf(k), <<>>))
           C == When(/\ Kinds[k].name # EmptyName
                     /\ \E j \in 1..(k - 1) : Kinds[j].name = Kinds[k].name,
                     Problem("duplicate name", ListOf(k), PlaceOf(k), <<>>))
<1>1. S = M \union U
  BY SectionFaultsAre DEF SectionFaultsOf
<1>2. KindFaults(k) = A \union S \union B \union C
  BY DEF KindFaults
<1>3. HeadFaults(k) = A \union M \union B \union C
  BY DEF HeadFaults
<1> HIDE DEF U, S, M, A, B, C
<1>4. KindFaults(k) = HeadFaults(k) \union U
  BY <1>1, <1>2, <1>3
<1> QED
  BY <1>4 DEF U

-----------------------------------------------------------------------------
(***************************************************************************)
(* The inductive invariant: how far the loops are, what they remember, and *)
(* that what is reported so far is what is wrong with what they looked at. *)
(***************************************************************************)
(* How many kinds, and environments, were looked at.                       *)
Looked ==
  IF pc = "schema" THEN 0
  ELSE IF pc = "nodeKind" THEN i - 1
  ELSE IF pc = "relationshipKind" THEN Len(NodeKinds) + (i - 1)
  ELSE Len(Kinds)

EnvLooked ==
  IF pc = "environment" THEN i - 1
  ELSE IF pc = "done" THEN Len(ext.environments)
  ELSE 0

Bounds ==
  /\ ext \in ExtensionChoice
  /\ pc \in {"schema", "nodeKind", "relationshipKind", "environment", "done"}
  /\ i \in Nat /\ 1 <= i
  /\ pc = "nodeKind" => i <= Len(ext.nodeKinds) + 1
  /\ pc = "relationshipKind" => i <= Len(ext.relationshipKinds) + 1
  /\ pc = "environment" => i <= Len(ext.environments) + 1
  /\ pc \in {"schema", "done"} => i = 1
  /\ keys \in Seq(Key)
  /\ keys # <<>> => pc \in {"nodeKind", "relationshipKind"} /\ i > 1

Taken(info, a) == [at |-> info[a].position, key |-> a]

(* While keys of a kind are left, all others come before them, and a       *)
(* position is taken by the first of those that want it.                   *)
Current ==
  LET info == Kinds[Looked].info
      gone == DOMAIN info \ Elems(keys)
  IN  keys # <<>> =>
        /\ Elems(keys) \subseteq DOMAIN info
        /\ Ordered(keys)
        /\ \A a \in gone, b \in Elems(keys) : Before(a, b)
        /\ \A q : q \in positions <=>
             \E a \in gone : FirstAt(info, a) /\ q = Taken(info, a)

TakenOnce == \A p, q \in positions : p.at = q.at => p = q

NamesSeen == seen = {Kinds[j].name : j \in 1..Looked} \ {EmptyName}

Displays ==
  /\ displayKinds \in Nat
  /\ displayKinds <= Len(NodeKinds) /\ displayKinds <= Looked
  /\ displayKinds = 0 <=>
       \A k \in 1..Len(NodeKinds) : k <= Looked => ~NodeKinds[k].display

NoDisplay ==
  When(/\ ext.nodeKinds # <<>>
       /\ \A k \in DOMAIN ext.nodeKinds : ~ext.nodeKinds[k].display,
       Problem("no display kind", "schema", 0, <<>>))

HeadsFound(m) == UNION {HeadFaults(k) : k \in 1..m}

SectionsDone(k, m, left) ==
  IF k = m THEN DOMAIN Kinds[k].info \ left ELSE DOMAIN Kinds[k].info

SectionsFound(m, left) ==
  UNION {UNION {SectionFaultsOf(k, key) : key \in SectionsDone(k, m, left)} : k \in 1..m}

EnvironmentsFound(m) == UNION {EnvironmentFaults(k) : k \in 1..m}

Reported ==
  \A p : p \in problems <=>
    \/ pc # "schema" /\ p \in SchemaProblems(ext)
    \/ pc \notin {"schema", "nodeKind"} /\ p \in NoDisplay
    \/ p \in HeadsFound(Looked)
    \/ p \in SectionsFound(Looked, Elems(keys))
    \/ p \in EnvironmentsFound(EnvLooked)

IInv ==
  /\ Bounds
  /\ Current
  /\ TakenOnce
  /\ NamesSeen
  /\ Displays
  /\ Reported

-----------------------------------------------------------------------------
(* All that depends on the schema alone stays as it is.                    *)
LEMMA SchemaFrame ==
  ASSUME ext' = ext
  PROVE  /\ NodeKinds' = NodeKinds /\ RelKinds' = RelKinds /\ Kinds' = Kinds
         /\ SchemaProblems(ext)' = SchemaProblems(ext)
         /\ NoDisplay' = NoDisplay
         /\ \A m : HeadsFound(m)' = HeadsFound(m)
         /\ \A m, left : SectionsFound(m, left)' = SectionsFound(m, left)
         /\ \A m : EnvironmentsFound(m)' = EnvironmentsFound(m)
<1>1. NodeKinds' = NodeKinds /\ RelKinds' = RelKinds /\ Kinds' = Kinds
  BY DEF NodeKinds, RelKinds, Kinds
<1>2. \A k : ListOf(k)' = ListOf(k) /\ PlaceOf(k)' = PlaceOf(k)
  BY DEF ListOf, PlaceOf
<1>3. \A m : HeadsFound(m)' = HeadsFound(m)
  <2>1. \A name, list, at : NameFaults(name, list, at)' = NameFaults(name, list, at)
    BY DEF NameFaults
  <2>2. \A k : HeadFaults(k)' = HeadFaults(k)
    BY <1>1, <1>2, <2>1 DEF HeadFaults
  <2> QED
    BY <2>2 DEF HeadsFound
<1>4. \A m, left : SectionsFound(m, left)' = SectionsFound(m, left)
  BY <1>1, <1>2 DEF SectionsFound, SectionsDone, SectionFaultsOf
<1>5. \A m : EnvironmentsFound(m)' = EnvironmentsFound(m)
  BY <1>1, <1>2 DEF EnvironmentsFound, EnvironmentFaults, NameFaults
<1>6. SchemaProblems(ext)' = SchemaProblems(ext) /\ NoDisplay' = NoDisplay
  BY DEF NoDisplay
<1> QED
  BY <1>1, <1>3, <1>4, <1>5, <1>6

LEMMA ElementsAre ==
  /\ pc = "nodeKind" => Elements = NodeKinds
  /\ pc = "relationshipKind" => Elements = RelKinds
  /\ pc = "environment" => Elements = ext.environments
  /\ pc \in {"schema", "done"} => Elements = <<>>
BY Zenon DEF Elements, NodeKinds, RelKinds

LEMMA HeadsGrow ==
  ASSUME NEW m \in Nat
  PROVE  /\ HeadsFound(0) = {}
         /\ HeadsFound(m + 1) = HeadsFound(m) \union HeadFaults(m + 1)
<1>1. \A k : k \in 1..(m + 1) <=> k \in 1..m \/ k = m + 1
  OBVIOUS
<1>2. 1..0 = {}
  OBVIOUS
<1> QED
  BY <1>1, <1>2 DEF HeadsFound

LEMMA EnvironmentsGrow ==
  ASSUME NEW m \in Nat
  PROVE  /\ EnvironmentsFound(0) = {}
         /\ EnvironmentsFound(m + 1) = EnvironmentsFound(m) \union EnvironmentFaults(m + 1)
<1>1. \A k : k \in 1..(m + 1) <=> k \in 1..m \/ k = m + 1
  OBVIOUS
<1>2. 1..0 = {}
  OBVIOUS
<1> QED
  BY <1>1, <1>2 DEF EnvironmentsFound

LEMMA SectionsGrow ==
  ASSUME NEW m \in Nat
  PROVE  /\ \A left : SectionsFound(0, left) = {}
         /\ SectionsFound(m + 1, DOMAIN Kinds[m + 1].info) = SectionsFound(m, {})
         /\ \A left, key :
              m # 0 /\ key \in left /\ left \subseteq DOMAIN Kinds[m].info =>
                SectionsFound(m, left \ {key})
                  = SectionsFound(m, left) \union SectionFaultsOf(m, key)
<1> DEFINE F(k, D) == UNION {SectionFaultsOf(k, key) : key \in D}
<1>1. \A n, left : SectionsFound(n, left) = UNION {F(k, SectionsDone(k, n, left)) : k \in 1..n}
  BY DEF SectionsFound
<1>2. \A k : k \in 1..(m + 1) <=> k \in 1..m \/ k = m + 1
  OBVIOUS
<1>3. 1..0 = {} /\ (m # 0 => m \in 1..m) /\ \A k \in 1..m : k # m + 1
  OBVIOUS
<1>4. \A k : F(k, {}) = {}
  OBVIOUS
<1>5. \A k \in 1..m : SectionsDone(k, m + 1, DOMAIN Kinds[m + 1].info) = SectionsDone(k, m, {})
  BY <1>3 DEF SectionsDone
<1>6. SectionsDone(m + 1, m + 1, DOMAIN Kinds[m + 1].info) = {}
  BY DEF SectionsDone
<1>7. ASSUME NEW left, NEW key, m # 0, key \in left, left \subseteq DOMAIN Kinds[m].info
      PROVE  SectionsFound(m, left \ {key})
               = SectionsFound(m, left) \union SectionFaultsOf(m, key)
  <2>1. SectionsDone(m, m, left \ {key}) = SectionsDone(m, m, left) \union {key}
    BY <1>7 DEF SectionsDone
  <2>2. \A k \in 1..m : k # m => SectionsDone(k, m, left \ {key}) = SectionsDone(k, m, left)
    BY DEF SectionsDone
  <2>3. F(m, SectionsDone(m, m, left \ {key}))
          = F(m, SectionsDone(m, m, left)) \union SectionFaultsOf(m, key)
    BY <2>1
  <2> HIDE DEF F
  <2> QED
    BY <1>1, <1>3, <1>7, <2>2, <2>3
<1> HIDE DEF F
<1>8. \A left : SectionsFound(0, left) = {}
  BY <1>1, <1>3
<1>9. SectionsFound(m + 1, DOMAIN Kinds[m + 1].info) = SectionsFound(m, {})
  BY <1>1, <1>2, <1>4, <1>5, <1>6
<1> QED
  BY <1>7, <1>8, <1>9

LEMMA KeysShrink ==
  ASSUME NEW s \in Seq(Key), s # <<>>, Ordered(s)
  PROVE  /\ Head(s) \in Elems(s) /\ Tail(s) \in Seq(Key)
         /\ Elems(Tail(s)) = Elems(s) \ {Head(s)}
         /\ Ordered(Tail(s))
         /\ \A b \in Elems(Tail(s)) : Before(Head(s), b)
<1> DEFINE t == Tail(s)
           n == Len(s)
<1>1. n \in Nat /\ n # 0 /\ Head(s) = s[1]
  BY LenProperties, EmptySeq
<1>2. /\ t \in Seq(Key) /\ Len(t) = n - 1
      /\ \A m \in 1..(n - 1) : t[m] = s[m + 1]
  BY HeadTailProperties
<1> HIDE DEF t, n
<1>3. \A m \in 1..n : m = 1 \/ m - 1 \in 1..(n - 1)
  BY <1>1
<1>4. \A m \in 1..(n - 1) : m + 1 \in 1..n /\ 1 < m + 1
  BY <1>1
<1>5. 1 \in 1..n
  BY <1>1
<1>6. \A m \in 1..n : 1 < m => Before(s[1], s[m])
  BY <1>5 DEF Ordered, n
<1>7. \A b \in Elems(t) : Before(Head(s), b)
  BY <1>1, <1>2, <1>4, <1>6 DEF Elems
<1>8. Head(s) \in Elems(s)
  BY <1>1, <1>5 DEF Elems, n
<1>9. Elems(t) = Elems(s) \ {Head(s)}
  <2>1. \A b \in Elems(t) : b \in Elems(s) /\ b # Head(s)
    BY <1>1, <1>2, <1>4, <1>7, BeforeOrders DEF Elems, n
  <2>2. ASSUME NEW m \in 1..n, s[m] # Head(s) PROVE s[m] \in Elems(t)
    <3>1. m - 1 \in 1..(n - 1) /\ (m - 1) + 1 = m
      BY <1>1, <1>3, <2>2
    <3>2. t[m - 1] = s[m]
      BY <1>2, <3>1
    <3> QED
      BY <1>2, <3>1, <3>2 DEF Elems
  <2> QED
    BY <2>1, <2>2 DEF Elems, n
<1>10. Ordered(t)
  <2> SUFFICES ASSUME NEW a \in 1..Len(t), NEW b \in 1..Len(t), a < b
               PROVE  Before(t[a], t[b])
    BY DEF Ordered
  <2>1. a + 1 \in 1..n /\ b + 1 \in 1..n /\ a + 1 < b + 1
    BY <1>1, <1>2
  <2> QED
    BY <1>2, <2>1 DEF Ordered, n
<1> QED
  BY <1>2, <1>7, <1>8, <1>9, <1>10 DEF t

-----------------------------------------------------------------------------
(***************************************************************************)
(* Every step preserves the invariant.                                     *)
(***************************************************************************)
(* What is reported, of the schema that stays, in the next state.          *)
LEMMA ReportedNext ==
  ASSUME ext' = ext
  PROVE  Reported' <=>
           \A p : p \in problems' <=>
             \/ pc' # "schema" /\ p \in SchemaProblems(ext)
             \/ pc' \notin {"schema", "nodeKind"} /\ p \in NoDisplay
             \/ p \in HeadsFound(Looked')
             \/ p \in SectionsFound(Looked', Elems(keys'))
             \/ p \in EnvironmentsFound(EnvLooked')
<1>1. HeadsFound(Looked)' = HeadsFound(Looked')
  BY SchemaFrame
<1>2. SectionsFound(Looked, Elems(keys))' = SectionsFound(Looked', Elems(keys'))
  BY SchemaFrame
<1>3. EnvironmentsFound(EnvLooked)' = EnvironmentsFound(EnvLooked')
  BY SchemaFrame
<1> QED
  BY <1>1, <1>2, <1>3, SchemaFrame DEF Reported

LEMMA NoKeys ==
  ASSUME keys = <<>>
  PROVE  Elems(keys) = {}
BY DEF Elems

LEMMA InitIInv ==
  ASSUME Init
  PROVE  IInv
<1>1. /\ ext \in ExtensionChoice /\ pc = "schema" /\ i = 1 /\ seen = {} /\ displayKinds = 0
      /\ keys = <<>> /\ positions = {} /\ problems = {}
  BY DEF Init
<1>2. Looked = 0 /\ EnvLooked = 0
  BY <1>1 DEF Looked, EnvLooked
<1>3. 1..0 = {} /\ <<>> \in Seq(Key)
  BY EmptySeq
<1>4. Bounds
  BY <1>1, <1>2, <1>3 DEF Bounds
<1>5. Current /\ TakenOnce
  BY <1>1 DEF Current, TakenOnce
<1>6. NamesSeen
  BY <1>1, <1>2, <1>3 DEF NamesSeen
<1>7. Displays
  <2>1. Len(NodeKinds) \in Nat
    BY <1>1, SchemaType
  <2>2. \A k \in 1..Len(NodeKinds) : ~(k <= 0)
    BY <2>1
  <2> QED
    BY <1>1, <1>2, <2>1, <2>2 DEF Displays
<1>8. Reported
  BY <1>1, <1>2, HeadsGrow, SectionsGrow, EnvironmentsGrow DEF Reported
<1> QED
  BY <1>4, <1>5, <1>6, <1>7, <1>8 DEF IInv

(* A step between two loops: no kind is looked at, no key is left.         *)
LEMMA BetweenLoops ==
  ASSUME IInv, keys = <<>>, ext' = ext, UNCHANGED <<kindVars, keys, positions>>,
         Looked' = Looked
  PROVE  Current' /\ TakenOnce' /\ NamesSeen' /\ Displays'
<1>1. Current'
  BY DEF Current
<1>2. TakenOnce'
  BY DEF TakenOnce, IInv
<1>3. NamesSeen'
  BY SchemaFrame DEF NamesSeen, IInv, kindVars
<1>4. Displays'
  BY SchemaFrame DEF Displays, IInv, kindVars
<1> QED
  BY <1>1, <1>2, <1>3, <1>4

LEMMA CheckSchemaKeeps ==
  ASSUME IInv, CheckSchema
  PROVE  IInv'
<1>1. /\ pc = "schema" /\ pc' = "nodeKind" /\ problems' = problems \union SchemaProblems(ext)
      /\ ext' = ext /\ i' = i /\ keys' = keys /\ UNCHANGED <<kindVars, keys, positions>>
  BY DEF CheckSchema, Report
<1>2. Bounds
  BY DEF IInv
<1>3. i = 1 /\ keys = <<>> /\ ext \in ExtensionChoice
  BY <1>1, <1>2 DEF Bounds
<1>4. Looked = 0 /\ Looked' = 0 /\ EnvLooked = 0 /\ EnvLooked' = 0
  <2>1. i' - 1 = 0
    BY <1>1, <1>3
  <2> QED
    BY <1>1, <2>1 DEF Looked, EnvLooked
<1>6. Bounds'
  <2>1. Len(ext.nodeKinds) \in Nat
    BY <1>3, SchemaType DEF NodeKinds
  <2> QED
    BY <1>1, <1>2, <1>3, <2>1 DEF Bounds
<1>7. Current' /\ TakenOnce' /\ NamesSeen' /\ Displays'
  BY <1>1, <1>3, <1>4, BetweenLoops
<1>8. Reported'
  <2>1. Reported
    BY DEF IInv
  <2> QED
    BY <1>1, <1>4, <2>1, ReportedNext DEF Reported
<1> QED
  BY <1>6, <1>7, <1>8 DEF IInv

LEMMA NodeKindsDoneKeeps ==
  ASSUME IInv, NodeKindsDone
  PROVE  IInv'
<1> DEFINE Missing == When(ext.nodeKinds # <<>> /\ displayKinds = 0,
                           Problem("no display kind", "schema", 0, <<>>))
<1>1. /\ pc = "nodeKind" /\ pc' = "relationshipKind" /\ keys = <<>> /\ i > Len(Elements)
      /\ i' = 1 /\ ext' = ext /\ keys' = keys /\ UNCHANGED <<kindVars, keys, positions>>
      /\ problems' = problems \union Missing
  BY DEF NodeKindsDone, LoopOver, Report
<1> HIDE DEF Missing
<1>2. Bounds
  BY DEF IInv
<1>3. ext \in ExtensionChoice /\ i \in Nat /\ Len(NodeKinds) \in Nat /\ i = Len(NodeKinds) + 1
  <2>1. Elements = NodeKinds /\ ext \in ExtensionChoice /\ Len(NodeKinds) \in Nat
    BY <1>1, <1>2, ElementsAre, SchemaType DEF Bounds
  <2> QED
    BY <1>1, <1>2, <2>1 DEF Bounds, NodeKinds
<1>4. /\ Looked = Len(NodeKinds) /\ Looked' = Len(NodeKinds) /\ EnvLooked = 0 /\ EnvLooked' = 0
  BY <1>1, <1>3 DEF Looked, EnvLooked, NodeKinds
<1>6. Bounds'
  <2>1. Len(ext.relationshipKinds) \in Nat
    BY <1>3, SchemaType DEF RelKinds
  <2> QED
    BY <1>1, <1>2, <1>3, <2>1 DEF Bounds
<1>7. Current' /\ TakenOnce' /\ NamesSeen' /\ Displays'
  BY <1>1, <1>4, BetweenLoops
<1>8. Missing = NoDisplay
  <2>1. displayKinds = 0 <=> \A k \in 1..Len(NodeKinds) : ~NodeKinds[k].display
    <3>1. \A k \in 1..Len(NodeKinds) : k <= Looked
      BY <1>3, <1>4
    <3> QED
      BY <3>1 DEF IInv, Displays
  <2>2. displayKinds = 0 <=> \A k \in DOMAIN ext.nodeKinds : ~ext.nodeKinds[k].display
    BY <1>3, <2>1, SchemaType DEF NodeKinds
  <2> QED
    BY <2>2 DEF NoDisplay, When, Missing
<1>9. Reported'
  <2>1. Reported
    BY DEF IInv
  <2> QED
    BY <1>1, <1>4, <1>8, <2>1, ReportedNext DEF Reported
<1> QED
  BY <1>6, <1>7, <1>9 DEF IInv

LEMMA RelationshipKindsDoneKeeps ==
  ASSUME IInv, RelationshipKindsDone
  PROVE  IInv'
<1>1. /\ pc = "relationshipKind" /\ pc' = "environment" /\ keys = <<>> /\ i > Len(Elements)
      /\ i' = 1 /\ ext' = ext /\ keys' = keys /\ UNCHANGED <<kindVars, keys, positions>>
      /\ problems' = problems
  BY DEF RelationshipKindsDone, LoopOver
<1>2. Bounds
  BY DEF IInv
<1>3. ext \in ExtensionChoice /\ i \in Nat /\ Len(RelKinds) \in Nat /\ i = Len(RelKinds) + 1
  <2>1. Elements = RelKinds /\ ext \in ExtensionChoice /\ Len(RelKinds) \in Nat
    BY <1>1, <1>2, ElementsAre, SchemaType DEF Bounds
  <2> QED
    BY <1>1, <1>2, <2>1 DEF Bounds, RelKinds
<1>4. /\ Looked = Len(Kinds) /\ Looked' = Len(Kinds) /\ EnvLooked = 0 /\ EnvLooked' = 0
  <2>1. Len(NodeKinds) + (i - 1) = Len(Kinds)
    BY <1>3, SchemaType
  <2> QED
    BY <1>1, <2>1, SchemaFrame DEF Looked, EnvLooked
<1>6. Bounds'
  BY <1>1, <1>2, <1>3 DEF Bounds
<1>7. Current' /\ TakenOnce' /\ NamesSeen' /\ Displays'
  BY <1>1, <1>4, BetweenLoops
<1>8. Reported'
  <2>1. Reported
    BY DEF IInv
  <2> QED
    BY <1>1, <1>4, <2>1, ReportedNext DEF Reported
<1> QED
  BY <1>6, <1>7, <1>8 DEF IInv

LEMMA ReturnKeeps ==
  ASSUME IInv, Return
  PROVE  IInv'
<1>1. /\ pc = "environment" /\ pc' = "done" /\ keys = <<>> /\ i > Len(Elements)
      /\ i' = 1 /\ ext' = ext /\ keys' = keys /\ UNCHANGED <<kindVars, keys, positions>>
      /\ problems' = problems
  BY DEF Return, LoopOver
<1>2. Bounds
  BY DEF IInv
<1>3. /\ ext \in ExtensionChoice /\ i \in Nat /\ Len(ext.environments) \in Nat
      /\ i = Len(ext.environments) + 1
  BY <1>1, <1>2, SchemaType, ElementsAre DEF Bounds
<1>4. /\ Looked = Len(Kinds) /\ Looked' = Len(Kinds)
      /\ EnvLooked = Len(ext.environments) /\ EnvLooked' = Len(ext.environments)
  BY <1>1, <1>3, SchemaFrame DEF Looked, EnvLooked
<1>6. Bounds'
  BY <1>1, <1>2, <1>3 DEF Bounds
<1>7. Current' /\ TakenOnce' /\ NamesSeen' /\ Displays'
  BY <1>1, <1>4, BetweenLoops
<1>8. Reported'
  <2>1. Reported
    BY DEF IInv
  <2> QED
    BY <1>1, <1>4, <2>1, ReportedNext DEF Reported
<1> QED
  BY <1>6, <1>7, <1>8 DEF IInv

LEMMA CheckEnvironmentKeeps ==
  ASSUME IInv, CheckEnvironment
  PROVE  IInv'
<1> DEFINE env == Elements[i]
           Shown == (IF env.kind = EmptyName
                       THEN {Problem("empty environment kind", pc, i, <<>>)}
                       ELSE NamespaceProblems(ext.namespace, env.kind, pc, i))
           Alone == When(env.principals = <<>>, Problem("no principals", pc, i, <<>>))
           Unknown == {Problem("undeclared principal", pc, i, <<k>>) :
                         k \in {k \in DOMAIN env.principals :
                                  env.principals[k] \notin declaredNodeKinds}}
<1>1. /\ pc = "environment" /\ pc' = "environment" /\ i <= Len(Elements)
      /\ i' = i + 1 /\ ext' = ext /\ keys' = keys /\ UNCHANGED <<kindVars, keys, positions>>
      /\ problems' = problems \union (Shown \union Alone \union Unknown)
  BY DEF CheckEnvironment, Report
<1> HIDE DEF Shown, Alone, Unknown
<1>2. Bounds
  BY DEF IInv
<1>3. /\ ext \in ExtensionChoice /\ i \in Nat /\ i # 0 /\ Len(ext.environments) \in Nat
      /\ i <= Len(ext.environments) /\ env = ext.environments[i]
      /\ i \in 1..Len(ext.environments) /\ keys = <<>>
  <2>1. /\ Elements = ext.environments /\ ext \in ExtensionChoice
        /\ Len(ext.environments) \in Nat
    BY <1>1, <1>2, ElementsAre, SchemaType DEF Bounds
  <2>2. i \in Nat /\ i # 0 /\ i <= Len(ext.environments)
    BY <1>1, <1>2, <2>1 DEF Bounds
  <2>3. keys = <<>>
    BY <1>1, <1>2 DEF Bounds
  <2> QED
    BY <2>1, <2>2, <2>3
<1>4. /\ Looked = Len(Kinds) /\ Looked' = Len(Kinds)
      /\ EnvLooked = i - 1 /\ EnvLooked' = i
  <2>1. Looked = Len(Kinds) /\ Looked' = Len(Kinds)
    BY <1>1, SchemaFrame DEF Looked
  <2>2. (i + 1) - 1 = i
    BY <1>3
  <2> QED
    BY <1>1, <2>1, <2>2 DEF EnvLooked
<1>6. Bounds'
  BY <1>1, <1>2, <1>3 DEF Bounds
<1>7. Current' /\ TakenOnce' /\ NamesSeen' /\ Displays'
  BY <1>1, <1>3, <1>4, BetweenLoops
<1>8. Shown \union Alone \union Unknown = EnvironmentFaults(i)
  <2> USE DEF Shown, Alone, Unknown
  <2> DEFINE names == NameFaults(env.kind, "environment", i)
             empty == When(env.kind = EmptyName,
                           Problem("empty environment kind", "environment", i, <<>>))
             alone == When(env.principals = <<>>,
                           Problem("no principals", "environment", i, <<>>))
             unknown == {Problem("undeclared principal", "environment", i, <<m>>) :
                           m \in {m \in DOMAIN env.principals :
                                    \A j \in DOMAIN ext.nodeKinds :
                                      ext.nodeKinds[j].name # env.principals[m]}}
  <2>1. EnvironmentFaults(i) = names \union empty \union alone \union unknown
    BY <1>3 DEF EnvironmentFaults
  <2>2. Shown = names \union empty
    <3>1. env.kind \in Name
      BY <1>3, SchemaType
    <3>2. CASE env.kind = EmptyName
      BY <1>1, <3>2 DEF NameFaults, When
    <3>3. CASE env.kind # EmptyName
      <4>1. NamespaceProblems(ext.namespace, env.kind, "environment", i) = names
        BY <1>3, <3>1, <3>3, NamespaceProblemsAre
      <4> QED
        BY <1>1, <3>3, <4>1 DEF When
    <3> QED
      BY <3>2, <3>3
  <2>3. Alone = alone
    BY <1>1
  <2>4. Unknown = unknown
    <3>1. \A n : n \notin declaredNodeKinds
                   <=> \A j \in DOMAIN ext.nodeKinds : ext.nodeKinds[j].name # n
      BY DEF declaredNodeKinds
    <3> QED
      BY <1>1, <3>1
  <2> HIDE DEF Shown, Alone, Unknown, names, empty, alone, unknown
  <2> QED
    BY <2>1, <2>2, <2>3, <2>4
<1>9. Reported'
  <2>1. Reported
    BY DEF IInv
  <2>2. EnvironmentsFound(i) = EnvironmentsFound(i - 1) \union EnvironmentFaults(i)
    <3>1. i - 1 \in Nat /\ (i - 1) + 1 = i
      BY <1>3
    <3> QED
      BY <3>1, EnvironmentsGrow
  <2> QED
    BY <1>1, <1>4, <1>8, <2>1, <2>2, ReportedNext DEF Reported
<1> QED
  BY <1>6, <1>7, <1>9 DEF IInv

(* The n-th element of the loop over a list of kinds, among all kinds.     *)
LEMMA ElementIsKind ==
  ASSUME Bounds, pc \in {"nodeKind", "relationshipKind"}, NEW n \in 1..Len(Elements)
  PROVE  /\ Looked \in Nat
         /\ \E k \in 1..Len(Kinds) : /\ k = Looked + (n - (i - 1))
                                     /\ Elements[n] = Kinds[k]
                                     /\ ListOf(k) = pc /\ PlaceOf(k) = n
         /\ pc = "nodeKind" => Looked = i - 1
         /\ pc = "relationshipKind" => Looked = Len(NodeKinds) + (i - 1)
<1>1. /\ ext \in ExtensionChoice /\ i \in Nat /\ 1 <= i
  BY DEF Bounds
<1>2. Len(NodeKinds) \in Nat /\ Len(RelKinds) \in Nat /\ Len(Kinds) = Len(NodeKinds) + Len(RelKinds)
  BY <1>1, SchemaType
<1>3. CASE pc = "nodeKind"
  <2>1. Elements = NodeKinds /\ Looked = i - 1
    BY <1>3, ElementsAre DEF Looked
  <2>2. Elements[n] = Kinds[n] /\ ListOf(n) = pc /\ PlaceOf(n) = n
    BY <1>1, <1>3, <2>1, SchemaType
  <2>3. n \in 1..Len(Kinds) /\ n = (i - 1) + (n - (i - 1)) /\ i - 1 \in Nat
    BY <1>1, <1>2, <2>1
  <2> QED
    BY <1>3, <2>1, <2>2, <2>3
<1>4. CASE pc = "relationshipKind"
  <2>1. Elements = RelKinds /\ Looked = Len(NodeKinds) + (i - 1)
    BY <1>4, ElementsAre DEF Looked
  <2> DEFINE k == Len(NodeKinds) + n
  <2>2. Elements[n] = Kinds[k] /\ ListOf(k) = pc /\ PlaceOf(k) = n
    BY <1>1, <1>4, <2>1, SchemaType
  <2>3. /\ k \in 1..Len(Kinds) /\ k = (Len(NodeKinds) + (i - 1)) + (n - (i - 1))
        /\ Len(NodeKinds) + (i - 1) \in Nat
    BY <1>1, <1>2, <2>1
  <2> QED
    BY <1>4, <2>1, <2>2, <2>3
<1> QED
  BY <1>3, <1>4

LEMMA CheckKindKeeps ==
  ASSUME IInv, CheckKind
  PROVE  IInv'
<1> DEFINE kind == Elements[i]
           info == kind.info
           Named == NameProblems(seen, kind.name, pc, i)
           Many == When(Cardinality(DOMAIN kind.info) > maxInfo,
                        Problem("too many sections", pc, i, <<>>))
<1>1. /\ pc \in {"nodeKind", "relationshipKind"} /\ keys = <<>> /\ i <= Len(Elements)
      /\ problems' = problems \union (Named \union Many)
      /\ seen' = seen \union ({kind.name} \ {EmptyName})
      /\ displayKinds' = displayKinds + (IF pc = "nodeKind" /\ kind.display THEN 1 ELSE 0)
      /\ keys' = sortedKeys(info) /\ positions' = {} /\ i' = i + 1 /\ ext' = ext /\ pc' = pc
  BY DEF CheckKind, Report
<1> HIDE DEF Named, Many
<1>2. Bounds
  BY DEF IInv
<1>3. ext \in ExtensionChoice /\ i \in Nat /\ 1 <= i
  BY <1>2 DEF Bounds
<1>4. Len(NodeKinds) \in Nat /\ Len(RelKinds) \in Nat
  BY <1>3, SchemaType
<1>5. Len(Elements) \in Nat
  BY <1>1, <1>4, ElementsAre
<1>6. i \in 1..Len(Elements)
  BY <1>1, <1>3, <1>5
<1> DEFINE k == Looked + 1
<1>7. /\ Looked \in Nat /\ k \in 1..Len(Kinds) /\ kind = Kinds[k] /\ ListOf(k) = pc /\ PlaceOf(k) = i
      /\ pc = "nodeKind" => k = i
      /\ pc = "relationshipKind" => k = Len(NodeKinds) + i
  <2>1. /\ Looked \in Nat
        /\ pc = "nodeKind" => Looked = i - 1
        /\ pc = "relationshipKind" => Looked = Len(NodeKinds) + (i - 1)
    BY <1>1, <1>2, <1>6, ElementIsKind
  <2>2. PICK n \in 1..Len(Kinds) : /\ n = Looked + (i - (i - 1))
                                   /\ Elements[i] = Kinds[n]
                                   /\ ListOf(n) = pc /\ PlaceOf(n) = i
    BY <1>1, <1>2, <1>6, ElementIsKind
  <2>3. n = k
    BY <1>3, <2>1, <2>2
  <2>4. /\ pc = "nodeKind" => k = i
        /\ pc = "relationshipKind" => k = Len(NodeKinds) + i
    BY <1>3, <1>4, <2>1
  <2> QED
    BY <2>1, <2>2, <2>3, <2>4
<1>8. Looked' = k
  <2>1. (i + 1) - 1 = i /\ Len(NodeKinds) + ((i + 1) - 1) = Len(NodeKinds) + i
    BY <1>3
  <2> QED
    BY <1>1, <1>7, <2>1, SchemaFrame DEF Looked
<1>9. EnvLooked = 0 /\ EnvLooked' = 0
  BY <1>1 DEF EnvLooked
<1> HIDE DEF kind, k
<1>10. IsKind(kind) /\ IsInfo(info)
  BY <1>3, <1>7, SchemaType
<1>11. keys' \in Seq(Key) /\ Ordered(keys') /\ Elems(keys') = DOMAIN info
  BY <1>1, <1>10, SortedKeysSorts DEF IsInfo
<1>12. Bounds'
  <2>1. 1 <= i' /\ i' \in Nat /\ i' > 1 /\ i' <= Len(Elements) + 1
    BY <1>1, <1>3, <1>5
  <2>2. /\ pc = "nodeKind" => Elements = ext.nodeKinds
        /\ pc = "relationshipKind" => Elements = ext.relationshipKinds
    BY ElementsAre DEF NodeKinds, RelKinds
  <2> QED
    BY <1>1, <1>2, <1>11, <2>1, <2>2 DEF Bounds
<1>13. Current' /\ TakenOnce'
  <2>1. Kinds'[Looked'].info = info
    BY <1>1, <1>7, <1>8, SchemaFrame
  <2>2. TakenOnce'
    BY <1>1 DEF TakenOnce
  <2>3. Current'
    BY <1>1, <1>11, <2>1 DEF Current
  <2> QED
    BY <2>2, <2>3
<1>14. NamesSeen'
  <2>1. seen = {Kinds[j].name : j \in 1..Looked} \ {EmptyName}
    BY DEF IInv, NamesSeen
  <2>2. \A j : j \in 1..k <=> j \in 1..Looked \/ j = k
    BY <1>7 DEF k
  <2>3. {Kinds[j].name : j \in 1..k} = {Kinds[j].name : j \in 1..Looked} \union {kind.name}
    BY <1>7, <2>2
  <2>4. seen' = {Kinds[j].name : j \in 1..k} \ {EmptyName}
    BY <1>1, <2>1, <2>3
  <2> QED
    BY <1>1, <1>8, <2>4, SchemaFrame DEF NamesSeen
<1>15. Displays'
  <2>1. /\ displayKinds \in Nat
        /\ displayKinds <= Len(NodeKinds) /\ displayKinds <= Looked
        /\ displayKinds = 0 <=>
             \A j \in 1..Len(NodeKinds) : j <= Looked => ~NodeKinds[j].display
    BY DEF IInv, Displays
  <2> SUFFICES /\ displayKinds' \in Nat
               /\ displayKinds' <= Len(NodeKinds) /\ displayKinds' <= k
               /\ displayKinds' = 0 <=>
                    \A j \in 1..Len(NodeKinds) : j <= k => ~NodeKinds[j].display
    BY <1>1, <1>8, SchemaFrame DEF Displays
  <2>2. CASE pc = "nodeKind"
    <3>1. k = i /\ i <= Len(NodeKinds) /\ Looked = i - 1 /\ kind = NodeKinds[i]
      BY <1>1, <1>3, <1>7, <2>2, ElementsAre DEF kind, k
    <3>2. \A j \in 1..Len(NodeKinds) : j <= k <=> j <= Looked \/ j = k
      BY <1>3, <1>4, <3>1
    <3>3. displayKinds' = displayKinds + (IF kind.display THEN 1 ELSE 0)
      BY <1>1, <2>2
    <3>4. k \in 1..Len(NodeKinds) /\ kind = NodeKinds[k]
      BY <1>3, <1>4, <3>1
    <3>5. CASE kind.display
      BY <1>3, <1>4, <2>1, <3>1, <3>3, <3>4, <3>5
    <3>6. CASE ~kind.display
      BY <1>3, <1>4, <2>1, <3>1, <3>2, <3>3, <3>4, <3>6
    <3> QED
      BY <3>5, <3>6
  <2>3. CASE pc = "relationshipKind"
    <3>1. \A j \in 1..Len(NodeKinds) : j <= k /\ j <= Looked
      BY <1>3, <1>4, <1>7, <2>3 DEF k
    <3>2. displayKinds' = displayKinds
      <4>1. displayKinds' = displayKinds + 0
        BY <1>1, <2>3
      <4> QED
        BY <2>1, <4>1
    <3>3. displayKinds <= k
      BY <1>7, <2>1 DEF k
    <3> QED
      BY <2>1, <3>1, <3>2, <3>3
  <2> QED
    BY <1>1, <2>2, <2>3
<1>16. Named \union Many = HeadFaults(k)
  <2> DEFINE A == NameFaults(kind.name, pc, i)
             B == When(kind.name = EmptyName, Problem("empty name", pc, i, <<>>))
             C == When(/\ kind.name # EmptyName
                       /\ \E j \in 1..(k - 1) : Kinds[j].name = kind.name,
                       Problem("duplicate name", pc, i, <<>>))
  <2>1. HeadFaults(k) = A \union Many \union B \union C
    BY <1>7 DEF HeadFaults, TooMany, Many
  <2>2. k - 1 = Looked
    BY <1>7 DEF k
  <2>3. Named = A \union B \union C
    <3>1. CASE kind.name = EmptyName
      BY <3>1 DEF Named, NameProblems, NameFaults, When
    <3>2. CASE kind.name # EmptyName
      <4>1. kind.name \in seen <=> \E j \in 1..(k - 1) : Kinds[j].name = kind.name
        BY <2>2, <3>2 DEF IInv, NamesSeen
      <4>2. NamespaceProblems(ext.namespace, kind.name, pc, i) = A
        BY <1>3, <1>10, <3>2, NamespaceProblemsAre DEF IsKind
      <4>3. Named = When(kind.name \in seen, Problem("duplicate name", pc, i, <<>>)) \union A
        BY <3>2, <4>2 DEF Named, NameProblems
      <4>4. When(kind.name \in seen, Problem("duplicate name", pc, i, <<>>)) = C
        BY <3>2, <4>1 DEF When
      <4>5. B = {}
        BY <3>2 DEF When
      <4> HIDE DEF A, B, C
      <4> QED
        BY <4>3, <4>4, <4>5
    <3> QED
      BY <3>1, <3>2
  <2> HIDE DEF A, B, C
  <2> QED
    BY <2>1, <2>3
<1>17. Reported'
  <2>1. Reported
    BY DEF IInv
  <2>2. HeadsFound(k) = HeadsFound(Looked) \union HeadFaults(k)
    BY <1>7, HeadsGrow DEF k
  <2>3. SectionsFound(k, DOMAIN info) = SectionsFound(Looked, {})
    BY <1>7, SectionsGrow DEF k
  <2>4. Elems(keys) = {}
    BY <1>1, NoKeys
  <2> QED
    BY <1>1, <1>8, <1>9, <1>11, <1>16, <2>1, <2>2, <2>3, <2>4, ReportedNext DEF Reported
<1> QED
  BY <1>12, <1>13, <1>14, <1>15, <1>17 DEF IInv

LEMMA CheckSectionKeeps ==
  ASSUME IInv, CheckSection
  PROVE  IInv'
<1> DEFINE kind == Elements[i - 1]
           info == kind.info
           key == Head(keys)
           at == i - 1
           section == kind.info[key]
           free == section.position >= 0 /\ \A q \in positions : q.at # section.position
           BadKey == When(key \notin GoodKey, Problem("bad key", pc, at, <<key>>))
           NoTitle == When(section.title \in Blank, Problem("no title", pc, at, <<key>>))
           Placed == PositionProblems(positions, key, section.position, at)
           NoTemplate == When(~section.parses, Problem("not a template", pc, at, <<key>>))
<1>1. /\ keys # <<>>
      /\ problems' = problems \union (BadKey \union NoTitle \union Placed \union NoTemplate)
      /\ positions' = IF free THEN positions \union {[at |-> section.position, key |-> key]}
                              ELSE positions
      /\ keys' = Tail(keys) /\ i' = i /\ ext' = ext /\ pc' = pc /\ UNCHANGED kindVars
  BY DEF CheckSection, Report
<1> HIDE DEF BadKey, NoTitle, Placed, NoTemplate
<1>2. Bounds
  BY DEF IInv
<1>3. /\ ext \in ExtensionChoice /\ i \in Nat /\ 1 < i /\ keys \in Seq(Key)
      /\ pc \in {"nodeKind", "relationshipKind"}
  BY <1>1, <1>2 DEF Bounds
<1>4. Len(NodeKinds) \in Nat /\ Len(RelKinds) \in Nat
  BY <1>3, SchemaType
<1>5. Len(Elements) \in Nat /\ i <= Len(Elements) + 1
  <2>1. /\ pc = "nodeKind" => Elements = ext.nodeKinds
        /\ pc = "relationshipKind" => Elements = ext.relationshipKinds
    BY ElementsAre DEF NodeKinds, RelKinds
  <2> QED
    BY <1>2, <1>3, <1>4, <2>1 DEF Bounds, NodeKinds, RelKinds
<1>6. at \in 1..Len(Elements)
  BY <1>3, <1>5
<1> DEFINE m == Looked
<1>7. /\ m \in Nat /\ m # 0 /\ m \in 1..Len(Kinds)
      /\ kind = Kinds[m] /\ ListOf(m) = pc /\ PlaceOf(m) = at
  <2>1. m \in Nat
    BY <1>2, <1>3, <1>6, ElementIsKind
  <2>2. PICK n \in 1..Len(Kinds) : /\ n = Looked + (at - (i - 1))
                                   /\ Elements[at] = Kinds[n]
                                   /\ ListOf(n) = pc /\ PlaceOf(n) = at
    BY <1>2, <1>3, <1>6, ElementIsKind
  <2>3. n = m
    BY <1>3, <2>1, <2>2
  <2> QED
    BY <2>1, <2>2, <2>3
<1>8. Looked' = m /\ EnvLooked = 0 /\ EnvLooked' = 0
  BY <1>1, <1>3, SchemaFrame DEF Looked, EnvLooked
<1> HIDE DEF kind, at, m
<1>9. IsInfo(info)
  BY <1>3, <1>7, SchemaType
<1> DEFINE D == DOMAIN info
           left == Elems(keys)
           gone == D \ left
<1>10. /\ left \subseteq D /\ Ordered(keys)
       /\ \A a \in gone, b \in left : Before(a, b)
       /\ \A q : q \in positions <=> \E a \in gone : FirstAt(info, a) /\ q = Taken(info, a)
  BY <1>1, <1>7 DEF IInv, Current, m
<1>11. /\ key \in left /\ Elems(keys') = left \ {key} /\ keys' \in Seq(Key) /\ Ordered(keys')
       /\ \A b \in left \ {key} : Before(key, b)
  BY <1>1, <1>3, <1>10, KeysShrink
<1> HIDE DEF info, key, left
<1>12. D \subseteq Key /\ key \in D /\ key \notin gone /\ D \ (left \ {key}) = gone \union {key}
  BY <1>9, <1>10, <1>11 DEF IsInfo
<1>13. \A a \in D : a \in gone \/ a = key \/ Before(key, a)
  BY <1>11
<1>14. section = info[key] /\ \A a \in D : info[a].position \in Int
  BY <1>9 DEF IsInfo, Section, info
<1> DEFINE p == info[key].position
<1>15. \A a : Taken(info, a).at = info[a].position /\ Taken(info, a).key = a
  BY DEF Taken
<1> HIDE DEF section
(* Who is first at the key's position, if it is not the key, came before.  *)
<1>16. ASSUME NEW a \in D, FirstAt(info, a), info[a].position = p, a # key
       PROVE  a \in gone
  <2>1. p >= 0
    BY <1>16 DEF FirstAt
  <2>2. PICK b \in D : FirstAt(info, b) /\ info[b].position = p /\ (b = key \/ Before(b, key))
    BY <1>9, <1>12, <2>1, FirstExists
  <2>3. a = b
    BY <1>9, <1>16, <2>2, FirstUnique
  <2> QED
    BY <1>13, <1>16, <2>2, <2>3, BeforeOrders
<1>17. free <=> FirstAt(info, key)
  <2>1. ASSUME free PROVE FirstAt(info, key)
    <3>1. p >= 0 /\ \A q \in positions : q.at # p
      BY <1>14, <2>1
    <3>2. PICK b \in D : FirstAt(info, b) /\ info[b].position = p /\ (b = key \/ Before(b, key))
      BY <1>9, <1>12, <3>1, FirstExists
    <3>3. b \notin gone
      <4> SUFFICES ASSUME b \in gone PROVE FALSE
        OBVIOUS
      <4>1. Taken(info, b) \in positions
        BY <1>10, <3>2
      <4> QED
        BY <1>15, <3>1, <3>2, <4>1
    <3>4. b = key
      BY <1>16, <3>2, <3>3
    <3> QED
      BY <3>2, <3>4
  <2>2. ASSUME FirstAt(info, key) PROVE free
    <3>1. p >= 0
      BY <2>2 DEF FirstAt
    <3>2. ASSUME NEW q \in positions, q.at = p PROVE FALSE
      <4>1. PICK a \in gone : FirstAt(info, a) /\ q = Taken(info, a)
        BY <1>10
      <4>2. info[a].position = p
        BY <1>15, <3>2, <4>1
      <4>3. a = key
        BY <1>9, <1>12, <2>2, <4>1, <4>2, FirstUnique
      <4> QED
        BY <1>12, <4>1, <4>3
    <3> QED
      BY <1>14, <3>1, <3>2
  <2> QED
    BY <2>1, <2>2
<1>18. Bounds'
  <2>1. keys' # <<>> => pc' \in {"nodeKind", "relationshipKind"} /\ i' > 1
    BY <1>1, <1>3
  <2> QED
    BY <1>1, <1>2, <1>11, <2>1 DEF Bounds
<1>19. [at |-> section.position, key |-> key] = Taken(info, key)
  BY <1>14 DEF Taken
<1>20. Current'
  <2>1. Kinds'[Looked'].info = info
    BY <1>1, <1>7, <1>8, SchemaFrame DEF info
  <2>2. \A a \in gone \union {key}, b \in left \ {key} : Before(a, b)
    BY <1>10, <1>11
  <2>3. \A q : q \in positions' <=>
               \E a \in gone \union {key} : FirstAt(info, a) /\ q = Taken(info, a)
    <3> HIDE DEF free, gone
    <3>1. CASE free
      <4>1. \A q : q \in positions' <=> q \in positions \/ q = Taken(info, key)
        BY <1>1, <1>19, <3>1
      <4> QED
        BY <1>10, <1>17, <3>1, <4>1
    <3>2. CASE ~free
      BY <1>1, <1>10, <1>17, <3>2
    <3> QED
      BY <3>1, <3>2
  <2>4. left \ {key} \subseteq D
    BY <1>10
  <2> HIDE DEF gone, D
  <2>5. DOMAIN Kinds'[Looked'].info \ Elems(keys') = gone \union {key}
    BY <1>11, <1>12, <2>1 DEF D
  <2> QED
    BY <1>11, <2>1, <2>2, <2>3, <2>4, <2>5 DEF Current, D
<1>21. TakenOnce'
  <2>1. TakenOnce
    BY DEF IInv
  <2>2. CASE free
    <3>1. \A q : q \in positions' <=> q \in positions \/ q = Taken(info, key)
      BY <1>1, <1>19, <2>2
    <3>2. \A q \in positions : q.at # Taken(info, key).at
      BY <1>14, <1>15, <2>2
    <3> HIDE DEF free
    <3> QED
      BY <2>1, <3>1, <3>2 DEF TakenOnce
  <2>3. CASE ~free
    <3>1. positions' = positions
      BY <1>1, <2>3
    <3> QED
      BY <2>1, <3>1 DEF TakenOnce
  <2> QED
    BY <2>2, <2>3
<1>22. NamesSeen' /\ Displays'
  <2>1. seen' = seen /\ displayKinds' = displayKinds /\ Looked' = Looked
    BY <1>1, <1>8 DEF kindVars, m
  <2>2. NamesSeen'
    BY <1>1, <2>1, SchemaFrame DEF IInv, NamesSeen
  <2>3. Displays'
    BY <1>1, <2>1, SchemaFrame DEF IInv, Displays
  <2> QED
    BY <2>2, <2>3
<1>23. BadKey \union NoTitle \union Placed \union NoTemplate = SectionFaultsOf(m, key)
  <2> DEFINE Shared(a) == Problem("shared position", pc, at, <<a, key>>)
             Negative == When(p < 0, Problem("negative position", pc, at, <<key>>))
             Sharing == {Shared(a) : a \in {a \in D : /\ FirstAt(info, a)
                                                     /\ info[a].position = p
                                                     /\ a # key}}
  <2>1. SectionFaultsOf(m, key)
          = BadKey \union NoTitle \union NoTemplate \union Negative \union Sharing
    BY <1>7, <1>14 DEF SectionFaultsOf, KeyFaults, BadKey, NoTitle, NoTemplate, info
  <2>2. Placed = IF p < 0 THEN {Problem("negative position", pc, at, <<key>>)}
                 ELSE {Shared(q.key) : q \in {q \in positions : q.at = p}}
    BY <1>14 DEF Placed, PositionProblems
  <2>3. {Shared(q.key) : q \in {q \in positions : q.at = p}} = Sharing
    <3> HIDE DEF Shared
    <3>1. ASSUME NEW q \in positions, q.at = p PROVE Shared(q.key) \in Sharing
      <4>1. PICK a \in gone : FirstAt(info, a) /\ q = Taken(info, a)
        BY <1>10
      <4>2. info[a].position = p /\ q.key = a /\ a \in D /\ a # key
        BY <1>12, <1>15, <3>1, <4>1
      <4> QED
        BY <4>1, <4>2
    <3>2. ASSUME NEW a \in D, FirstAt(info, a), info[a].position = p, a # key
          PROVE  Shared(a) \in {Shared(q.key) : q \in {q \in positions : q.at = p}}
      <4>1. a \in gone
        BY <1>16, <3>2
      <4>2. Taken(info, a) \in positions /\ Taken(info, a).at = p /\ Taken(info, a).key = a
        BY <1>10, <1>15, <3>2, <4>1
      <4> QED
        BY <4>2
    <3> QED
      BY <3>1, <3>2
  <2>4. p < 0 => Sharing = {}
    <3> HIDE DEF Shared
    <3>1. \A a \in D : FirstAt(info, a) /\ info[a].position = p => ~(p < 0)
      BY <1>12, <1>14 DEF FirstAt
    <3> QED
      BY <3>1
  <2> HIDE DEF Sharing, Shared
  <2>5. Placed = Negative \union Sharing
    BY <2>2, <2>3, <2>4 DEF When
  <2> HIDE DEF Negative
  <2> QED
    BY <2>1, <2>5
<1>24. Reported'
  <2>1. Reported
    BY DEF IInv
  <2>2. SectionsFound(m, left \ {key}) = SectionsFound(m, left) \union SectionFaultsOf(m, key)
    BY <1>7, <1>10, <1>11, SectionsGrow DEF info
  <2> QED
    BY <1>1, <1>8, <1>11, <1>23, <2>1, <2>2, ReportedNext DEF Reported, m, left
<1> QED
  BY <1>18, <1>20, <1>21, <1>22, <1>24 DEF IInv

LEMMA StutterKeeps ==
  ASSUME IInv, UNCHANGED vars
  PROVE  IInv'
<1>1. /\ ext' = ext /\ pc' = pc /\ i' = i /\ keys' = keys /\ positions' = positions
      /\ seen' = seen /\ displayKinds' = displayKinds /\ problems' = problems
  BY DEF vars, kindVars
<1>2. Looked' = Looked /\ EnvLooked' = EnvLooked
  BY <1>1, SchemaFrame DEF Looked, EnvLooked
<1>3. Bounds'
  BY <1>1 DEF IInv, Bounds
<1>4. Current'
  <2>1. Kinds'[Looked'].info = Kinds[Looked].info
    BY <1>1, <1>2, SchemaFrame
  <2> QED
    BY <1>1, <2>1 DEF IInv, Current
<1>5. TakenOnce'
  BY <1>1 DEF IInv, TakenOnce
<1>6. NamesSeen' /\ Displays'
  BY <1>1, <1>2, SchemaFrame DEF IInv, NamesSeen, Displays
<1>7. Reported'
  BY <1>1, <1>2, ReportedNext DEF IInv, Reported
<1> QED
  BY <1>3, <1>4, <1>5, <1>6, <1>7 DEF IInv

LEMMA Invariance == Spec => []IInv
<1>1. Init => IInv
  BY InitIInv
<1>2. IInv /\ [Next]_vars => IInv'
  BY CheckSchemaKeeps, CheckKindKeeps, CheckSectionKeeps, NodeKindsDoneKeeps,
     RelationshipKindsDoneKeeps, CheckEnvironmentKeeps, ReturnKeeps, StutterKeeps DEF Next
<1> QED
  BY <1>1, <1>2, PTL DEF Spec

-----------------------------------------------------------------------------
(***************************************************************************)
(* What the invariant says of a call that has returned.                    *)
(***************************************************************************)
AllKindFaults == UNION {KindFaults(k) : k \in DOMAIN Kinds}
AllEnvironmentFaults == UNION {EnvironmentFaults(k) : k \in DOMAIN ext.environments}

AllFaults ==
  SchemaProblems(ext) \union NoDisplay \union AllKindFaults \union AllEnvironmentFaults

LEMMA AllReported ==
  ASSUME IInv, pc = "done"
  PROVE  problems = AllFaults
<1>1. ext \in ExtensionChoice /\ keys = <<>>
  BY DEF IInv, Bounds
<1> DEFINE n == Len(Kinds)
<1>2. /\ DOMAIN Kinds = 1..n
      /\ DOMAIN ext.environments = 1..Len(ext.environments)
  BY <1>1, SchemaType
<1>3. Looked = n /\ EnvLooked = Len(ext.environments) /\ Elems(keys) = {}
  BY <1>1, NoKeys DEF Looked, EnvLooked
<1> HIDE DEF n
<1>4. \A p : p \in problems <=>
               \/ p \in SchemaProblems(ext) \/ p \in NoDisplay
               \/ p \in HeadsFound(n) \/ p \in SectionsFound(n, {})
               \/ p \in EnvironmentsFound(Len(ext.environments))
  BY <1>3 DEF IInv, Reported
<1>5. \A k : SectionsDone(k, n, {}) = DOMAIN Kinds[k].info
  BY DEF SectionsDone
<1> DEFINE S(k) == UNION {SectionFaultsOf(k, key) : key \in DOMAIN Kinds[k].info}
<1>6. SectionsFound(n, {}) = UNION {S(k) : k \in 1..n}
  BY <1>5 DEF SectionsFound
<1>7. \A k : KindFaults(k) = HeadFaults(k) \union S(k)
  BY KindFaultsAre
<1> HIDE DEF S
<1>8. UNION {KindFaults(k) : k \in 1..n} = HeadsFound(n) \union SectionsFound(n, {})
  BY <1>6, <1>7 DEF HeadsFound
<1>9. EnvironmentsFound(Len(ext.environments))
        = UNION {EnvironmentFaults(k) : k \in DOMAIN ext.environments}
  BY <1>2 DEF EnvironmentsFound
<1>10. /\ AllKindFaults = HeadsFound(n) \union SectionsFound(n, {})
       /\ AllEnvironmentFaults = EnvironmentsFound(Len(ext.environments))
  BY <1>2, <1>8, <1>9 DEF AllKindFaults, AllEnvironmentFaults
<1> QED
  BY <1>4, <1>10 DEF AllFaults

LEMMA ReportIsComplete ==
  ASSUME IInv
  PROVE  ReportsEveryProblem
BY AllReported, Zenon
   DEF ReportsEveryProblem, AllFaults, NoDisplay, AllKindFaults, AllEnvironmentFaults

-----------------------------------------------------------------------------
(***************************************************************************)
(* A schema without faults is one that meets the rules, part by part.      *)
(***************************************************************************)
LEMMA NothingWhen ==
  ASSUME NEW condition, NEW p
  PROVE  When(condition, p) = {} <=> ~condition
BY DEF When

(* A name is in the namespace when the namespace is a prefix of it and     *)
(* more than a blank follows: the prefix can only be cut in one place.     *)
LEMMA InNamespaceIs ==
  ASSUME ext \in ExtensionChoice, NEW name \in Name
  PROVE  InNamespace(name) <=> /\ CarriesNamespace(ext.namespace, name)
                               /\ ~NothingFollows(ext.namespace, name)
<1> DEFINE ns == ext.namespace
<1>1. /\ ns \in Seq(STRING) /\ ns # <<>> /\ name \in Seq(STRING)
  BY ExtensionAssumption DEF Name
<1>2. /\ Len(ns) \in Nat /\ Len(name) \in Nat /\ Len(ns) >= 1
      /\ DOMAIN name = 1..Len(name)
  BY <1>1, LenProperties, EmptySeq
<1>3. ASSUME NEW n \in 1..(Len(name) - 1), SubSeq(name, 1, n) = ns
      PROVE  n = Len(ns)
  <2>1. \A m \in 1..n : name[m] \in STRING
    BY <1>1, <1>2, ElementOfSeq
  <2>2. Len(SubSeq(name, 1, n)) = IF 1 <= n THEN n - 1 + 1 ELSE 0
    BY <1>1, <1>2, <2>1, SubSeqProperties
  <2> HIDE DEF ns
  <2> QED
    BY <1>2, <1>3, <2>2
<1>4. InNamespace(name) <=>
        \E n \in 1..(Len(name) - 1) :
          /\ SubSeq(name, 1, n) = ns
          /\ n + 1 < Len(name) \/ name[n + 1] \notin Blank
  BY DEF InNamespace
<1>5. /\ CarriesNamespace(ns, name) <=> Len(ns) < Len(name) /\ SubSeq(name, 1, Len(ns)) = ns
      /\ NothingFollows(ns, name) <=> Len(name) = Len(ns) + 1 /\ name[Len(name)] \in Blank
  BY DEF CarriesNamespace, NothingFollows
<1> HIDE DEF ns
<1>6. ASSUME InNamespace(name)
      PROVE  CarriesNamespace(ns, name) /\ ~NothingFollows(ns, name)
  <2>1. PICK n \in 1..(Len(name) - 1) :
          /\ SubSeq(name, 1, n) = ns
          /\ n + 1 < Len(name) \/ name[n + 1] \notin Blank
    BY <1>4, <1>6
  <2>2. n = Len(ns)
    BY <1>3, <2>1
  <2>3. Len(ns) < Len(name)
    BY <1>2, <2>2
  <2>4. Len(name) = Len(ns) + 1 => name[Len(name)] \notin Blank
    BY <1>2, <2>1, <2>2
  <2> QED
    BY <1>5, <2>1, <2>2, <2>3, <2>4
<1>7. ASSUME CarriesNamespace(ns, name), ~NothingFollows(ns, name)
      PROVE  InNamespace(name)
  <2>0. Len(ns) < Len(name)
    BY <1>5, <1>7
  <2>1. Len(ns) \in 1..(Len(name) - 1)
    BY <1>2, <2>0
  <2>2. Len(ns) + 1 < Len(name) \/ name[Len(ns) + 1] \notin Blank
    <3>0. \A m, n \in Nat : m < n => m + 1 < n \/ n = m + 1
      OBVIOUS
    <3>1. Len(ns) + 1 < Len(name) \/ Len(name) = Len(ns) + 1
      BY <1>2, <2>0, <3>0
    <3>2. Len(name) = Len(ns) + 1 => name[Len(name)] \notin Blank
      BY <1>5, <1>7
    <3>3. ASSUME Len(name) = Len(ns) + 1
          PROVE  name[Len(ns) + 1] \notin Blank
      BY <3>2, <3>3
    <3> QED
      BY <3>1, <3>3
  <2> QED
    BY <1>4, <1>5, <1>7, <2>1, <2>2
<1> QED
  BY <1>6, <1>7 DEF ns

(* checkNamespace refuses what is not in the namespace, and a name that is *)
(* empty is never in it.                                                   *)
LEMMA NameIsSound ==
  ASSUME ext \in ExtensionChoice, ext.namespace # EmptyName,
         NEW name \in Name, NEW list, NEW at
  PROVE  name # EmptyName /\ NameFaults(name, list, at) = {} <=> InNamespace(name)
<1> DEFINE Outside == Problem("not in the namespace", list, at, <<>>)
           Only == Problem("only the prefix", list, at, <<>>)
           Blanks == \E b \in Blank : name = Append(ext.namespace, b)
<1>1. ext.namespace \in Seq(STRING) /\ name \in Seq(STRING) /\ ext.namespace # <<>>
  BY ExtensionAssumption DEF Name
<1>2. Blanks <=> /\ CarriesNamespace(ext.namespace, name)
                 /\ NothingFollows(ext.namespace, name)
  BY <1>1, OnlyPrefix
<1>3. name # EmptyName =>
        NameFaults(name, list, at) = When(~CarriesNamespace(ext.namespace, name), Outside)
                                       \union When(Blanks, Only)
  BY DEF NameFaults
<1>4. ~CarriesNamespace(ext.namespace, EmptyName)
  <2>1. Len(EmptyName) = 1
    BY DEF EmptyName
  <2>2. Len(ext.namespace) \in Nat /\ Len(ext.namespace) # 0
    BY <1>1, LenProperties, EmptySeq
  <2> QED
    BY <2>1, <2>2 DEF CarriesNamespace
<1> HIDE DEF Outside, Only, Blanks
<1>5. When(~CarriesNamespace(ext.namespace, name), Outside) \union When(Blanks, Only) = {}
        <=> CarriesNamespace(ext.namespace, name) /\ ~Blanks
  BY DEF When
<1> QED
  BY <1>2, <1>3, <1>4, <1>5, InNamespaceIs

(* How many sections there are is a number.                                *)
LEMMA SectionsCount ==
  ASSUME NEW info, IsInfo(info)
  PROVE  Cardinality(DOMAIN info) \in Nat
<1> DEFINE f == [k \in 1..Len(Keys) |-> Keys[k]]
<1>1. Len(Keys) \in Nat /\ DOMAIN Keys = 1..Len(Keys) /\ \A k \in 1..Len(Keys) : Keys[k] \in Key
  BY KeysType
<1>2. f \in Surjection(1..Len(Keys), Key)
  BY <1>1 DEF Surjection, Key
<1>3. IsFiniteSet(1..Len(Keys))
  BY <1>1, FS_Interval
<1> HIDE DEF f
<1>4. IsFiniteSet(Key)
  BY <1>2, <1>3, FS_Surjection
<1>5. DOMAIN info \in SUBSET Key
  BY DEF IsInfo
<1> QED
  BY <1>4, <1>5, FS_Subset, FS_CardinalityType

(* validateInfo finds nothing wrong with a section exactly when its key,   *)
(* title, content and position are allowed and no section before it has    *)
(* the position.                                                           *)
LEMMA KeyIsSound ==
  ASSUME NEW info, IsInfo(info), NEW key \in DOMAIN info, NEW list, NEW at
  PROVE  KeyFaults(info, key, list, at) = {} <=>
           /\ key \in GoodKey
           /\ info[key].title \notin Blank
           /\ info[key].parses
           /\ info[key].position >= 0
           /\ \A a \in DOMAIN info :
                FirstAt(info, a) /\ info[a].position = info[key].position => a = key
<1> DEFINE Bad == When(key \notin GoodKey, Problem("bad key", list, at, <<key>>))
           NoTitle == When(info[key].title \in Blank, Problem("no title", list, at, <<key>>))
           NoTemplate == When(~info[key].parses, Problem("not a template", list, at, <<key>>))
           Negative == When(info[key].position < 0,
                            Problem("negative position", list, at, <<key>>))
           Shared(a) == Problem("shared position", list, at, <<a, key>>)
           Sharing == {Shared(a) : a \in {a \in DOMAIN info :
                                            /\ FirstAt(info, a)
                                            /\ info[a].position = info[key].position
                                            /\ a # key}}
<1>1. KeyFaults(info, key, list, at) =
        Bad \union NoTitle \union NoTemplate \union Negative \union Sharing
  BY DEF KeyFaults
<1>2. /\ Bad = {} <=> key \in GoodKey
      /\ NoTitle = {} <=> info[key].title \notin Blank
      /\ NoTemplate = {} <=> info[key].parses
      /\ Negative = {} <=> ~(info[key].position < 0)
  BY NothingWhen
<1>3. ~(info[key].position < 0) <=> info[key].position >= 0
  <2>1. info[key].position \in Int
    BY DEF IsInfo, Section
  <2> QED
    BY <2>1
<1>4. Sharing = {} <=>
        \A a \in DOMAIN info :
          FirstAt(info, a) /\ info[a].position = info[key].position => a = key
  <2> HIDE DEF Shared
  <2> QED
    OBVIOUS
<1> HIDE DEF Bad, NoTitle, NoTemplate, Negative, Sharing
<1>5. Bad \union NoTitle \union NoTemplate \union Negative \union Sharing = {} <=>
        Bad = {} /\ NoTitle = {} /\ NoTemplate = {} /\ Negative = {} /\ Sharing = {}
  OBVIOUS
<1> QED
  BY <1>1, <1>2, <1>3, <1>4, <1>5

(* A kind's sections have no faults exactly when they are allowed.         *)
LEMMA SectionsAreSound ==
  ASSUME NEW info, IsInfo(info), NEW list, NEW at
  PROVE  SectionFaults(info, list, at) = {} <=> SectionsAllowed(info)
<1> DEFINE Alone(key) ==
             \A a \in DOMAIN info :
               FirstAt(info, a) /\ info[a].position = info[key].position => a = key
           Apart == \A a, b \in DOMAIN info : info[a].position = info[b].position => a = b
           Fine(key) == /\ key \in GoodKey
                        /\ info[key].title \notin Blank
                        /\ info[key].parses
                        /\ info[key].position >= 0
<1>1. SectionFaults(info, list, at) = {} <=>
        /\ TooMany(info, list, at) = {}
        /\ \A key \in DOMAIN info : KeyFaults(info, key, list, at) = {}
  <2> DEFINE K(key) == KeyFaults(info, key, list, at)
             U == UNION {K(key) : key \in DOMAIN info}
  <2>1. SectionFaults(info, list, at) = TooMany(info, list, at) \union U
    BY SectionFaultsAre
  <2>2. U = {} <=> \A key \in DOMAIN info : K(key) = {}
    <3> HIDE DEF K
    <3> QED
      OBVIOUS
  <2> HIDE DEF U
  <2>3. TooMany(info, list, at) \union U = {} <=> TooMany(info, list, at) = {} /\ U = {}
    OBVIOUS
  <2> QED
    BY <2>1, <2>2, <2>3
<1>2. TooMany(info, list, at) = {} <=> Cardinality(DOMAIN info) <= maxInfo
  <2>1. TooMany(info, list, at) = {} <=> ~(Cardinality(DOMAIN info) > maxInfo)
    BY NothingWhen DEF TooMany
  <2>2. Cardinality(DOMAIN info) \in Nat /\ maxInfo \in Nat
    BY SectionsCount, ExtensionAssumption
  <2> QED
    BY <2>1, <2>2
<1>3. \A key \in DOMAIN info :
        KeyFaults(info, key, list, at) = {} <=> Fine(key) /\ Alone(key)
  BY KeyIsSound
<1>4. ASSUME \A key \in DOMAIN info : Fine(key) /\ Alone(key)
      PROVE  Apart
  <2> SUFFICES ASSUME NEW a \in DOMAIN info, NEW b \in DOMAIN info,
                      info[a].position = info[b].position
               PROVE  a = b
    OBVIOUS
  <2>1. PICK c \in DOMAIN info : FirstAt(info, c) /\ info[c].position = info[a].position
    BY <1>4, FirstExists
  <2> QED
    BY <1>4, <2>1
<1>5. Apart => \A key \in DOMAIN info : Alone(key)
  OBVIOUS
<1>6. SectionsAllowed(info) <=>
        /\ Cardinality(DOMAIN info) <= maxInfo
        /\ \A key \in DOMAIN info : Fine(key)
        /\ Apart
  BY DEF SectionsAllowed
<1> HIDE DEF Alone, Apart, Fine
<1> QED
  BY <1>1, <1>2, <1>3, <1>4, <1>5, <1>6

(* The schema's own fields and its display kind.                           *)
LEMMA SchemaIsSound ==
  ASSUME ext \in ExtensionChoice
  PROVE  SchemaProblems(ext) \union NoDisplay = {} <=> SchemaAllowed
<1> DEFINE A == When(ext.name = "", Problem("no name", "schema", 0, <<>>))
           B == When(ext.version = "", Problem("no version", "schema", 0, <<>>))
           C == When(ext.namespace = EmptyName, Problem("no namespace", "schema", 0, <<>>))
           D == When(ext.nodeKinds = <<>>, Problem("no node kinds", "schema", 0, <<>>))
           Dark == /\ ext.nodeKinds # <<>>
                   /\ \A k \in DOMAIN ext.nodeKinds : ~ext.nodeKinds[k].display
<1>1. SchemaProblems(ext) = A \union B \union C \union D
  BY DEF SchemaProblems
<1>2. NoDisplay = {} <=> ~Dark
  BY NothingWhen DEF NoDisplay
<1>3. /\ A = {} <=> ext.name # ""
      /\ B = {} <=> ext.version # ""
      /\ C = {} <=> ext.namespace # EmptyName
      /\ D = {} <=> ext.nodeKinds # <<>>
  BY NothingWhen
<1> HIDE DEF A, B, C, D
<1>4. SchemaProblems(ext) \union NoDisplay = {} <=>
        A = {} /\ B = {} /\ C = {} /\ D = {} /\ NoDisplay = {}
  BY <1>1
<1>5. ext.nodeKinds # <<>> /\ ~Dark <=> \E k \in DOMAIN ext.nodeKinds : ext.nodeKinds[k].display
  <2>1. ext.nodeKinds = <<>> => DOMAIN ext.nodeKinds = {}
    BY SchemaType DEF NodeKinds
  <2> QED
    BY <2>1
<1> QED
  BY <1>2, <1>3, <1>4, <1>5 DEF SchemaAllowed

(* A kind without faults: in the namespace, its sections allowed, and no   *)
(* kind before it has its name.                                            *)
LEMMA KindIsSound ==
  ASSUME ext \in ExtensionChoice, ext.namespace # EmptyName, NEW k \in DOMAIN Kinds
  PROVE  KindFaults(k) = {} <=> /\ InNamespace(Kinds[k].name)
                                /\ SectionsAllowed(Kinds[k].info)
                                /\ \A j \in 1..(k - 1) : Kinds[j].name # Kinds[k].name
<1> DEFINE name == Kinds[k].name
           A == NameFaults(name, ListOf(k), PlaceOf(k))
           S == SectionFaults(Kinds[k].info, ListOf(k), PlaceOf(k))
           B == When(name = EmptyName, Problem("empty name", ListOf(k), PlaceOf(k), <<>>))
           Again == /\ name # EmptyName
                    /\ \E j \in 1..(k - 1) : Kinds[j].name = name
           C == When(Again, Problem("duplicate name", ListOf(k), PlaceOf(k), <<>>))
<1>1. KindFaults(k) = A \union S \union B \union C
  BY DEF KindFaults
<1>2. IsKind(Kinds[k]) /\ IsInfo(Kinds[k].info)
  BY SchemaType
<1>3. name \in Name
  BY <1>2 DEF IsKind
<1>4. S = {} <=> SectionsAllowed(Kinds[k].info)
  BY <1>2, SectionsAreSound
<1>5. B = {} <=> name # EmptyName
  BY NothingWhen
<1>6. C = {} <=> ~Again
  BY NothingWhen
<1>7. name # EmptyName /\ A = {} <=> InNamespace(name)
  BY <1>3, NameIsSound
<1> HIDE DEF A, S, B, C
<1>8. KindFaults(k) = {} <=> A = {} /\ S = {} /\ B = {} /\ C = {}
  BY <1>1
<1> QED
  BY <1>4, <1>5, <1>6, <1>7, <1>8

(* An environment without faults.                                          *)
LEMMA EnvironmentIsSound ==
  ASSUME ext \in ExtensionChoice, ext.namespace # EmptyName, NEW k \in DOMAIN ext.environments
  PROVE  EnvironmentFaults(k) = {} <=> EnvironmentAllowed(ext.environments[k])
<1> DEFINE env == ext.environments[k]
           A == NameFaults(env.kind, "environment", k)
           B == When(env.kind = EmptyName,
                     Problem("empty environment kind", "environment", k, <<>>))
           C == When(env.principals = <<>>, Problem("no principals", "environment", k, <<>>))
           Unknown(m) == \A j \in DOMAIN ext.nodeKinds :
                           ext.nodeKinds[j].name # env.principals[m]
           Missing(m) == Problem("undeclared principal", "environment", k, <<m>>)
           U == {Missing(m) : m \in {m \in DOMAIN env.principals : Unknown(m)}}
<1>1. EnvironmentFaults(k) = A \union B \union C \union U
  BY DEF EnvironmentFaults
<1>2. env.kind \in Name
  BY SchemaType
<1>3. env.kind # EmptyName /\ A = {} <=> InNamespace(env.kind)
  BY <1>2, NameIsSound
<1>4. /\ B = {} <=> env.kind # EmptyName
      /\ C = {} <=> env.principals # <<>>
  BY NothingWhen
<1>5. U = {} <=> \A m \in DOMAIN env.principals : ~Unknown(m)
  <2> HIDE DEF Missing, Unknown
  <2> QED
    OBVIOUS
<1>6. \A m : ~Unknown(m) <=> env.principals[m] \in declaredNodeKinds
  BY DEF declaredNodeKinds
<1>7. EnvironmentAllowed(env) <=>
        /\ InNamespace(env.kind)
        /\ env.principals # <<>>
        /\ \A m \in DOMAIN env.principals : env.principals[m] \in declaredNodeKinds
  BY DEF EnvironmentAllowed
<1> HIDE DEF A, B, C, U, Unknown
<1>8. EnvironmentFaults(k) = {} <=> A = {} /\ B = {} /\ C = {} /\ U = {}
  BY <1>1
<1> QED
  BY <1>3, <1>4, <1>5, <1>6, <1>7, <1>8

(* No name twice: a kind is held to the kinds before it (validate.go:146), *)
(* so that of two with one name the later one is found.                    *)
LEMMA NamesApart ==
  ASSUME ext \in ExtensionChoice
  PROVE  (\A k \in DOMAIN Kinds : \A j \in 1..(k - 1) : Kinds[j].name # Kinds[k].name)
           <=> \A k, j \in DOMAIN Kinds : Kinds[j].name = Kinds[k].name => j = k
<1>1. DOMAIN Kinds = 1..Len(Kinds) /\ Len(Kinds) \in Nat
  BY SchemaType
<1>2. \A k, j \in DOMAIN Kinds : j \in 1..(k - 1) \/ k \in 1..(j - 1) \/ j = k
  BY <1>1
<1>3. \A k \in DOMAIN Kinds : \A j \in 1..(k - 1) : j \in DOMAIN Kinds /\ j # k
  BY <1>1
<1> QED
  BY <1>2, <1>3

LEMMA AcceptedByTheRules ==
  ASSUME IInv
  PROVE  AcceptsByTheRules
<1> SUFFICES ASSUME pc = "done"
             PROVE  problems = {} <=>
                      /\ SchemaAllowed
                      /\ \A k \in DOMAIN Kinds : KindAllowed(k)
                      /\ \A k \in DOMAIN ext.environments :
                           EnvironmentAllowed(ext.environments[k])
  BY DEF AcceptsByTheRules
<1>1. ext \in ExtensionChoice
  BY DEF IInv, Bounds
<1>2. problems = {} <=>
        /\ SchemaProblems(ext) \union NoDisplay = {}
        /\ \A k \in DOMAIN Kinds : KindFaults(k) = {}
        /\ \A k \in DOMAIN ext.environments : EnvironmentFaults(k) = {}
  <2>1. problems = SchemaProblems(ext) \union NoDisplay \union AllKindFaults
                     \union AllEnvironmentFaults
    BY AllReported DEF AllFaults
  <2>2. AllKindFaults = {} <=> \A k \in DOMAIN Kinds : KindFaults(k) = {}
    BY DEF AllKindFaults
  <2>3. AllEnvironmentFaults = {} <=>
          \A k \in DOMAIN ext.environments : EnvironmentFaults(k) = {}
    BY DEF AllEnvironmentFaults
  <2>4. problems = {} <=> /\ SchemaProblems(ext) \union NoDisplay = {}
                          /\ AllKindFaults = {}
                          /\ AllEnvironmentFaults = {}
    BY <2>1
  <2> QED
    BY <2>2, <2>3, <2>4
<1>3. SchemaProblems(ext) \union NoDisplay = {} <=> SchemaAllowed
  BY <1>1, SchemaIsSound
<1>4. SchemaAllowed => ext.namespace # EmptyName
  BY DEF SchemaAllowed
<1>5. ASSUME ext.namespace # EmptyName
      PROVE  /\ (\A k \in DOMAIN Kinds : KindFaults(k) = {})
                  <=> \A k \in DOMAIN Kinds : KindAllowed(k)
             /\ (\A k \in DOMAIN ext.environments : EnvironmentFaults(k) = {})
                  <=> \A k \in DOMAIN ext.environments :
                        EnvironmentAllowed(ext.environments[k])
  <2>1. \A k \in DOMAIN Kinds :
          KindFaults(k) = {} <=> /\ InNamespace(Kinds[k].name)
                                 /\ SectionsAllowed(Kinds[k].info)
                                 /\ \A j \in 1..(k - 1) : Kinds[j].name # Kinds[k].name
    BY <1>1, <1>5, KindIsSound
  <2>2. \A k \in DOMAIN Kinds :
          KindAllowed(k) <=> /\ InNamespace(Kinds[k].name)
                             /\ SectionsAllowed(Kinds[k].info)
                             /\ \A j \in DOMAIN Kinds : Kinds[j].name = Kinds[k].name => j = k
    BY DEF KindAllowed
  <2>3. (\A k \in DOMAIN Kinds : \A j \in 1..(k - 1) : Kinds[j].name # Kinds[k].name)
          <=> \A k \in DOMAIN Kinds : \A j \in DOMAIN Kinds :
                Kinds[j].name = Kinds[k].name => j = k
    BY <1>1, NamesApart
  <2>4. \A k \in DOMAIN ext.environments :
          EnvironmentFaults(k) = {} <=> EnvironmentAllowed(ext.environments[k])
    BY <1>1, <1>5, EnvironmentIsSound
  <2> QED
    BY <2>1, <2>2, <2>3, <2>4
<1> QED
  BY <1>2, <1>3, <1>4, <1>5

-----------------------------------------------------------------------------
(* The loops of Extension.Validate stay inside their lists, count no more  *)
(* display kinds than there are node kinds, and no section's position is   *)
(* remembered for two keys, whatever the schema (validate.go:112-186).     *)
THEOREM TypeCorrect == Spec => []TypeOK
<1>1. IInv => TypeOK
  <2> SUFFICES ASSUME IInv PROVE TypeOK
    OBVIOUS
  <2>1. /\ ext \in ExtensionChoice /\ i \in Nat /\ 1 <= i
        /\ pc \in {"schema", "nodeKind", "relationshipKind", "environment", "done"}
    BY DEF IInv, Bounds
  <2>2. /\ Len(NodeKinds) \in Nat /\ Len(RelKinds) \in Nat
        /\ Len(Kinds) = Len(NodeKinds) + Len(RelKinds)
    BY <2>1, SchemaType
  <2>3. /\ Len(ext.nodeKinds) \in Nat /\ DOMAIN ext.nodeKinds = 1..Len(ext.nodeKinds)
        /\ Len(ext.relationshipKinds) \in Nat
        /\ DOMAIN ext.relationshipKinds = 1..Len(ext.relationshipKinds)
        /\ Len(Kinds) = Len(ext.nodeKinds) + Len(ext.relationshipKinds)
        /\ Len(ext.environments) \in Nat
        /\ \A k \in 1..Len(ext.nodeKinds) : Kinds[k] = ext.nodeKinds[k]
        /\ \A k \in 1..Len(ext.relationshipKinds) :
             Kinds[Len(ext.nodeKinds) + k] = ext.relationshipKinds[k]
    BY <2>1, SchemaType DEF NodeKinds, RelKinds
  <2>4. i \in 1..(Len(Elements) + 1)
    <3>1. /\ pc = "nodeKind" => Elements = ext.nodeKinds
          /\ pc = "relationshipKind" => Elements = ext.relationshipKinds
          /\ pc = "environment" => Elements = ext.environments
          /\ pc \in {"schema", "done"} => Elements = <<>>
      BY ElementsAre DEF NodeKinds, RelKinds
    <3>2. Len(Elements) \in Nat /\ i <= Len(Elements) + 1
      BY <2>1, <2>3, <3>1 DEF IInv, Bounds
    <3> QED
      BY <2>1, <3>2
  <2>5. Looked \in Nat /\ Looked <= Len(Kinds)
    <3>1. /\ pc = "nodeKind" => i <= Len(NodeKinds) + 1
          /\ pc = "relationshipKind" => i <= Len(RelKinds) + 1
      BY DEF IInv, Bounds, NodeKinds, RelKinds
    <3>2. CASE pc = "schema"
      BY <2>2, <3>2 DEF Looked
    <3>3. CASE pc = "nodeKind"
      BY <2>1, <2>2, <3>1, <3>3 DEF Looked
    <3>4. CASE pc = "relationshipKind"
      BY <2>1, <2>2, <3>1, <3>4 DEF Looked
    <3>5. CASE pc \in {"environment", "done"}
      BY <2>2, <3>5 DEF Looked
    <3> QED
      BY <2>1, <3>2, <3>3, <3>4, <3>5
  <2>6. seen \subseteq declaredNodeKinds
          \union {ext.relationshipKinds[k].name : k \in DOMAIN ext.relationshipKinds}
    <3> SUFFICES ASSUME NEW name \in seen
                 PROVE  \/ name \in declaredNodeKinds
                        \/ \E k \in DOMAIN ext.relationshipKinds :
                             name = ext.relationshipKinds[k].name
      OBVIOUS
    <3>1. PICK j \in Nat : 1 <= j /\ j <= Looked /\ Kinds[j].name = name
      BY <2>5 DEF IInv, NamesSeen
    <3>2. j \in Nat /\ 1 <= j /\ j <= Len(Kinds)
      BY <2>2, <2>5, <3>1
    <3>4. \/ j \in 1..Len(NodeKinds)
          \/ /\ j - Len(NodeKinds) \in 1..Len(RelKinds)
             /\ Len(NodeKinds) + (j - Len(NodeKinds)) = j
      BY <2>2, <3>2
    <3>5. CASE j \in 1..Len(NodeKinds)
      BY <2>3, <3>1, <3>5 DEF declaredNodeKinds, NodeKinds
    <3>6. CASE /\ j - Len(NodeKinds) \in 1..Len(RelKinds)
               /\ Len(NodeKinds) + (j - Len(NodeKinds)) = j
      <4>1. Kinds[j] = RelKinds[j - Len(NodeKinds)]
        BY <2>1, <3>6, SchemaType
      <4>2. j - Len(NodeKinds) \in DOMAIN RelKinds
        BY <2>1, <3>6, SchemaType
      <4> QED
        BY <3>1, <4>1, <4>2 DEF RelKinds
    <3> QED
      BY <3>4, <3>5, <3>6
  <2>7. displayKinds \in 0..Len(ext.nodeKinds)
    BY <2>3 DEF IInv, Displays, NodeKinds
  <2> QED
    BY <2>1, <2>4, <2>6, <2>7 DEF TypeOK, IInv, TakenOnce
<1> QED
  BY <1>1, Invariance, PTL

(* Extension.Validate reports all that is wrong with a schema, and nothing *)
(* else, for every schema and every order of its keys (validate.go:11).    *)
THEOREM ReportComplete == Spec => []ReportsEveryProblem
BY Invariance, ReportIsComplete, PTL

(* Extension.Validate accepts exactly the schemas that meet the rules of   *)
(* the install it checks, whatever the size of the schema, its names and   *)
(* its sections (validate.go:101-106, 138, 190-201).                       *)
THEOREM AcceptedMeetsRules == Spec => []AcceptsByTheRules
BY Invariance, AcceptedByTheRules, PTL
=============================================================================
