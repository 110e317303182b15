-------------------------- MODULE Document_proofs --------------------------
(***************************************************************************)
(* Proofs about the streaming writer and the two programs that run it:     *)
(* PayloadFile, over a file, and Upload, over a spool and a signer, alone  *)
(* and inside IngestUpload.  They hold for every set of graphs, every      *)
(* threshold and every clock, and for a file system, a transport and a     *)
(* server that do what they like.  What the programs have in common is in  *)
(* the first part, the lemmas about the document.                          *)
(***************************************************************************)
EXTENDS IngestUpload, PayloadFile, SequenceTheorems, WellFoundedInduction, TLAPS

-----------------------------------------------------------------------------
(***************************************************************************)
(* The document, call by call.  FlattenSeq is a recursive function, which  *)
(* is the one its equation describes only if there is such a function:     *)
(* that, and what it returns, are shown by induction, from the fact that   *)
(* the naturals are well founded.                                          *)
(***************************************************************************)
(* A set that holds 0 and is closed under successor holds every natural.   *)
LEMMA Induction ==
  ASSUME NEW S, 0 \in S, \A m \in Nat : m \in S => m + 1 \in S
  PROVE  Nat \subseteq S
<1> DEFINE R == OpToRel(<, Nat)
           T == Nat \ S
<1> SUFFICES ASSUME T # {} PROVE FALSE
  OBVIOUS
<1>1. IsWellFoundedOn(R, Nat)
  BY NatLessThanWellFounded
<1>2. \A k, m \in Nat : k < m => <<k, m>> \in R
  BY DEF OpToRel
<1> HIDE DEF R
<1>3. PICK m \in T : \A k \in T : <<k, m>> \notin R
  BY <1>1, WFMin
<1>4. m \in Nat /\ m # 0 /\ m - 1 \in Nat /\ m - 1 < m
  BY <1>3
<1>5. m - 1 \in T
  BY <1>3, <1>4
<1> QED
  BY <1>2, <1>3, <1>4, <1>5

-----------------------------------------------------------------------------
Joined(s, N, f) ==
  f = [i \in 1..N |-> IF i = 1 THEN s[i] ELSE f[i - 1] \o s[i]]

(* The recursion of FlattenSeq has a solution.                             *)
LEMMA JoinExists ==
  ASSUME NEW s
  PROVE  \A N \in Nat : \E f : Joined(s, N, f)
<1> DEFINE S == {N \in Nat : \E f : Joined(s, N, f)}
<1>1. 0 \in S
  <2>1. Joined(s, 0, [i \in 1..0 |-> <<>>])
    BY DEF Joined
  <2> QED
    BY <2>1
<1>2. ASSUME NEW N \in Nat, N \in S PROVE N + 1 \in S
  <2>1. PICK f : Joined(s, N, f)
    BY <1>2
  <2> DEFINE g == [i \in 1..(N + 1) |-> IF i = 1 THEN s[i] ELSE f[i - 1] \o s[i]]
  <2>2. \A i \in 1..N : g[i] = f[i]
    <3> TAKE i \in 1..N
    <3>1. f[i] = IF i = 1 THEN s[i] ELSE f[i - 1] \o s[i]
      BY <2>1 DEF Joined
    <3> QED
      BY <3>1
  <2>3. \A i \in 1..(N + 1) : i # 1 => i - 1 \in 1..N
    OBVIOUS
  <2>4. Joined(s, N + 1, g)
    BY <2>2, <2>3 DEF Joined
  <2> QED
    BY <2>4
<1> HIDE DEF S
<1>3. Nat \subseteq S
  BY <1>1, <1>2, Induction
<1> QED
  BY <1>3 DEF S

Texts(g) == [i \in DOMAIN WriteTo(g) |-> WriteTo(g)[i].text]

JoinedTexts(g) == CHOOSE f : Joined(Texts(g), Len(WriteTo(g)), f)

(* What the first k calls write.                                           *)
Written(g, k) == IF k = 0 THEN <<>> ELSE JoinedTexts(g)[k]

CallsOver(L) == [text : Seq(L), encodes : BOOLEAN, encodable : BOOLEAN]

LEMMA HalfWay ==
  ASSUME NEW len \in Nat
  PROVE  /\ 2 * len \in Int
         /\ \A i \in 2..(2 * len) : i \div 2 \in 1..len /\ i \in 1..(2 * len)
OBVIOUS

(* A literal is a call, with a text of one letter.                         *)
LEMMA LiteralType ==
  ASSUME NEW L, NEW s \in L
  PROVE  Literal(<<s>>) \in CallsOver(L)
<1>1. <<s>> \in Seq(L)
  OBVIOUS
<1> QED
  BY <1>1, Zenon DEF Literal, CallsOver

LEMMA ElementType ==
  ASSUME NEW L, NEW e \in ElementsOver(L)
  PROVE  Element(e) \in CallsOver(L)
<1>1. e.text \in Seq(L) /\ e.encodable \in BOOLEAN
  BY DEF ElementsOver
<1> QED
  BY <1>1, Zenon DEF Element, CallsOver

LEMMA WithCommasType ==
  ASSUME NEW L, "comma" \in L, NEW es \in Seq(ElementsOver(L))
  PROVE  WithCommas(es) \in Seq(CallsOver(L))
<1> DEFINE len == Len(es)
           last == 2 * len
           c == [i \in 1..last |->
                   IF i % 2 = 1 THEN Literal(<<"comma">>) ELSE Element(es[i \div 2])]
<1>1. len \in Nat
  BY LenProperties
<1> HIDE DEF len
<1>2. ASSUME NEW i \in 2..last PROVE c[i] \in CallsOver(L)
  <2>1. i \div 2 \in 1..len /\ i \in 1..last
    BY <1>1, HalfWay, Zenon
  <2>2. Element(es[i \div 2]) \in CallsOver(L)
    BY <2>1, ElementOfSeq, ElementType DEF len
  <2>3. Literal(<<"comma">>) \in CallsOver(L)
    BY LiteralType
  <2> QED
    BY <2>1, <2>2, <2>3, Zenon
<1>3. last \in Int
  BY <1>1, HalfWay, Zenon
<1> HIDE DEF c, last
<1>4. SubSeq(c, 2, last) \in Seq(CallsOver(L))
  <2>1. \A i \in 2..last : c[i] \in CallsOver(L)
    BY <1>2
  <2>2. 2 \in Int
    OBVIOUS
  <2> QED
    BY <1>3, <2>1, <2>2, SubSeqProperties, SMT
<1> QED
  BY <1>4 DEF WithCommas, c, last, len

LEMMA WriteToType ==
  ASSUME NEW L, WritesIn(L), NEW g \in GraphChoice
  PROVE  /\ WriteTo(g) \in Seq(CallsOver(L))
         /\ Len(WriteTo(g)) \in Nat \ {0}
<1> DEFINE C == CallsOver(L)
<1>1. /\ g.nodes \in Seq(ElementsOver(L))
      /\ g.edges \in Seq(ElementsOver(L))
      /\ "comma" \in L /\ "head" \in L /\ "mid" \in L /\ "tail" \in L
  BY DEF WritesIn
<1>2. WithCommas(g.nodes) \in Seq(C) /\ WithCommas(g.edges) \in Seq(C)
  BY <1>1, WithCommasType
<1>3. ASSUME NEW s \in {"head", "mid", "tail"}
      PROVE  <<Literal(<<s>>)>> \in Seq(C) /\ Len(<<Literal(<<s>>)>>) = 1
  <2>1. Literal(<<s>>) \in C
    BY <1>1, LiteralType
  <2> HIDE DEF C
  <2> QED
    BY <2>1
<1> DEFINE h == <<Literal(<<"head">>)>>
           m == <<Literal(<<"mid">>)>>
           t == <<Literal(<<"tail">>)>>
           a == h \o WithCommas(g.nodes)
           b == a \o m
           d == b \o WithCommas(g.edges)
<1> HIDE DEF C
<1>4. /\ h \in Seq(C) /\ Len(h) = 1
      /\ m \in Seq(C) /\ Len(m) = 1
      /\ t \in Seq(C) /\ Len(t) = 1
  BY <1>3
<1> HIDE DEF h, m, t
<1>5. \A x, y \in Seq(C) : Len(x) >= 1 => x \o y \in Seq(C) /\ Len(x \o y) >= 1
  BY ConcatProperties, LenProperties
<1>6. a \in Seq(C) /\ Len(a) >= 1
  BY <1>2, <1>4, <1>5
<1> HIDE DEF a
<1>7. b \in Seq(C) /\ Len(b) >= 1
  BY <1>4, <1>5, <1>6
<1> HIDE DEF b
<1>8. d \in Seq(C) /\ Len(d) >= 1
  BY <1>2, <1>5, <1>7
<1> HIDE DEF d
<1>9. d \o t \in Seq(C) /\ Len(d \o t) \in Nat \ {0}
  BY <1>4, <1>5, <1>8, LenProperties
<1> QED
  BY <1>9 DEF WriteTo, C, a, b, d, h, m, t

LEMMA TextsJoin ==
  ASSUME NEW L, WritesIn(L), NEW g \in GraphChoice
  PROVE  /\ Joined(Texts(g), Len(WriteTo(g)), JoinedTexts(g))
         /\ Document(g) = Written(g, Len(WriteTo(g)))
<1> DEFINE N == Len(WriteTo(g))
<1>1. N \in Nat \ {0} /\ DOMAIN WriteTo(g) = 1..N
  BY WriteToType, LenProperties
<1>2. Joined(Texts(g), N, JoinedTexts(g))
  <2>1. \E f : Joined(Texts(g), N, f)
    BY <1>1, JoinExists
  <2> QED
    BY <2>1, Zenon DEF JoinedTexts
<1>3. Len(Texts(g)) = N
  BY <1>1 DEF Texts
<1>4. FlattenSeq(Texts(g)) = JoinedTexts(g)[N]
  BY <1>1, <1>3 DEF FlattenSeq, JoinedTexts, Joined
<1> QED
  BY <1>1, <1>2, <1>4 DEF Document, Texts, Written

(* Each call adds its text, and the calls together write the document.     *)
LEMMA WrittenStep ==
  ASSUME NEW L, WritesIn(L), NEW g \in GraphChoice,
         NEW k \in 1..Len(WriteTo(g))
  PROVE  /\ Written(g, k) = Written(g, k - 1) \o WriteTo(g)[k].text
         /\ WriteTo(g)[k] \in CallsOver(L)
<1> DEFINE f == JoinedTexts(g)
           N == Len(WriteTo(g))
<1>1. WriteTo(g) \in Seq(CallsOver(L)) /\ N \in Nat /\ DOMAIN WriteTo(g) = 1..N
  BY WriteToType, LenProperties
<1>2. WriteTo(g)[k] \in CallsOver(L)
  BY <1>1, ElementOfSeq
<1>3. Texts(g)[k] = WriteTo(g)[k].text
  BY <1>1 DEF Texts
<1>4. f[k] = IF k = 1 THEN Texts(g)[k] ELSE f[k - 1] \o Texts(g)[k]
  BY TextsJoin DEF Joined
<1>5. WriteTo(g)[k].text \in Seq(L)
  BY <1>2 DEF CallsOver
<1>6. CASE k = 1
  <2>1. Written(g, k - 1) = <<>>
    BY <1>6 DEF Written
  <2>2. f[k] = WriteTo(g)[k].text
    BY <1>3, <1>4, <1>6
  <2>3. <<>> \o WriteTo(g)[k].text = WriteTo(g)[k].text
    BY <1>5, ConcatEmptySeq
  <2> QED
    BY <1>2, <1>6, <2>1, <2>2, <2>3 DEF Written
<1>7. CASE k # 1
  <2>1. k - 1 # 0 /\ k # 0 /\ k # 1
    BY <1>7
  <2> HIDE DEF f
  <2>2. f[k] = f[k - 1] \o WriteTo(g)[k].text
    BY <1>3, <1>4, <2>1
  <2> QED
    BY <1>2, <2>1, <2>2 DEF Written, f
<1> QED
  BY <1>6, <1>7

LEMMA WrittenType ==
  ASSUME NEW L, WritesIn(L), NEW g \in GraphChoice
  PROVE  \A k \in 0..Len(WriteTo(g)) : Written(g, k) \in Seq(L)
<1> DEFINE N == Len(WriteTo(g))
           S == {k \in Nat : k <= N => Written(g, k) \in Seq(L)}
<1>1. 0 \in S
  BY EmptySeq DEF Written
<1>2. ASSUME NEW k \in Nat, k \in S PROVE k + 1 \in S
  <2> SUFFICES ASSUME k + 1 <= N PROVE Written(g, k + 1) \in Seq(L)
    OBVIOUS
  <2>1. N \in Nat
    BY WriteToType
  <2>2. k + 1 \in 1..N /\ k <= N /\ (k + 1) - 1 = k
    BY <2>1
  <2>3. /\ Written(g, k + 1) = Written(g, k) \o WriteTo(g)[k + 1].text
        /\ WriteTo(g)[k + 1] \in CallsOver(L)
    BY <2>2, WrittenStep
  <2>4. Written(g, k) \in Seq(L)
    BY <1>2, <2>2
  <2> QED
    BY <2>3, <2>4, ConcatProperties DEF CallsOver
<1> HIDE DEF S
<1>3. Nat \subseteq S
  BY <1>1, <1>2, Induction
<1> QED
  BY <1>3, WriteToType DEF S

-----------------------------------------------------------------------------
(***************************************************************************)
(* PayloadFile: what the file holds is always a beginning of the document, *)
(* from which the rest can still be written.                               *)
(***************************************************************************)
Begins(s, t) == \E rest \in Seq(Letter) : t = s \o rest

LEMMA BeginsIsPrefix ==
  ASSUME NEW s \in Seq(Letter), NEW t, Begins(s, t)
  PROVE  IsPrefix(s, t)
<1>1. PICK rest \in Seq(Letter) : t = s \o rest
  BY DEF Begins
<1>2. t \in Seq(Letter) /\ Len(t) = Len(s) + Len(rest)
  BY <1>1, ConcatProperties
<1>3. Len(s) \in Nat /\ Len(rest) \in Nat
  BY <1>1, LenProperties
<1>4. SubSeq(s, 1, Len(s)) = s /\ SubSeq(t, 1, Len(s)) = s
  BY <1>1, SubSeqFull, SubSeqOfConcat1
<1> QED
  BY <1>2, <1>3, <1>4 DEF IsPrefix

LEMMA BeginsTransitive ==
  ASSUME NEW s \in Seq(Letter), NEW t \in Seq(Letter), NEW u,
         Begins(s, t), Begins(t, u)
  PROVE  Begins(s, u)
<1>1. PICK r1 \in Seq(Letter) : t = s \o r1
  BY DEF Begins
<1>2. PICK r2 \in Seq(Letter) : u = t \o r2
  BY DEF Begins
<1>3. r1 \o r2 \in Seq(Letter) /\ u = s \o (r1 \o r2)
  BY <1>1, <1>2, ConcatProperties, ConcatAssociative
<1> QED
  BY <1>3 DEF Begins

(* A part of a text begins it, and so it does after what was written.      *)
LEMMA PartBegins ==
  ASSUME NEW s \in Seq(Letter), NEW p \in Seq(Letter), NEW k \in 0..Len(p)
  PROVE  /\ SubSeq(p, 1, k) \in Seq(Letter) /\ Len(SubSeq(p, 1, k)) = k
         /\ Begins(s \o SubSeq(p, 1, k), s \o p)
<1> DEFINE a == SubSeq(p, 1, k)
           b == SubSeq(p, k + 1, Len(p))
<1>1. Len(p) \in Nat /\ k \in Nat /\ \A j \in 1..Len(p) : p[j] \in Letter
  BY LenProperties, ElementOfSeq
<1>2. a \in Seq(Letter) /\ Len(a) = k
  BY <1>1, SubSeqProperties
<1>3. b \in Seq(Letter)
  BY <1>1, SubSeqProperties
<1>4. a \o b = p
  <2>1. /\ 1 \in 1..(Len(p) + 1) /\ k \in (1 - 1)..Len(p)
        /\ Len(p) \in k..Len(p)
    BY <1>1
  <2>2. a \o b = SubSeq(p, 1, Len(p))
    BY <2>1, ConcatAdjacentSubSeq, Zenon
  <2> QED
    BY <2>2, SubSeqFull, Zenon
<1> HIDE DEF a, b
<1>5. s \o p = (s \o a) \o b
  <2>1. (s \o a) \o b = s \o (a \o b)
    BY <1>2, <1>3, ConcatAssociative
  <2> QED
    BY <1>4, <2>1, Zenon
<1>6. Begins(s \o a, s \o p)
  BY <1>3, <1>5 DEF Begins
<1> QED
  BY <1>2, <1>6 DEF a

(* The rest of the document comes after what the first calls wrote.        *)
LEMMA WrittenBegins ==
  ASSUME NEW g \in GraphChoice
  PROVE  \A k \in 0..Len(WriteTo(g)) : Begins(Written(g, k), Document(g))
<1> DEFINE N == Len(WriteTo(g))
           S == {d \in Nat : \A k \in 0..N : k + d = N => Begins(Written(g, k), Document(g))}
<1>1. WritesIn(Letter) /\ N \in Nat /\ Document(g) = Written(g, N)
  BY PayloadFileAssumption, WriteToType, TextsJoin
<1>2. \A k \in 0..N : Written(g, k) \in Seq(Letter)
  BY <1>1, WrittenType
<1> HIDE DEF N
<1>3. 0 \in S
  <2>1. Written(g, N) = Written(g, N) \o <<>> /\ <<>> \in Seq(Letter)
    BY <1>1, <1>2, ConcatEmptySeq, EmptySeq
  <2>2. Begins(Written(g, N), Document(g))
    BY <1>1, <2>1 DEF Begins
  <2> QED
    BY <1>1, <2>2
<1>4. ASSUME NEW d \in Nat, d \in S PROVE d + 1 \in S
  <2> SUFFICES ASSUME NEW k \in 0..N, k + (d + 1) = N
               PROVE  Begins(Written(g, k), Document(g))
    OBVIOUS
  <2>1. k + 1 \in 1..N /\ k + 1 \in 0..N /\ (k + 1) - 1 = k /\ (k + 1) + d = N
    BY <1>1
  <2>2. /\ Written(g, k + 1) = Written(g, k) \o WriteTo(g)[k + 1].text
        /\ WriteTo(g)[k + 1].text \in Seq(Letter)
    BY <1>1, <2>1, WrittenStep DEF N, CallsOver
  <2>3. Begins(Written(g, k), Written(g, k + 1))
    BY <2>2 DEF Begins
  <2>4. Begins(Written(g, k + 1), Document(g))
    BY <1>4, <2>1
  <2> QED
    BY <1>2, <2>1, <2>3, <2>4, BeginsTransitive
<1> HIDE DEF S
<1>5. Nat \subseteq S
  BY <1>3, <1>4, Induction
<1>6. ASSUME NEW k \in 0..N PROVE Begins(Written(g, k), Document(g))
  <2>1. N - k \in Nat /\ k + (N - k) = N
    BY <1>1
  <2> QED
    BY <1>5, <2>1 DEF S
<1> QED
  BY <1>6 DEF N

FileTypeOK ==
  /\ graph \in GraphChoice
  /\ step \in 1..(Len(WriteTo(graph)) + 1)
  /\ gwErr \in BOOLEAN
  /\ run \in {"validate", "create", "write", "close", "done", "failed"}

WholeFile == payload = Document(graph) /\ gwN = Len(payload) /\ valid

(* Nothing is written before the file is there; then what is written is    *)
(* counted, and until something fails it is what the calls so far wrote.   *)
FileInv ==
  /\ FileTypeOK
  /\ run \in {"validate", "create"} =>
       step = 1 /\ ~gwErr /\ gwN = 0 /\ payload = held
  /\ run = "create" => valid
  /\ run = "write" =>
       /\ valid
       /\ payload \in Seq(Letter)
       /\ gwN = Len(payload)
       /\ Begins(payload, Document(graph))
       /\ ~gwErr => payload = Written(graph, step - 1)
  /\ run \in {"close", "done"} => WholeFile
  /\ run = "failed" => payload = held \/ IsPrefix(payload, Document(graph))

LEMMA GraphFacts ==
  ASSUME NEW g \in GraphChoice
  PROVE  /\ Len(WriteTo(g)) \in Nat \ {0}
         /\ Document(g) \in Seq(Letter)
         /\ Document(g) = Written(g, Len(WriteTo(g)))
         /\ \A k \in 0..Len(WriteTo(g)) : Written(g, k) \in Seq(Letter)
<1>1. WritesIn(Letter)
  BY PayloadFileAssumption
<1>2. Len(WriteTo(g)) \in 0..Len(WriteTo(g)) /\ Len(WriteTo(g)) \in Nat \ {0}
  BY <1>1, WriteToType
<1> QED
  BY <1>1, <1>2, TextsJoin, WrittenType

LEMMA FileInitInv == FileInit => FileInv
<1> SUFFICES ASSUME FileInit PROVE FileInv
  OBVIOUS
<1>1. graph \in GraphChoice /\ step = 1
  BY DEF FileInit, GwInit
<1>2. step \in 1..(Len(WriteTo(graph)) + 1)
  BY <1>1, GraphFacts
<1> QED
  BY <1>1, <1>2 DEF FileInit, GwInit, FileInv, FileTypeOK

LEMMA FileWriteTextInv == FileInv /\ FileWriteText => FileInv'
<1> SUFFICES ASSUME FileInv, FileWriteText PROVE FileInv'
  OBVIOUS
<1> DEFINE t == Call.text
<1>1. /\ run = "write" /\ Unfinished /\ ~gwErr
      /\ gwN' = gwN + Len(t) /\ step' = step + 1
      /\ payload' = payload \o t
      /\ UNCHANGED <<graph, gwErr, run, valid, held>>
  BY DEF FileWriteText, GwWrites, Reaches
<1>2. graph \in GraphChoice /\ step \in 1..Len(WriteTo(graph)) /\ step - 1 \in Nat
  BY <1>1, GraphFacts DEF FileInv, FileTypeOK, Unfinished
<1>3. /\ Written(graph, step) = Written(graph, step - 1) \o t
      /\ t \in Seq(Letter)
  BY <1>2, WrittenStep, PayloadFileAssumption DEF Call, CallsOver
<1> HIDE DEF t
<1>4. payload \in Seq(Letter) /\ payload = Written(graph, step - 1) /\ gwN = Len(payload)
  BY <1>1 DEF FileInv
<1>5. payload' = Written(graph, step)
  BY <1>1, <1>3, <1>4
<1>6. payload' \in Seq(Letter) /\ gwN' = Len(payload')
  BY <1>1, <1>3, <1>4, ConcatProperties
<1>7. Begins(payload', Document(graph))
  <2>1. step \in 0..Len(WriteTo(graph))
    BY <1>2
  <2> QED
    BY <1>2, <1>5, <2>1, WrittenBegins
<1>8. step' \in 1..(Len(WriteTo(graph)) + 1) /\ step' - 1 = step
  BY <1>1, <1>2, GraphFacts
<1>9. FileTypeOK'
  BY <1>1, <1>8 DEF FileInv, FileTypeOK
<1> QED
  BY <1>1, <1>5, <1>6, <1>7, <1>8, <1>9 DEF FileInv

LEMMA FileWriteTextFailsInv ==
  ASSUME FileInv, Reaches, NEW k \in 0..Len(Call.text), FileWriteTextFails(k)
  PROVE  FileInv'
<1> DEFINE t == Call.text
<1>1. /\ run = "write" /\ Unfinished /\ ~gwErr
      /\ gwN' = gwN + k /\ step' = step + 1 /\ gwErr' = TRUE
      /\ payload' = payload \o SubSeq(t, 1, k)
      /\ run' \in {"write", "failed"}
      /\ UNCHANGED <<graph, valid, held>>
  BY DEF FileWriteTextFails, GwFails, Reaches
<1>2. graph \in GraphChoice /\ step \in 1..Len(WriteTo(graph)) /\ step - 1 \in Nat
  BY <1>1, GraphFacts DEF FileInv, FileTypeOK, Unfinished
<1>3. /\ Written(graph, step) = Written(graph, step - 1) \o t
      /\ t \in Seq(Letter)
  BY <1>2, WrittenStep, PayloadFileAssumption DEF Call, CallsOver
<1>4. k \in 0..Len(t)
  OBVIOUS
<1> HIDE DEF t
<1>5. payload \in Seq(Letter) /\ payload = Written(graph, step - 1) /\ gwN = Len(payload)
  BY <1>1 DEF FileInv
<1>6. /\ SubSeq(t, 1, k) \in Seq(Letter) /\ Len(SubSeq(t, 1, k)) = k
      /\ Begins(payload', Written(graph, step))
  BY <1>1, <1>3, <1>4, <1>5, PartBegins
<1>7. payload' \in Seq(Letter) /\ gwN' = Len(payload')
  BY <1>1, <1>5, <1>6, ConcatProperties
<1>8. step \in 0..Len(WriteTo(graph))
  BY <1>2
<1>9. Written(graph, step) \in Seq(Letter) /\ Begins(Written(graph, step), Document(graph))
  BY <1>2, <1>8, GraphFacts, WrittenBegins
<1>10. Begins(payload', Document(graph))
  BY <1>6, <1>7, <1>9, BeginsTransitive
<1>11. IsPrefix(payload', Document(graph))
  BY <1>7, <1>10, BeginsIsPrefix
<1>12. FileTypeOK'
  <2>1. step' \in 1..(Len(WriteTo(graph)) + 1)
    BY <1>1, <1>2, GraphFacts
  <2> QED
    BY <1>1, <2>1 DEF FileInv, FileTypeOK
<1> QED
  BY <1>1, <1>7, <1>10, <1>11, <1>12 DEF FileInv

(* The steps that leave the writer's text as it is.                        *)
LEMMA FileRestInv ==
  ASSUME FileInv,
         Validate \/ Create \/ CreateFails \/ FileEncodeFails \/ FileAfterError
           \/ FileWriteToReturns \/ Close
  PROVE  FileInv'
<1>1. graph \in GraphChoice
  BY DEF FileInv, FileTypeOK
<1>2. CASE Validate \/ CreateFails \/ Close
  BY <1>2 DEF Validate, CreateFails, Close, FileInv, FileTypeOK, WholeFile, gwVars
<1>3. CASE Create
  <2>1. 0 \in 0..Len(WriteTo(graph)) /\ Written(graph, 0) = <<>>
    BY <1>1, GraphFacts DEF Written
  <2>2. /\ <<>> \in Seq(Letter) /\ Len(<<>>) = 0
        /\ Begins(<<>>, Document(graph))
    BY <1>1, <2>1, WrittenBegins, EmptySeq
  <2>3. /\ payload' = <<>> /\ run = "create" /\ run' = "write"
        /\ UNCHANGED <<graph, step, gwErr, gwN, valid, held>>
    BY <1>3 DEF Create, gwVars
  <2>4. step = 1 /\ ~gwErr /\ gwN = 0 /\ valid
    BY <2>3 DEF FileInv
  <2>5. payload' = Written(graph, step' - 1)
    BY <2>1, <2>3, <2>4
  <2>6. FileTypeOK'
    BY <2>3 DEF FileInv, FileTypeOK
  <2> QED
    BY <2>2, <2>3, <2>4, <2>5, <2>6 DEF FileInv
<1>4. CASE FileEncodeFails
  <2>1. /\ run = "write" /\ run' = "failed" /\ gwErr' \in BOOLEAN
        /\ UNCHANGED <<graph, step, gwN, valid, held, payload>>
    BY <1>4 DEF FileEncodeFails, GwRefuses, GwReports, gwVars, FileInv, FileTypeOK
  <2>2. IsPrefix(payload, Document(graph))
    BY <2>1, BeginsIsPrefix DEF FileInv
  <2> QED
    BY <2>1, <2>2 DEF FileInv, FileTypeOK
<1>5. CASE FileAfterError
  <2>1. /\ run = "write" /\ Unfinished /\ gwErr /\ step' = step + 1
        /\ UNCHANGED <<graph, gwErr, gwN, run, valid, held, payload>>
    BY <1>5 DEF FileAfterError, GwSkips
  <2>2. step' \in 1..(Len(WriteTo(graph)) + 1)
    BY <1>1, <2>1, GraphFacts DEF FileInv, FileTypeOK, Unfinished
  <2> QED
    BY <2>1, <2>2 DEF FileInv, FileTypeOK
<1>6. CASE FileWriteToReturns
  <2>1. /\ run = "write" /\ ~Unfinished
        /\ run' = IF gwErr THEN "failed" ELSE "close"
        /\ UNCHANGED <<graph, step, gwErr, gwN, valid, held, payload>>
    BY <1>6 DEF FileWriteToReturns, gwVars
  <2>2. step - 1 = Len(WriteTo(graph))
    BY <1>1, <2>1, GraphFacts DEF FileInv, FileTypeOK, Unfinished
  <2>3. ~gwErr => WholeFile
    BY <1>1, <2>1, <2>2, GraphFacts DEF FileInv, WholeFile
  <2>4. IsPrefix(payload, Document(graph))
    BY <2>1, BeginsIsPrefix DEF FileInv
  <2> QED
    BY <2>1, <2>3, <2>4 DEF FileInv, FileTypeOK, WholeFile
<1> QED
  BY <1>2, <1>3, <1>4, <1>5, <1>6

LEMMA CloseFailsInv ==
  ASSUME FileInv, NEW k \in 0..Len(payload), CloseFails(k)
  PROVE  FileInv'
<1>1. /\ run = "close" /\ run' = "failed" /\ payload' = SubSeq(payload, 1, k)
      /\ UNCHANGED <<graph, step, gwErr, gwN, valid, held>>
  BY DEF CloseFails, gwVars
<1>2. payload = Document(graph) /\ payload \in Seq(Letter)
  BY <1>1, GraphFacts DEF FileInv, FileTypeOK, WholeFile
<1>3. IsPrefix(SubSeq(payload, 1, k), payload)
  <2>1. SubSeq(payload, 1, k) \in Seq(Letter)
    BY <1>2, PartBegins, EmptySeq
  <2>2. Begins(<<>> \o SubSeq(payload, 1, k), <<>> \o payload)
    BY <1>2, PartBegins, EmptySeq
  <2> QED
    BY <1>2, <2>1, <2>2, ConcatEmptySeq, BeginsIsPrefix
<1> QED
  BY <1>1, <1>2, <1>3 DEF FileInv, FileTypeOK

LEMMA FileNextInv == FileInv /\ [FileNext]_fileVars => FileInv'
<1>1. FileInv /\ UNCHANGED fileVars => FileInv'
  BY DEF fileVars, gwVars, FileInv, FileTypeOK, WholeFile
<1> QED
  BY <1>1, FileWriteTextInv, FileWriteTextFailsInv, FileRestInv, CloseFailsInv
     DEF FileNext

(* minimal/main.go:71: what run reports written is the whole document of a *)
(* graph that validated, as many bytes as it prints; and what a run that   *)
(* failed leaves is the earlier file or a beginning of the document, for   *)
(* every graph, every earlier file and every place at which a write or the *)
(* close fails.                                                            *)
THEOREM PayloadIsWhole == FileSpec => []DoneMeansWhole
<1>1. FileInv => DoneMeansWhole
  <2> SUFFICES ASSUME FileInv PROVE DoneMeansWhole
    OBVIOUS
  <2>1. Document(graph) \in Seq(Letter)
    BY GraphFacts DEF FileInv, FileTypeOK
  <2>2. IsPrefix(Document(graph), Document(graph))
    BY <2>1, ConcatEmptySeq, EmptySeq, BeginsIsPrefix DEF Begins
  <2>3. payload = held \/ IsPrefix(payload, Document(graph))
    BY <2>2, BeginsIsPrefix DEF FileInv, FileTypeOK, WholeFile
  <2> QED
    BY <2>3 DEF FileInv, WholeFile, DoneMeansWhole
<1> QED
  BY <1>1, FileInitInv, FileNextInv, PTL DEF FileSpec
-----------------------------------------------------------------------------
(***************************************************************************)
(* The spool.                                                              *)
(***************************************************************************)

(* A prefix of a chunk is a chunk of the length asked for.                 *)
LEMMA PrefixProperties ==
  ASSUME NEW p \in Seq(Byte), NEW k \in 0..Len(p)
  PROVE  /\ Prefix(p, k) \in Seq(Byte) /\ Len(Prefix(p, k)) = k
         /\ \A i \in 1..k : Prefix(p, k)[i] = p[i]
<1>1. \A i \in 1..k : p[i] \in Byte
  BY ElementOfSeq, LenProperties
<1>2. k \in Int
  BY LenProperties
<1> QED
  BY <1>1, <1>2, SubSeqProperties, SMT DEF Prefix

LEMMA PrefixFull ==
  ASSUME NEW p \in Seq(Byte)
  PROVE  Prefix(p, Len(p)) = p
BY SubSeqFull DEF Prefix

(* Writing at the end of the file appends.                                 *)
LEMMA WriteAtEnd ==
  ASSUME disk \in Seq(Byte), pos = Len(disk), NEW q \in Seq(Byte)
  PROVE  FileAfter(q) = disk \o q
<1>1. Prefix(disk, pos) = disk
  BY PrefixFull
<1>2. SubSeq(disk, pos + Len(q) + 1, Len(disk)) = <<>>
  <2>1. Len(disk) \in Nat /\ Len(q) \in Nat
    BY LenProperties
  <2> QED
    BY <2>1, SubSeqEmpty
<1>3. disk \o q \in Seq(Byte)
  BY ConcatProperties
<1> QED
  BY <1>1, <1>2, <1>3, ConcatEmptySeq DEF FileAfter

-----------------------------------------------------------------------------
(***************************************************************************)
(* The inductive invariant.                                                *)
(***************************************************************************)

(* Until the spool is handed out it holds, like the signer, what WriteTo's *)
(* calls so far have written, and the offset is where the next write has   *)
(* to go.  After an error only the counts agree.                           *)
Spooling ==
  pc \in {"start", "writing", "reader"} =>
    /\ tx = "idle"
    /\ file # "closed"
    /\ gwN = n
    /\ ~gwErr => /\ Readable = Written(graph, step - 1)
                 /\ n = Len(Readable)
                 /\ signer.written = Readable
                 /\ file = "open" => pos = Len(disk)

Stages ==
  /\ pc = "start" => step = 1 /\ ~gwErr
  /\ pc = "reader" => ~gwErr /\ ~Unfinished
  /\ pc = "sending" => tx # "idle"

SignerShape == signer = [key |-> signer.key, written |-> signer.written]

SignerKnows ==
  pc # "start" => signer.key = DateKey(TokenKey, "POST", JobPath, at)

(* What the transport was given is the document, and the offset is the     *)
(* number of bytes it has sent, wherever it reads them.                    *)
Handed ==
  tx # "idle" =>
    /\ pc \in {"sending", "closing", "returned"}
    /\ ~gwErr /\ ~Unfinished
    /\ Source = Document(graph)
    /\ wire = Prefix(Document(graph), pos)
    /\ pos <= Len(Document(graph))
    /\ tx = "sent" => pos = Len(Document(graph))
    /\ tx # "short"

RequestMade ==
  tx # "idle" =>
    /\ request.target = BasePath \o JobPath
    /\ request.date = at
    /\ request.signature =
         Hmac(DateKey(TokenKey, "POST", JobPath, at), Document(graph))
    /\ request.contentLength = Len(Document(graph))
    /\ request.body \in {"memory", "file"}
    /\ request.body = "memory" => file = "nil"

Wire == tx = "idle" => wire = <<>>

Verdicts ==
  /\ verdict # "none" => tx # "idle"
  /\ verdict = "accepted" => tx = "sent"
  /\ verdict = "mismatch" => BasePath # <<>>
  /\ outcome = "ok" => verdict = "accepted"

Release ==
  /\ pc # "returned" /\ file = "nil" => ~linked
  /\ pc = "returned" => file = "nil" /\ (~removeFailed => ~linked)

IInv ==
  /\ TypeOK
  /\ Spooling
  /\ Stages
  /\ SignerShape
  /\ SignerKnows
  /\ Handed
  /\ RequestMade
  /\ Wire
  /\ Verdicts
  /\ Release

LEMMA DocumentType ==
  ASSUME NEW g \in GraphChoice
  PROVE  /\ Document(g) \in Seq(Byte)
         /\ Len(Document(g)) \in Nat
         /\ Document(g) = Written(g, Len(WriteTo(g)))
<1>1. WritesIn(Byte)
  BY UploadAssumption
<1>2. Len(WriteTo(g)) \in 0..Len(WriteTo(g))
  BY <1>1, WriteToType
<1>3. Document(g) \in Seq(Byte) /\ Document(g) = Written(g, Len(WriteTo(g)))
  BY <1>1, <1>2, TextsJoin, WrittenType
<1> QED
  BY <1>3, LenProperties

LEMMA InitIInv == Init => IInv
<1> SUFFICES ASSUME Init PROVE IInv
  OBVIOUS
<1> USE DEF Init, SpoolInit, GwInit
<1>1. <<>> \in Seq(Byte) /\ Len(<<>>) = 0
  BY EmptySeq
<1>2. WritesIn(Byte) /\ MaxTime \in Nat
  BY UploadAssumption
<1>3. Len(WriteTo(graph)) \in Nat \ {0}
  BY <1>2, WriteToType
<1>4. TypeOK
  <2>1. step \in 1..(Len(WriteTo(graph)) + 1)
    BY <1>3
  <2>2. at \in 0..now /\ now \in 0..MaxTime
    BY <1>2
  <2>3. pos \in Nat /\ n \in Nat /\ gwN \in Nat
    OBVIOUS
  <2>4. signer.written = <<>> /\ request.contentLength = 0 /\ request.body = "none"
    BY DEF NoRequest
  <2>5. request.contentLength \in Nat
    BY <2>4
  <2> QED
    BY <1>1, <2>1, <2>2, <2>3, <2>4, <2>5, Zenon
       DEF TypeOK, SpoolTypeOK, GwTypeOK
<1>5. Spooling
  <2>1. Readable = <<>> /\ signer.written = <<>>
    BY DEF Readable
  <2>2. Written(graph, step - 1) = <<>>
    BY DEF Written
  <2> QED
    BY <1>1, <2>1, <2>2 DEF Spooling
<1>6. Stages /\ SignerShape /\ SignerKnows
  BY DEF Stages, SignerShape, SignerKnows
<1>7. Handed /\ RequestMade /\ Wire /\ Verdicts /\ Release
  BY DEF Handed, RequestMade, Wire, Verdicts, Release
<1> QED
  BY <1>4, <1>5, <1>6, <1>7 DEF IInv

(* The call about to be made, while nothing has failed.                    *)
LEMMA CallFacts ==
  ASSUME IInv, Reaches
  PROVE  /\ Call.text \in Seq(Byte) /\ Len(Call.text) \in Nat
         /\ Written(graph, step - 1) \in Seq(Byte)
         /\ Written(graph, (step + 1) - 1) = Written(graph, step - 1) \o Call.text
         /\ step + 1 \in 1..(Len(WriteTo(graph)) + 1)
<1>1. WritesIn(Byte) /\ graph \in GraphChoice
  BY UploadAssumption DEF IInv, TypeOK, GwTypeOK
<1>2. Len(WriteTo(graph)) \in Nat
  BY <1>1, WriteToType
<1>3. step \in 1..Len(WriteTo(graph)) /\ step - 1 \in 0..Len(WriteTo(graph))
  BY <1>2 DEF Reaches, Unfinished, IInv, TypeOK, GwTypeOK
<1>4. /\ Written(graph, step) = Written(graph, step - 1) \o Call.text
      /\ Call \in CallsOver(Byte)
  BY <1>1, <1>3, WrittenStep DEF Call
<1>5. Call.text \in Seq(Byte)
  BY <1>4 DEF CallsOver
<1>6. Written(graph, step - 1) \in Seq(Byte)
  BY <1>1, <1>3, WrittenType
<1>7. (step + 1) - 1 = step /\ step + 1 \in 1..(Len(WriteTo(graph)) + 1)
  BY <1>2, <1>3
<1> QED
  BY <1>4, <1>5, <1>6, <1>7, LenProperties

(* Whatever a write that reaches the spool takes, it takes at the end.     *)
LEMMA SpoolGrows ==
  ASSUME IInv, pc = "writing", ~gwErr, NEW p \in Seq(Byte), NEW k \in 0..Len(p),
         \/ k = Len(p) /\ WriteToBuffer(p)
         \/ SpillAndWrite(p, k)
         \/ WriteToFile(p, k)
  PROVE  /\ SpoolTypeOK'
         /\ file' # "closed"
         /\ n' = n + k
         /\ Readable' = Readable \o Prefix(p, k)
         /\ n' = Len(Readable')
         /\ file' = "open" => pos' = Len(disk')
         /\ file' = "nil" => ~linked'
<1> DEFINE q == Prefix(p, k)
<1>1. q \in Seq(Byte) /\ Len(q) = k /\ Len(p) \in Nat /\ k \in Nat
  BY PrefixProperties, LenProperties
<1>2. /\ SpoolTypeOK
      /\ file # "closed"
      /\ n = Len(Readable)
      /\ file = "open" => pos = Len(disk)
      /\ file = "nil" => ~linked
  BY DEF IInv, TypeOK, Spooling, Release
<1>3. /\ buf \in Seq(Byte) /\ disk \in Seq(Byte)
      /\ Len(buf) \in Nat /\ Len(disk) \in Nat /\ n \in Nat
  BY <1>2, LenProperties DEF SpoolTypeOK
<1>4. CASE k = Len(p) /\ WriteToBuffer(p)
  <2>1. q = p
    BY <1>4, PrefixFull
  <2>2. /\ file' = file /\ file = "nil" /\ buf' = buf \o q /\ n' = n + k
        /\ disk' = disk /\ pos' = pos /\ linked' = linked
    BY <1>4, <2>1 DEF WriteToBuffer
  <2>3. buf' \in Seq(Byte) /\ Len(buf') = Len(buf) + k
    BY <1>1, <1>3, <2>2, ConcatProperties
  <2>4. n' \in Nat
    BY <1>1, <1>3, <2>2
  <2>5. SpoolTypeOK'
    BY <1>2, <2>2, <2>3, <2>4, Zenon DEF SpoolTypeOK
  <2> HIDE DEF q
  <2> QED
    BY <1>2, <2>2, <2>3, <2>5 DEF Readable, q
<1>5. CASE SpillAndWrite(p, k)
  <2>1. /\ file = "nil" /\ file' = "open" /\ linked' = TRUE /\ disk' = buf \o q
        /\ pos' = Len(buf) + k /\ buf' = <<>> /\ n' = n + k
    BY <1>5 DEF SpillAndWrite
  <2>2. disk' \in Seq(Byte) /\ Len(disk') = Len(buf) + k
    BY <1>1, <1>3, <2>1, ConcatProperties
  <2>3. n' \in Nat /\ pos' \in Nat /\ buf' \in Seq(Byte)
    BY <1>1, <1>3, <2>1, EmptySeq
  <2>4. SpoolTypeOK'
    BY <2>1, <2>2, <2>3, Zenon DEF SpoolTypeOK
  <2> HIDE DEF q
  <2> QED
    BY <1>2, <2>1, <2>2, <2>4 DEF Readable, q
<1>6. CASE WriteToFile(p, k)
  <2>1. /\ file = "open" /\ file' = file /\ disk' = FileAfter(q)
        /\ pos' = pos + k /\ buf' = buf /\ n' = n + k /\ linked' = linked
    BY <1>6 DEF WriteToFile
  <2>2. disk' = disk \o q
    BY <1>1, <1>2, <1>3, <2>1, WriteAtEnd
  <2>3. disk' \in Seq(Byte) /\ Len(disk') = Len(disk) + k
    BY <1>1, <1>3, <2>2, ConcatProperties
  <2>4. n' \in Nat /\ pos' \in Nat
    BY <1>1, <1>2, <1>3, <2>1
  <2>5. SpoolTypeOK'
    BY <1>2, <2>1, <2>3, <2>4, Zenon DEF SpoolTypeOK
  <2> HIDE DEF q
  <2> QED
    BY <1>2, <2>1, <2>2, <2>3, <2>5 DEF Readable, q
<1> QED
  BY <1>4, <1>5, <1>6

-----------------------------------------------------------------------------
(***************************************************************************)
(* Every step of UploadGraph preserves the invariant.                      *)
(***************************************************************************)
LEMMA StartPreserves == IInv /\ Start => IInv'
<1> SUFFICES ASSUME IInv, Start PROVE IInv'
  OBVIOUS
<1>1. /\ pc = "start" /\ pc' = "writing" /\ at' = now
      /\ signer' = [key |-> DateKey(TokenKey, "POST", JobPath, now),
                    written |-> <<>>]
      /\ UNCHANGED <<spoolVars, gwVars, request, outcome, envVars>>
  BY DEF Start, NewBodySigner
<1> USE DEF spoolVars, gwVars, envVars
<1>2. signer'.key = DateKey(TokenKey, "POST", JobPath, at') /\ signer'.written = <<>>
  BY <1>1
<1>3. step = 1 /\ ~gwErr /\ tx = "idle"
  BY <1>1 DEF IInv, Stages, Spooling
<1>4. TypeOK'
  <2>1. at' \in 0..now' /\ now' \in 0..MaxTime
    BY <1>1, UploadAssumption DEF IInv, TypeOK
  <2>2. signer'.written \in Seq(Byte)
    BY <1>2, EmptySeq
  <2>3. SpoolTypeOK' /\ GwTypeOK'
    BY <1>1, Zenon DEF IInv, TypeOK, SpoolTypeOK, GwTypeOK
  <2> QED
    BY <1>1, <2>1, <2>2, <2>3, Zenon DEF IInv, TypeOK
<1>5. Spooling'
  <2>1. Readable = <<>>
    BY <1>1, <1>3 DEF IInv, Spooling, Written
  <2>2. Readable' = Readable
    BY <1>1 DEF Readable
  <2> QED
    BY <1>1, <1>2, <1>3, <2>1, <2>2 DEF IInv, Spooling
<1>6. Stages' /\ SignerKnows'
  BY <1>1, <1>2 DEF Stages, SignerKnows
<1>7. SignerShape'
  BY <1>1, <1>2, Zenon DEF SignerShape
<1>8. Handed' /\ RequestMade'
  BY <1>1, <1>3 DEF Handed, RequestMade
<1>9. Wire' /\ Verdicts' /\ Release'
  BY <1>1 DEF IInv, Wire, Verdicts, Release
<1> QED
  BY <1>4, <1>5, <1>6, <1>7, <1>8, <1>9 DEF IInv

LEMMA WriteTextPreserves == IInv /\ WriteText => IInv'
<1> SUFFICES ASSUME IInv, WriteText PROVE IInv'
  OBVIOUS
<1>1. /\ pc = "writing" /\ Reaches /\ ~gwErr
      /\ gwN' = gwN + Len(Call.text) /\ step' = step + 1
      /\ signer' = SignerWrite(signer, Call.text)
      /\ WriteSucceeds(Call.text)
      /\ UNCHANGED <<pc, at, request, outcome, envVars, graph, gwErr>>
  BY DEF WriteText, GwWrites, Reaches
<1> USE DEF envVars
<1> DEFINE p == Call.text
<1>2. /\ p \in Seq(Byte) /\ Len(p) \in Nat
      /\ Written(graph, step - 1) \in Seq(Byte)
      /\ Written(graph, (step + 1) - 1) = Written(graph, step - 1) \o p
      /\ step + 1 \in 1..(Len(WriteTo(graph)) + 1)
  BY <1>1, CallFacts
<1>3. tx = "idle" /\ gwN = n /\ n \in Nat /\ gwN \in Nat
      /\ Readable = Written(graph, step - 1) /\ signer.written = Readable
  BY <1>1 DEF IInv, Spooling, TypeOK, GwTypeOK, SpoolTypeOK
<1>4. /\ SpoolTypeOK'
      /\ file' # "closed"
      /\ n' = n + Len(p)
      /\ Readable' = Readable \o p
      /\ n' = Len(Readable')
      /\ file' = "open" => pos' = Len(disk')
      /\ file' = "nil" => ~linked'
  <2>1. Prefix(p, Len(p)) = p /\ Len(p) \in 0..Len(p)
    BY <1>2, PrefixFull
  <2>2. \/ Len(p) = Len(p) /\ WriteToBuffer(p)
        \/ SpillAndWrite(p, Len(p))
        \/ WriteToFile(p, Len(p))
    BY <1>1 DEF WriteSucceeds
  <2> HIDE DEF p
  <2> QED
    BY <1>1, <1>2, <2>1, <2>2, SpoolGrows
<1>5. signer' = [key |-> signer.key, written |-> signer.written \o p]
  <2>1. signer = [key |-> signer.key, written |-> signer.written]
    BY DEF IInv, SignerShape
  <2>2. signer' = [signer EXCEPT !.written = signer.written \o p]
    BY <1>1 DEF SignerWrite
  <2> HIDE DEF p
  <2> QED
    BY <2>1, <2>2
<1>6. signer'.key = signer.key /\ signer'.written = signer.written \o p
  BY <1>5
<1> HIDE DEF p
<1>7. TypeOK'
  <2>1. signer'.written \in Seq(Byte)
    BY <1>2, <1>3, <1>6, ConcatProperties
  <2>2. gwN' \in Nat
    BY <1>1, <1>2, <1>3 DEF p
  <2>3. GwTypeOK'
    BY <1>1, <1>2, <2>2, Zenon DEF IInv, TypeOK, GwTypeOK
  <2> QED
    BY <1>1, <1>4, <2>1, <2>3, Zenon DEF IInv, TypeOK
<1>8. Spooling'
  <2>1. gwN' = n'
    BY <1>1, <1>3, <1>4 DEF p
  <2>2. Readable' = Written(graph', step' - 1)
    BY <1>1, <1>2, <1>3, <1>4
  <2>3. signer'.written = Readable'
    BY <1>3, <1>4, <1>6
  <2> QED
    BY <1>1, <1>3, <1>4, <2>1, <2>2, <2>3 DEF Spooling
<1>9. Stages' /\ SignerKnows'
  BY <1>1, <1>6 DEF IInv, Stages, SignerKnows
<1>10. SignerShape'
  BY <1>5, <1>6, Zenon DEF SignerShape
<1>11. Handed' /\ RequestMade'
  BY <1>1, <1>3 DEF Handed, RequestMade
<1>12. Wire' /\ Verdicts' /\ Release'
  BY <1>1, <1>4 DEF IInv, Wire, Verdicts, Release
<1> QED
  BY <1>7, <1>8, <1>9, <1>10, <1>11, <1>12 DEF IInv

(* A write the spool fails: it still counts what it took.                  *)
LEMMA FailingWrite ==
  ASSUME IInv, pc = "writing", ~gwErr, NEW p \in Seq(Byte), NEW k \in 0..Len(p),
         WriteFails(p, k)
  PROVE  /\ SpoolTypeOK'
         /\ file' # "closed"
         /\ n' = n + k
         /\ file' = "nil" => ~linked'
<1>1. /\ SpoolTypeOK /\ file # "closed" /\ n \in Nat
      /\ file = "nil" => ~linked
  BY DEF IInv, TypeOK, SpoolTypeOK, Spooling, Release
<1>2. CASE k = 0 /\ CreateTempFails(p)
  BY <1>1, <1>2 DEF CreateTempFails, spoolVars, SpoolTypeOK
<1>3. CASE k = 0 /\ \E j \in 0..Len(buf) : SpillFails(p, j)
  <2>1. PICK j \in 0..Len(buf) : SpillFails(p, j)
    BY <1>3
  <2>2. buf \in Seq(Byte) /\ Prefix(buf, j) \in Seq(Byte) /\ j \in Nat
    BY <1>1, PrefixProperties, LenProperties DEF SpoolTypeOK
  <2>3. /\ disk' = Prefix(buf, j) /\ pos' = j /\ file' = "open" /\ linked' = TRUE
        /\ buf' = buf /\ n' = n
    BY <2>1 DEF SpillFails
  <2>4. SpoolTypeOK'
    BY <1>1, <2>2, <2>3, Zenon DEF SpoolTypeOK
  <2> QED
    BY <1>1, <1>3, <2>3, <2>4
<1>4. CASE SpillAndWrite(p, k) \/ WriteToFile(p, k)
  BY <1>4, SpoolGrows
<1> QED
  BY <1>2, <1>3, <1>4 DEF WriteFails

LEMMA WriteTextFailsPreserves ==
  ASSUME IInv, Reaches, NEW k \in 0..Len(Call.text), WriteTextFails(k)
  PROVE  IInv'
<1>1. /\ pc = "writing" /\ ~gwErr
      /\ gwErr' = TRUE /\ gwN' = gwN + k /\ step' = step + 1
      /\ WriteFails(Call.text, k)
      /\ UNCHANGED <<at, signer, request, envVars, graph>>
  BY DEF WriteTextFails, GwFails, Reaches
<1>2. \/ pc' = "closing" /\ outcome' = "failed"
      \/ pc' = "writing" /\ outcome' = outcome
  BY <1>1 DEF WriteTextFails, Return
<1> USE DEF envVars
<1>3. /\ Call.text \in Seq(Byte) /\ Len(Call.text) \in Nat
      /\ step + 1 \in 1..(Len(WriteTo(graph)) + 1)
  BY CallFacts
<1>4. tx = "idle" /\ gwN = n /\ n \in Nat
  BY <1>1 DEF IInv, Spooling, TypeOK, SpoolTypeOK
<1>5. /\ SpoolTypeOK'
      /\ file' # "closed"
      /\ n' = n + k
      /\ file' = "nil" => ~linked'
  BY <1>1, <1>3, FailingWrite
<1>6. TypeOK'
  <2>1. gwN' \in Nat
    BY <1>1, <1>3, <1>4
  <2>2. GwTypeOK'
    BY <1>1, <1>3, <2>1, Zenon DEF IInv, TypeOK, GwTypeOK
  <2> QED
    BY <1>1, <1>2, <1>5, <2>2, Zenon DEF IInv, TypeOK
<1>7. Spooling' /\ Stages'
  BY <1>1, <1>2, <1>4, <1>5 DEF Spooling, Stages
<1>8. SignerKnows' /\ SignerShape'
  BY <1>1 DEF IInv, SignerKnows, SignerShape
<1>9. Handed' /\ RequestMade'
  BY <1>1, <1>4 DEF Handed, RequestMade
<1>10. Wire' /\ Verdicts' /\ Release'
  BY <1>1, <1>2, <1>5 DEF IInv, Wire, Verdicts, Release
<1> QED
  BY <1>6, <1>7, <1>8, <1>9, <1>10 DEF IInv

(* The steps of WriteTo that write nothing.                                *)
LEMMA WriteToPreserves ==
  ASSUME IInv, EncodeFails \/ AfterError \/ WriteToReturns
  PROVE  IInv'
<1>1. /\ pc = "writing" /\ tx = "idle"
      /\ UNCHANGED <<spoolVars, at, signer, request, envVars, graph, gwN>>
  BY DEF EncodeFails, AfterError, WriteToReturns, IInv, Spooling,
         GwRefuses, GwReports, GwSkips, gwVars
<1> USE DEF spoolVars, envVars
<1>2. \/ /\ pc' = "closing" /\ outcome' = "failed"
         /\ gwErr' \in BOOLEAN /\ step' = step
      \/ /\ pc' = "writing" /\ outcome' = outcome
         /\ gwErr /\ gwErr' /\ Unfinished /\ step' = step + 1
      \/ /\ pc' = "reader" /\ outcome' = outcome
         /\ ~gwErr /\ gwErr' = gwErr /\ ~Unfinished /\ step' = step
  BY DEF EncodeFails, AfterError, WriteToReturns, Return, IInv, TypeOK, GwTypeOK,
         GwRefuses, GwReports, GwSkips, gwVars
<1>3. TypeOK'
  <2>1. Len(WriteTo(graph)) \in Nat
    BY WriteToType, UploadAssumption DEF IInv, TypeOK, GwTypeOK
  <2>2. step' \in 1..(Len(WriteTo(graph)) + 1)
    BY <1>2, <2>1 DEF Unfinished, IInv, TypeOK, GwTypeOK
  <2>3. gwErr' \in BOOLEAN
    BY <1>2 DEF IInv, TypeOK, GwTypeOK
  <2>4. pc' \in {"closing", "writing", "reader"} /\ outcome' \in {"failed", outcome}
    BY <1>2
  <2>5. outcome' \in {"none", "ok", "failed"}
    BY <2>4 DEF IInv, TypeOK
  <2> QED
    BY <1>1, <2>2, <2>3, <2>4, <2>5, Zenon DEF IInv, TypeOK, SpoolTypeOK, GwTypeOK
<1>4. Spooling'
  BY <1>1, <1>2 DEF IInv, Spooling, Readable
<1>5. Stages'
  BY <1>1, <1>2 DEF IInv, Stages, Unfinished
<1>6. SignerKnows' /\ SignerShape'
  BY <1>1, <1>2 DEF IInv, SignerKnows, SignerShape
<1>7. Handed' /\ RequestMade'
  BY <1>1 DEF Handed, RequestMade
<1>8. Wire' /\ Verdicts' /\ Release'
  BY <1>1, <1>2 DEF IInv, Wire, Verdicts, Release
<1> QED
  BY <1>3, <1>4, <1>5, <1>6, <1>7, <1>8 DEF IInv

(* The call gives up before anything is sent.                              *)
LEMMA NotSentPreserves ==
  ASSUME IInv, ReaderError \/ DoStreamFails
  PROVE  IInv'
<1>1. /\ pc = "reader" /\ tx = "idle" /\ pc' = "closing" /\ outcome' = "failed"
      /\ UNCHANGED <<buf, file, disk, linked, n, gwVars, at, signer, request,
                     envVars>>
      /\ pos' \in {0, pos}
  BY DEF ReaderError, DoStreamFails, ReaderFails, ReaderSucceeds, Return, IInv,
         Spooling, spoolVars
<1> USE DEF gwVars, envVars
<1>2. TypeOK'
  <2>1. pos' \in Nat
    BY <1>1 DEF IInv, TypeOK, SpoolTypeOK
  <2> QED
    BY <1>1, <2>1, Zenon DEF IInv, TypeOK, SpoolTypeOK, GwTypeOK
<1>3. Spooling' /\ Stages' /\ Handed' /\ RequestMade'
  BY <1>1 DEF Spooling, Stages, Handed, RequestMade
<1>4. SignerKnows' /\ SignerShape' /\ Wire' /\ Verdicts' /\ Release'
  BY <1>1 DEF IInv, SignerKnows, SignerShape, Wire, Verdicts, Release
<1> QED
  BY <1>2, <1>3, <1>4 DEF IInv

LEMMA DoStreamPreserves == IInv /\ DoStream => IInv'
<1> SUFFICES ASSUME IInv, DoStream PROVE IInv'
  OBVIOUS
<1>1. /\ pc = "reader" /\ pc' = "sending" /\ tx' = "sending" /\ pos' = 0
      /\ request' = StreamRequest
      /\ UNCHANGED <<buf, file, disk, linked, n, gwVars, at, signer, outcome,
                     now, wire, verdict, removeFailed>>
  BY DEF DoStream, ReaderSucceeds
<1> USE DEF gwVars
<1>2. /\ tx = "idle" /\ ~gwErr /\ ~Unfinished /\ file # "closed"
      /\ Readable = Written(graph, step - 1)
      /\ n = Len(Readable)
      /\ signer.written = Readable
      /\ signer.key = DateKey(TokenKey, "POST", JobPath, at)
  BY <1>1 DEF IInv, Spooling, Stages, SignerKnows
<1>3. graph \in GraphChoice /\ file \in {"nil", "open"}
  BY <1>2 DEF IInv, TypeOK, GwTypeOK, SpoolTypeOK
<1>4. Readable = Document(graph)
  <2>1. Len(WriteTo(graph)) \in Nat
    BY <1>3, WriteToType, UploadAssumption
  <2>2. step - 1 = Len(WriteTo(graph))
    BY <1>2, <2>1 DEF Unfinished, IInv, TypeOK, GwTypeOK
  <2> QED
    BY <1>2, <1>3, <2>2, DocumentType
<1>5. /\ request'.target = BasePath \o JobPath
      /\ request'.date = at
      /\ request'.signature = Signature(signer)
      /\ request'.contentLength = n
      /\ request'.body = IF file = "nil" THEN "memory" ELSE "file"
  BY <1>1 DEF StreamRequest
<1>6. Document(graph) \in Seq(Byte) /\ Len(Document(graph)) \in Nat
  BY <1>3, DocumentType
<1>7. wire = <<>>
  BY <1>2 DEF IInv, Wire
<1>8. TypeOK'
  <2>1. request'.contentLength \in Nat /\ pos' \in Nat
    BY <1>1, <1>5 DEF IInv, TypeOK, SpoolTypeOK
  <2>2. request'.body \in {"none", "memory", "file"}
    BY <1>5
  <2> QED
    BY <1>1, <2>1, <2>2, Zenon DEF IInv, TypeOK, SpoolTypeOK, GwTypeOK
<1>9. Spooling' /\ Stages'
  BY <1>1 DEF Spooling, Stages
<1>10. Handed'
  <2>1. Source' = Document(graph)
    BY <1>1, <1>3, <1>4, <1>5 DEF Source, Readable
  <2>2. wire = Prefix(Document(graph), 0)
    BY <1>7, SubSeqEmpty DEF Prefix
  <2>3. Unfinished' = Unfinished
    BY <1>1 DEF Unfinished
  <2> QED
    BY <1>1, <1>2, <1>6, <2>1, <2>2, <2>3 DEF Handed
<1>11. RequestMade'
  BY <1>1, <1>2, <1>3, <1>4, <1>5 DEF RequestMade, Signature
<1>12. SignerKnows' /\ SignerShape' /\ Verdicts' /\ Release' /\ Wire'
  BY <1>1, <1>2 DEF IInv, SignerKnows, SignerShape, Verdicts, Release, Wire
<1> QED
  BY <1>8, <1>9, <1>10, <1>11, <1>12 DEF IInv

LEMMA RespondPreserves == IInv /\ (Respond \/ DoFails) => IInv'
<1> SUFFICES ASSUME IInv, Respond \/ DoFails PROVE IInv'
  OBVIOUS
<1>1. /\ pc = "sending" /\ pc' = "closing"
      /\ outcome' \in {"ok", "failed"}
      /\ outcome' = "ok" => verdict = "accepted"
      /\ UNCHANGED <<spoolVars, gwVars, at, signer, request, envVars>>
  BY DEF Respond, DoFails, Return
<1> USE DEF spoolVars, gwVars, envVars
<1>2. TypeOK'
  BY <1>1, Zenon DEF IInv, TypeOK, SpoolTypeOK, GwTypeOK
<1>3. Spooling' /\ Stages'
  BY <1>1 DEF Spooling, Stages
<1>4. Handed'
  BY <1>1 DEF IInv, Handed, Source, Unfinished
<1>5. RequestMade'
  BY <1>1 DEF IInv, RequestMade
<1>6. SignerKnows' /\ SignerShape' /\ Wire' /\ Verdicts' /\ Release'
  BY <1>1 DEF IInv, SignerKnows, SignerShape, Wire, Verdicts, Release
<1> QED
  BY <1>2, <1>3, <1>4, <1>5, <1>6 DEF IInv

LEMMA ClosePreserves ==
  ASSUME IInv, NEW removed \in BOOLEAN, DeferredClose(removed)
  PROVE  IInv'
<1>1. /\ pc = "closing" /\ pc' = "returned" /\ file' = "nil"
      /\ linked' = IF file = "nil" THEN linked ELSE ~removed
      /\ removeFailed' = (file # "nil" /\ ~removed)
      /\ UNCHANGED <<buf, disk, pos, n, gwVars, at, signer, request, outcome,
                     now, tx, wire, verdict>>
  BY DEF DeferredClose, SpoolClose
<1> USE DEF gwVars
<1>2. TypeOK'
  <2>1. linked' \in BOOLEAN /\ removeFailed' \in BOOLEAN
    BY <1>1, Zenon DEF IInv, TypeOK, SpoolTypeOK
  <2>2. SpoolTypeOK' /\ GwTypeOK'
    BY <1>1, <2>1, Zenon DEF IInv, TypeOK, SpoolTypeOK, GwTypeOK
  <2> QED
    BY <1>1, <2>1, <2>2, Zenon DEF IInv, TypeOK
<1>3. Spooling' /\ Stages'
  BY <1>1 DEF Spooling, Stages
<1>4. Handed'
  BY <1>1 DEF IInv, Handed, Source, Unfinished
<1>5. RequestMade'
  BY <1>1 DEF IInv, RequestMade
<1>6. SignerKnows' /\ SignerShape' /\ Wire' /\ Verdicts'
  BY <1>1 DEF IInv, SignerKnows, SignerShape, Wire, Verdicts
<1>7. Release'
  <2>1. file = "nil" => ~linked
    BY <1>1 DEF IInv, Release
  <2>2. ~removeFailed' => ~linked'
    BY <1>1, <2>1, Zenon
  <2> QED
    BY <1>1, <2>2 DEF Release
<1> QED
  BY <1>2, <1>3, <1>4, <1>5, <1>6, <1>7 DEF IInv

LEMMA UploadGraphPreserves == IInv /\ UploadGraph => IInv'
<1> SUFFICES ASSUME IInv, UploadGraph PROVE IInv'
  OBVIOUS
<1>1. ASSUME Reaches, NEW k \in 0..Len(Call.text), WriteTextFails(k) PROVE IInv'
  BY <1>1, WriteTextFailsPreserves
<1>2. ASSUME NEW removed \in BOOLEAN, DeferredClose(removed) PROVE IInv'
  BY <1>2, ClosePreserves
<1> QED
  BY <1>1, <1>2, StartPreserves, WriteTextPreserves, WriteToPreserves,
     NotSentPreserves, DoStreamPreserves, RespondPreserves
     DEF UploadGraph

-----------------------------------------------------------------------------
(***************************************************************************)
(* Every step of the transport, the server and the clock preserves it.     *)
(***************************************************************************)
LEMMA HandedFacts ==
  ASSUME IInv, tx # "idle"
  PROVE  /\ pc \in {"sending", "closing", "returned"}
         /\ Source = Document(graph) /\ Source \in Seq(Byte)
         /\ Len(Source) \in Nat /\ pos \in 0..Len(Source)
         /\ wire = Prefix(Source, pos) /\ wire \in Seq(Byte) /\ Len(wire) = pos
         /\ request.contentLength = Len(Source)
<1>1. /\ pc \in {"sending", "closing", "returned"}
      /\ Source = Document(graph)
      /\ wire = Prefix(Source, pos)
      /\ pos <= Len(Source)
      /\ request.contentLength = Len(Source)
      /\ pos \in Nat
      /\ graph \in GraphChoice
  BY DEF IInv, Handed, RequestMade, TypeOK, SpoolTypeOK, GwTypeOK
<1>2. Source \in Seq(Byte) /\ Len(Source) \in Nat
  BY <1>1, DocumentType
<1>3. pos \in 0..Len(Source)
  BY <1>1, <1>2
<1> QED
  BY <1>1, <1>2, <1>3, PrefixProperties

LEMMA SendBytePreserves == IInv /\ SendByte => IInv'
<1> SUFFICES ASSUME IInv, SendByte PROVE IInv'
  OBVIOUS
<1>1. /\ tx = "sending" /\ pos < Len(Source)
      /\ wire' = Append(wire, Source[pos + 1]) /\ pos' = pos + 1
      /\ UNCHANGED <<buf, file, disk, linked, n, callVars, now, tx, verdict,
                     removeFailed>>
  BY DEF SendByte
<1> USE DEF callVars, gwVars
<1>2. /\ pc \in {"sending", "closing", "returned"}
      /\ Source = Document(graph) /\ Source \in Seq(Byte)
      /\ Len(Source) \in Nat /\ pos \in 0..Len(Source)
      /\ wire = Prefix(Source, pos) /\ wire \in Seq(Byte) /\ Len(wire) = pos
      /\ request.contentLength = Len(Source)
  BY <1>1, HandedFacts
<1>3. pos + 1 \in 1..Len(Source) /\ pos + 1 \in 0..Len(Source)
  BY <1>1, <1>2
<1>4. Source[pos + 1] \in Byte
  BY <1>2, <1>3, ElementOfSeq
<1>5. wire' \in Seq(Byte)
  BY <1>1, <1>2, <1>4, AppendProperties
<1>6. wire' = Prefix(Source, pos + 1)
  <2>1. Len(wire') = pos + 1
    BY <1>1, <1>2, <1>4, AppendProperties
  <2>2. /\ Prefix(Source, pos + 1) \in Seq(Byte)
        /\ Len(Prefix(Source, pos + 1)) = pos + 1
        /\ \A i \in 1..(pos + 1) : Prefix(Source, pos + 1)[i] = Source[i]
    BY <1>2, <1>3, PrefixProperties
  <2>3. \A i \in 1..pos : wire[i] = Source[i]
    BY <1>2, PrefixProperties
  <2>4. ASSUME NEW i \in 1..(pos + 1) PROVE wire'[i] = Source[i]
    <3>1. CASE i = pos + 1
      BY <1>1, <1>2, <1>4, <3>1, AppendProperties
    <3>2. CASE i # pos + 1
      <4>1. i \in 1..pos
        BY <1>2, <3>2
      <4>2. wire'[i] = wire[i]
        BY <1>1, <1>2, <1>4, <4>1, AppendProperties
      <4> QED
        BY <2>3, <4>1, <4>2
    <3> QED
      BY <3>1, <3>2
  <2>5. \A i \in 1..Len(wire') : wire'[i] = Prefix(Source, pos + 1)[i]
    BY <2>1, <2>2, <2>4
  <2> QED
    BY <1>5, <2>1, <2>2, <2>5, SeqEqual
<1>7. TypeOK'
  <2>1. pos' \in Nat
    BY <1>1, <1>2
  <2>2. SpoolTypeOK' /\ GwTypeOK'
    BY <1>1, <2>1, Zenon DEF IInv, TypeOK, SpoolTypeOK, GwTypeOK
  <2> QED
    BY <1>1, <1>5, <2>2, Zenon DEF IInv, TypeOK
<1>8. Spooling'
  BY <1>1, <1>2 DEF Spooling
<1>9. Handed'
  <2>1. Source' = Source /\ Unfinished' = Unfinished
    BY <1>1 DEF Source, Unfinished
  <2>2. pos' <= Len(Document(graph))
    BY <1>1, <1>2, <1>3
  <2> QED
    BY <1>1, <1>2, <1>6, <2>1, <2>2 DEF IInv, Handed
<1>10. RequestMade' /\ Stages'
  BY <1>1, <1>2 DEF IInv, RequestMade, Stages, Unfinished
<1>11. SignerKnows' /\ SignerShape' /\ Wire' /\ Verdicts' /\ Release'
  BY <1>1, <1>2 DEF IInv, SignerKnows, SignerShape, Wire, Verdicts, Release
<1> QED
  BY <1>7, <1>8, <1>9, <1>10, <1>11 DEF IInv

LEMMA EndOfBodyPreserves == IInv /\ (EndOfBody \/ TransportFails) => IInv'
<1> SUFFICES ASSUME IInv, EndOfBody \/ TransportFails PROVE IInv'
  OBVIOUS
<1>1. /\ tx = "sending"
      /\ UNCHANGED <<spoolVars, callVars, now, wire, verdict, removeFailed>>
  BY DEF EndOfBody, TransportFails
<1> USE DEF spoolVars, callVars, gwVars
<1>2. /\ pc \in {"sending", "closing", "returned"}
      /\ Source = Document(graph)
      /\ Len(Source) \in Nat /\ pos \in 0..Len(Source) /\ Len(wire) = pos
      /\ request.contentLength = Len(Source)
  BY <1>1, HandedFacts
<1>3. tx' = "broken" \/ (tx' = "sent" /\ pos = Len(Source))
  BY <1>2 DEF EndOfBody, TransportFails
<1>4. TypeOK'
  <2>1. tx' \in {"idle", "sending", "sent", "broken", "short"}
    BY <1>3
  <2>2. SpoolTypeOK' /\ GwTypeOK'
    BY <1>1, Zenon DEF IInv, TypeOK, SpoolTypeOK, GwTypeOK
  <2> QED
    BY <1>1, <2>1, <2>2, Zenon DEF IInv, TypeOK
<1>5. Spooling' /\ Stages'
  BY <1>1, <1>2, <1>3 DEF Spooling, Stages
<1>6. Handed'
  <2>1. Source' = Source /\ Unfinished' = Unfinished
    BY <1>1 DEF Source, Unfinished
  <2> QED
    BY <1>1, <1>2, <1>3, <2>1 DEF IInv, Handed
<1>7. RequestMade'
  BY <1>1, <1>3 DEF IInv, RequestMade
<1>8. SignerKnows' /\ SignerShape' /\ Wire' /\ Verdicts' /\ Release'
  BY <1>1, <1>3 DEF IInv, SignerKnows, SignerShape, Wire, Verdicts, Release
<1> QED
  BY <1>4, <1>5, <1>6, <1>7, <1>8 DEF IInv

LEMMA CloseBodyPreserves == IInv /\ CloseBody => IInv'
<1> SUFFICES ASSUME IInv, CloseBody PROVE IInv'
  OBVIOUS
<1>1. /\ tx \in {"sent", "short", "broken"} /\ request.body = "file"
      /\ file = "open" /\ file' = "closed"
      /\ UNCHANGED <<buf, disk, pos, linked, n, callVars, envVars>>
  BY DEF CloseBody
<1> USE DEF callVars, gwVars, envVars
<1>2. pc \in {"sending", "closing"}
  BY <1>1 DEF IInv, Handed, Release
<1>3. TypeOK'
  BY <1>1, Zenon DEF IInv, TypeOK, SpoolTypeOK, GwTypeOK
<1>4. Spooling' /\ Stages'
  BY <1>1, <1>2 DEF Spooling, Stages
<1>5. Handed'
  BY <1>1 DEF IInv, Handed, Source, Unfinished
<1>6. RequestMade'
  BY <1>1 DEF IInv, RequestMade
<1>7. SignerKnows' /\ SignerShape' /\ Wire' /\ Verdicts' /\ Release'
  BY <1>1, <1>2 DEF IInv, SignerKnows, SignerShape, Wire, Verdicts, Release
<1> QED
  BY <1>3, <1>4, <1>5, <1>6, <1>7 DEF IInv

(* When the target is the path that was signed, the server finds the       *)
(* signature it expects.                                                   *)
LEMMA SignatureExpected ==
  ASSUME IInv, tx = "sent", BasePath = <<>>
  PROVE  request.signature = Expected
<1>1. wire = Document(graph)
  <2>1. /\ Source = Document(graph) /\ Source \in Seq(Byte)
        /\ wire = Prefix(Source, pos)
    BY HandedFacts
  <2>2. pos = Len(Source)
    BY <2>1 DEF IInv, Handed
  <2> QED
    BY <2>1, <2>2, PrefixFull
<1>2. request.target = JobPath
  <2>1. request.target = <<>> \o JobPath /\ JobPath \in Seq(STRING)
    BY UploadAssumption DEF IInv, RequestMade
  <2> QED
    BY <2>1, ConcatEmptySeq
<1> QED
  BY <1>1, <1>2 DEF IInv, RequestMade, Expected, Sign

LEMMA AnswerPreserves == IInv /\ (Answer \/ Refuse) => IInv'
<1> SUFFICES ASSUME IInv, Answer \/ Refuse PROVE IInv'
  OBVIOUS
<1>1. /\ tx # "idle" /\ verdict = "none"
      /\ UNCHANGED <<spoolVars, callVars, now, tx, wire, removeFailed>>
  BY DEF Answer, Refuse
<1> USE DEF spoolVars, callVars, gwVars
<1>2. \/ verdict' = "refused"
      \/ tx = "sent" /\ verdict' = "expired"
      \/ tx = "sent" /\ verdict' = "mismatch" /\ request.signature # Expected
      \/ tx = "sent" /\ verdict' = "accepted"
  BY DEF Answer, Refuse, Judgement
<1>3. TypeOK'
  <2>1. verdict' \in {"none", "accepted", "refused", "expired", "mismatch"}
    BY <1>2
  <2>2. SpoolTypeOK' /\ GwTypeOK'
    BY <1>1, Zenon DEF IInv, TypeOK, SpoolTypeOK, GwTypeOK
  <2> QED
    BY <1>1, <2>1, <2>2, Zenon DEF IInv, TypeOK
<1>4. Spooling' /\ Stages'
  BY <1>1 DEF IInv, Spooling, Stages, Readable, Unfinished
<1>5. Handed'
  BY <1>1 DEF IInv, Handed, Source, Unfinished
<1>6. RequestMade'
  BY <1>1 DEF IInv, RequestMade
<1>7. SignerKnows' /\ SignerShape' /\ Wire' /\ Release'
  BY <1>1 DEF IInv, SignerKnows, SignerShape, Wire, Release
<1>8. Verdicts'
  BY <1>1, <1>2, SignatureExpected DEF IInv, Verdicts
<1> QED
  BY <1>3, <1>4, <1>5, <1>6, <1>7, <1>8 DEF IInv

LEMMA TickPreserves == IInv /\ Tick => IInv'
<1> SUFFICES ASSUME IInv, Tick PROVE IInv'
  OBVIOUS
<1>1. /\ now < MaxTime /\ now' = now + 1
      /\ UNCHANGED <<spoolVars, callVars, tx, wire, verdict, removeFailed>>
  BY DEF Tick
<1> USE DEF spoolVars, callVars, gwVars
<1>2. TypeOK'
  <2>1. at' \in 0..now' /\ now' \in 0..MaxTime
    BY <1>1, UploadAssumption DEF IInv, TypeOK
  <2>2. SpoolTypeOK' /\ GwTypeOK'
    BY <1>1, Zenon DEF IInv, TypeOK, SpoolTypeOK, GwTypeOK
  <2> QED
    BY <1>1, <2>1, <2>2, Zenon DEF IInv, TypeOK
<1>3. Spooling' /\ Stages'
  BY <1>1 DEF IInv, Spooling, Stages, Readable, Unfinished
<1>4. Handed' /\ RequestMade'
  BY <1>1 DEF IInv, Handed, RequestMade, Source, Unfinished
<1>5. SignerKnows' /\ SignerShape' /\ Wire' /\ Verdicts' /\ Release'
  BY <1>1 DEF IInv, SignerKnows, SignerShape, Wire, Verdicts, Release
<1> QED
  BY <1>2, <1>3, <1>4, <1>5 DEF IInv

LEMMA NextIInv == IInv /\ [Next]_vars => IInv'
<1>1. IInv /\ Environment => IInv'
  BY SendBytePreserves, EndOfBodyPreserves, CloseBodyPreserves,
     AnswerPreserves, TickPreserves
     DEF Environment
<1>2. IInv /\ UNCHANGED vars => IInv'
  <2> SUFFICES ASSUME IInv, UNCHANGED vars PROVE IInv'
    OBVIOUS
  <2> USE DEF vars, spoolVars, callVars, gwVars, envVars
  <2>1. TypeOK'
    <3>1. SpoolTypeOK' /\ GwTypeOK'
      BY Zenon DEF IInv, TypeOK, SpoolTypeOK, GwTypeOK
    <3> QED
      BY <3>1, Zenon DEF IInv, TypeOK
  <2>2. Spooling' /\ Stages' /\ Handed' /\ RequestMade'
    BY DEF IInv, Spooling, Stages, Handed, RequestMade, Readable, Source, Unfinished
  <2>3. SignerKnows' /\ SignerShape' /\ Wire' /\ Verdicts' /\ Release'
    BY DEF IInv, SignerKnows, SignerShape, Wire, Verdicts, Release
  <2> QED
    BY <2>1, <2>2, <2>3 DEF IInv
<1> QED
  BY <1>1, <1>2, UploadGraphPreserves DEF Next

LEMMA Invariance == Spec => []IInv
BY InitIInv, NextIInv, PTL DEF Spec

-----------------------------------------------------------------------------
LEMMA AcceptedIsWhole ==
  ASSUME IInv, tx = "sent"
  PROVE  wire = Document(graph)
<1>1. Source = Document(graph) /\ Source \in Seq(Byte) /\ wire = Prefix(Source, pos)
  BY HandedFacts
<1>2. pos = Len(Source)
  BY <1>1 DEF IInv, Handed
<1> QED
  BY <1>1, <1>2, PrefixFull

LEMMA IInvImplies ==
  IInv => /\ TypeOK
          /\ SpoolAndSignerAgree
          /\ SuccessMeansDelivered
          /\ ContentLengthIsExact
          /\ PartialDocumentIsNotSent
          /\ NoFileLeft
<1> SUFFICES ASSUME IInv
             PROVE  /\ TypeOK
                    /\ SpoolAndSignerAgree
                    /\ SuccessMeansDelivered
                    /\ ContentLengthIsExact
                    /\ PartialDocumentIsNotSent
                    /\ NoFileLeft
  OBVIOUS
<1>1. TypeOK /\ SpoolAndSignerAgree
  BY DEF IInv, Spooling, SpoolAndSignerAgree
<1>2. SuccessMeansDelivered
  BY AcceptedIsWhole DEF IInv, Verdicts, SuccessMeansDelivered
<1>3. ContentLengthIsExact
  <2>1. tx # "short"
    BY DEF IInv, Handed
  <2>2. tx = "sending" => request.contentLength - Len(wire) = Len(Source) - pos
    BY HandedFacts
  <2> QED
    BY <2>1, <2>2 DEF ContentLengthIsExact
<1>4. PartialDocumentIsNotSent
  BY DEF IInv, Handed, PartialDocumentIsNotSent
<1>5. NoFileLeft
  BY DEF IInv, Release, NoFileLeft
<1> QED
  BY <1>1, <1>2, <1>3, <1>4, <1>5

(* ingest.go:83: the fields UploadGraph works with keep their types.       *)
THEOREM TypeCorrect == Spec => []TypeOK
BY Invariance, IInvImplies, PTL

(* ingest.go:97: while nothing has failed the spool, the signer and both   *)
(* counts stand at the same byte, for every document and threshold.        *)
THEOREM SpoolAndSignerInStep == Spec => []SpoolAndSignerAgree
BY Invariance, IInvImplies, PTL

(* ingest.go:127: success is only reported of an accepted request, and     *)
(* what is accepted is the whole document of the graph.                    *)
THEOREM SuccessIsDelivery == Spec => []SuccessMeansDelivered
BY Invariance, IInvImplies, PTL

(* sign.go:37: for a base URL without a path the server finds the          *)
(* signature it expects in every request whose body it has whole; with a   *)
(* path it does not, as the run upload_base_path shows.                    *)
THEOREM SignatureCovers ==
  ASSUME BasePath = <<>>
  PROVE  Spec => []SignatureCoversRequest
<1>1. IInv => SignatureCoversRequest
  BY DEF IInv, Verdicts, SignatureCoversRequest
<1> QED
  BY <1>1, Invariance, PTL

(* spool.go:38: Content-Length is the length of what the transport reads.  *)
THEOREM ContentLengthCorrect == Spec => []ContentLengthIsExact
BY Invariance, IInvImplies, PTL

(* ingest.go:97: a document that could not be written whole is not sent.   *)
THEOREM OnlyWholeDocumentsSent == Spec => []PartialDocumentIsNotSent
BY Invariance, IInvImplies, PTL

(* ingest.go:92: the temporary file is gone when the call has returned.    *)
THEOREM FileRemoved == Spec => []NoFileLeft
BY Invariance, IInvImplies, PTL

(* A call is bounded by the length of its document: each of its steps      *)
(* brings it nearer to its end, and nothing the transport, the server or   *)
(* the clock does takes it back.  What is left of Returns to TLC is that   *)
(* it can always take its next step.                                       *)
StepsToGo ==
  IF pc = "start" THEN Len(WriteTo(graph)) + 5
  ELSE IF pc = "writing" THEN Len(WriteTo(graph)) + 5 - step
  ELSE IF pc = "reader" THEN 3
  ELSE IF pc = "sending" THEN 2
  ELSE IF pc = "closing" THEN 1
  ELSE 0

(* ingest.go:88: a step of UploadGraph brings its return nearer, and what  *)
(* runs beside it does not put it off.                                     *)
EveryStepCounts ==
  [][/\ UploadGraph => StepsToGo' < StepsToGo
     /\ Environment => StepsToGo' = StepsToGo]_vars

LEMMA WritingAdvances ==
  ASSUME TypeOK, pc = "writing", graph' = graph,
         \/ Unfinished /\ step' = step + 1 /\ pc' \in {"writing", "closing"}
         \/ pc' \in {"reader", "closing"}
  PROVE  StepsToGo' < StepsToGo
<1> DEFINE l == Len(WriteTo(graph))
<1>1. l \in Nat /\ step \in Nat /\ step <= l + 1
  <2>1. l \in Nat
    BY WriteToType, UploadAssumption, LenProperties DEF TypeOK, GwTypeOK, WritesIn
  <2> HIDE DEF l
  <2>2. step \in 1..(l + 1)
    BY DEF TypeOK, GwTypeOK, l
  <2> QED
    BY <2>1, <2>2
<1>2. Unfinished => step <= l
  BY DEF Unfinished
<1>3. l' = l
  OBVIOUS
<1>4. StepsToGo = l + 5 - step
  BY DEF StepsToGo
<1>5. /\ pc' = "writing" => StepsToGo' = l' + 5 - step'
      /\ pc' = "reader" => StepsToGo' = 3
      /\ pc' = "closing" => StepsToGo' = 1
  BY DEF StepsToGo
<1> HIDE DEF l
<1> QED
  BY <1>1, <1>2, <1>3, <1>4, <1>5

LEMMA UploadAdvances ==
  ASSUME TypeOK, UploadGraph
  PROVE  StepsToGo' < StepsToGo
<1>1. CASE Start
  <2> DEFINE l == Len(WriteTo(graph))
  <2>1. l \in Nat /\ step \in Nat /\ 1 <= step
    BY WriteToType, UploadAssumption, LenProperties DEF TypeOK, GwTypeOK, WritesIn
  <2>2. pc = "start" /\ pc' = "writing" /\ graph' = graph /\ step' = step
    BY <1>1 DEF Start, gwVars
  <2>3. StepsToGo = l + 5 /\ StepsToGo' = l + 5 - step
    BY <2>2 DEF StepsToGo
  <2> HIDE DEF l
  <2> QED
    BY <2>1, <2>3
<1>2. CASE \/ WriteText
           \/ Reaches /\ \E k \in 0..Len(Call.text) : WriteTextFails(k)
           \/ AfterError
  <2>1. /\ pc = "writing" /\ graph' = graph /\ Unfinished /\ step' = step + 1
        /\ pc' \in {"writing", "closing"}
    BY <1>2 DEF WriteText, AfterError, WriteTextFails, GwWrites, GwSkips, GwFails,
       Reaches, Return
  <2> QED
    BY <2>1, WritingAdvances
<1>3. CASE EncodeFails \/ WriteToReturns
  <2>1. pc = "writing" /\ graph' = graph /\ pc' \in {"reader", "closing"}
    BY <1>3 DEF EncodeFails, WriteToReturns, GwRefuses, GwReports, Return, gwVars
  <2> QED
    BY <2>1, WritingAdvances
<1>4. CASE ReaderError \/ DoStream \/ DoStreamFails
  BY <1>4 DEF StepsToGo, ReaderError, DoStream, DoStreamFails, Return
<1>5. CASE Respond \/ DoFails
  BY <1>5 DEF StepsToGo, Respond, DoFails, Return
<1>6. CASE \E removed \in BOOLEAN : DeferredClose(removed)
  BY <1>6 DEF StepsToGo, DeferredClose
<1> QED
  BY <1>1, <1>2, <1>3, <1>4, <1>5, <1>6 DEF UploadGraph

LEMMA EnvironmentWaits ==
  ASSUME Environment
  PROVE  StepsToGo' = StepsToGo
<1>1. UNCHANGED <<pc, graph, step>>
  BY DEF Environment, SendByte, EndOfBody, TransportFails, CloseBody, Answer, Refuse,
         Tick, callVars, gwVars
<1> QED
  BY <1>1 DEF StepsToGo

(* ingest.go:78: UploadGraph takes a bounded number of steps, for every    *)
(* graph, whatever fails and whatever the transport and the server do.     *)
THEOREM StepsAreBounded == Spec => EveryStepCounts
<1>1. TypeOK /\ [Next]_vars =>
        [/\ UploadGraph => StepsToGo' < StepsToGo
         /\ Environment => StepsToGo' = StepsToGo]_vars
  BY UploadAdvances, EnvironmentWaits
<1> QED
  BY <1>1, TypeCorrect, PTL DEF Spec, EveryStepCounts

-----------------------------------------------------------------------------
(***************************************************************************)
(* IngestUpload.  What the job is, what the caller knows of it, and what   *)
(* is still on its way between them.                                       *)
(***************************************************************************)
JobTypeOK ==
  /\ stage \in {"idle", "starting", "uploading", "uploaded", "ending", "done",
                "failed", "cleaning"}
  /\ hasId \in BOOLEAN
  /\ job \in {"none", "open", "ended"}

(* The upload runs only with an id, and the server had to make that.       *)
Started ==
  /\ hasId => job # "none"
  /\ stage \in {"idle", "starting"} => ~hasId
  /\ stage \notin {"idle", "starting", "failed"} => hasId
  /\ pc # "start" => hasId
  /\ stage = "idle" \/ "start" \in calls => job = "none"
  /\ "start" \in calls => stage # "idle"
  /\ \A r \in answers : r.op = "start" /\ r.ok => job # "none"

(* The server takes the body once, before its verdict.                     *)
Taken ==
  /\ verdict = "none" => loaded = {}
  /\ verdict = "accepted" => Whole

(* A job is ended for a call whose upload was accepted, or by a caller     *)
(* that was handed the id along with an error.                             *)
Ended ==
  /\ stage \in {"uploaded", "ending", "done"} \/ "end" \in calls => outcome = "ok"
  /\ "end" \in calls => stage \notin {"idle", "starting", "uploading"}
  /\ outcome = "ok" => hasId
  /\ "cleanup" \in calls => stage = "cleaning"
  /\ job = "ended" => hasId
  /\ stage = "done" => job = "ended"
  /\ \A r \in answers : r.op = "end" /\ r.ok => job = "ended"

JobInv == JobTypeOK /\ Started /\ Taken /\ Ended

LEMMA IngestNextIsNext == [IngestNext]_allVars => [Next]_vars
<1>1. IngestNext => Next \/ UNCHANGED vars
  BY DEF IngestNext, Ingest, Server, CleanUp, FailsLocally, StartJob, Send,
         StartJobReturns, UploadProceeds, UploadReturns, EndJob, EndJobReturns,
         JobCallFails, Serve, ServeStart, ServeEnd, JobCallRefused, TakeUpload,
         RejectUpload, TransportProceeds, Next, Environment
<1> QED
  BY <1>1 DEF allVars

(* What UploadGraph, and what the transport and the clock, leave alone.    *)
LEMMA UploadGraphFrame ==
  UploadGraph => pc # "returned" /\ UNCHANGED <<graph, verdict>>
BY DEF UploadGraph, Start, WriteText, WriteTextFails, EncodeFails, AfterError,
       WriteToReturns, ReaderError, DoStream, DoStreamFails, Respond, DoFails,
       DeferredClose, gwVars, envVars, GwWrites, GwFails, GwRefuses, GwReports,
       GwSkips, Return

LEMMA TransportFrame ==
  SendByte \/ EndOfBody \/ TransportFails \/ CloseBody \/ Tick
    => UNCHANGED <<graph, pc, outcome, verdict>>
BY DEF SendByte, EndOfBody, TransportFails, CloseBody, Tick, callVars, envVars, gwVars

LEMMA InitJobInv == IngestInit => IInv /\ JobInv
BY InitIInv DEF IngestInit, Init, JobInv, JobTypeOK, Started, Taken, Ended

LEMMA IngestPreserves == IInv /\ JobInv /\ (Ingest \/ CleanUp) => JobInv'
<1> SUFFICES ASSUME IInv, JobInv, Ingest \/ CleanUp PROVE JobInv'
  OBVIOUS
<1> USE DEF JobInv, JobTypeOK
<1>1. CASE UploadProceeds
  <2>1. /\ stage = "uploading" /\ pc # "returned"
        /\ UNCHANGED <<ingestVars, jobVars, graph, verdict>>
    BY <1>1, UploadGraphFrame DEF UploadProceeds
  <2>2. JobTypeOK' /\ Started'
    BY <2>1 DEF Started, ingestVars, jobVars
  <2>3. Taken'
    BY <2>1 DEF Taken, Whole, ingestVars, jobVars
  <2>4. Ended'
    BY <2>1 DEF Started, Ended, ingestVars, jobVars
  <2> QED
    BY <2>2, <2>3, <2>4
<1>2. CASE ~UploadProceeds
  <2>1. UNCHANGED <<vars, jobVars>>
    BY <1>2 DEF Ingest, CleanUp, FailsLocally, StartJob, Send, StartJobReturns,
                UploadReturns, EndJob, EndJobReturns, JobCallFails
  <2>2. UNCHANGED <<graph, pc, outcome, verdict, job, loaded>>
    BY <2>1 DEF vars, callVars, gwVars, envVars, jobVars
  <2>3. Taken'
    BY <2>2 DEF Taken, Whole
  <2>4. CASE FailsLocally \/ UploadReturns \/ JobCallFails
    BY <2>2, <2>3, <2>4 DEF FailsLocally, UploadReturns, JobCallFails, Started, Ended
  <2>5. CASE StartJob \/ EndJob \/ CleanUp
    BY <2>2, <2>3, <2>5 DEF StartJob, EndJob, CleanUp, Send, Started, Ended
  <2>6. ASSUME NEW a \in answers, StartJobReturns(a) PROVE JobInv'
    BY <2>2, <2>3, <2>6 DEF StartJobReturns, Started, Ended
  <2>7. ASSUME NEW a \in answers, EndJobReturns(a) PROVE JobInv'
    BY <2>2, <2>3, <2>7 DEF EndJobReturns, Started, Ended
  <2> QED
    BY <1>2, <2>4, <2>5, <2>6, <2>7 DEF Ingest
<1> QED
  BY <1>1, <1>2

LEMMA TakeUploadFacts ==
  ASSUME IInv, JobInv, NEW ok \in BOOLEAN, TakeUpload(ok)
  PROVE  /\ loaded = {} /\ loaded' = {Document(graph)} /\ job = "open" /\ hasId
         /\ verdict = "none" /\ verdict' # "none"
         /\ UNCHANGED <<ingestVars, job, graph, pc, outcome>>
<1>1. /\ tx = "sent" /\ verdict = "none" /\ job = "open"
      /\ loaded' = loaded \union {wire}
      /\ verdict' # "none"
      /\ UNCHANGED <<ingestVars, job, graph, pc, outcome>>
  BY DEF TakeUpload, Answer, Refuse, callVars, gwVars
<1>2. loaded = {} /\ wire = Document(graph)
  BY <1>1, AcceptedIsWhole DEF JobInv, Taken
<1>3. hasId
  BY <1>1 DEF JobInv, Started, IInv, Handed
<1> QED
  BY <1>1, <1>2, <1>3

LEMMA ServerPreserves == IInv /\ JobInv /\ Server => JobInv'
<1> SUFFICES ASSUME IInv, JobInv, Server PROVE JobInv'
  OBVIOUS
<1> USE DEF JobInv, JobTypeOK
<1>1. ASSUME NEW ok \in BOOLEAN, NEW id \in BOOLEAN, ServeStart(ok, id) PROVE JobInv'
  <2>1. UNCHANGED <<graph, pc, outcome, verdict, stage, hasId, loaded>>
    BY <1>1 DEF ServeStart, Serve, vars, callVars, gwVars, envVars
  <2>2. /\ "start" \in calls /\ calls' = calls \ {"start"} /\ job' = "open"
        /\ answers' = answers \union {[op |-> "start", ok |-> ok, id |-> id]}
    BY <1>1 DEF ServeStart, Serve
  <2>3. "start" \notin calls'
    BY <2>2
  <2>4. Started'
    BY <2>1, <2>2, <2>3 DEF Started
  <2>5. job = "none"
    BY <2>2 DEF Started
  <2>6. Taken' /\ Ended'
    BY <2>1, <2>2, <2>5 DEF Started, Taken, Ended, Whole
  <2> QED
    BY <2>1, <2>2, <2>4, <2>6
<1>2. ASSUME NEW op \in calls, NEW ok \in BOOLEAN, ServeEnd(op, ok) PROVE JobInv'
  <2>1. UNCHANGED <<graph, pc, outcome, verdict, stage, hasId, loaded>>
    BY <1>2 DEF ServeEnd, Serve, vars, callVars, gwVars, envVars
  <2>2. /\ op \in {"end", "cleanup"} /\ calls' = calls \ {op}
        /\ job = "open" /\ job' = "ended"
        /\ answers' = answers \union {[op |-> op, ok |-> ok, id |-> TRUE]}
    BY <1>2 DEF ServeEnd, Serve
  <2>3. Started' /\ Taken'
    BY <2>1, <2>2 DEF Started, Taken, Whole
  <2>4. hasId
    BY <2>2 DEF Started, Ended
  <2>5. Ended'
    BY <2>1, <2>2, <2>4 DEF Ended
  <2> QED
    BY <2>1, <2>2, <2>3, <2>5
<1>3. ASSUME NEW op \in calls, JobCallRefused(op) PROVE JobInv'
  <2>1. UNCHANGED <<graph, pc, outcome, verdict, stage, hasId, job, loaded>>
    BY <1>3 DEF JobCallRefused, Serve, jobVars, vars, callVars, gwVars, envVars
  <2>2. /\ calls' = calls \ {op}
        /\ answers' = answers \union {[op |-> op, ok |-> FALSE, id |-> FALSE]}
    BY <1>3 DEF JobCallRefused, Serve
  <2>3. Started' /\ Taken'
    BY <2>1, <2>2 DEF Started, Taken, Whole
  <2>4. Ended'
    BY <2>1, <2>2 DEF Ended
  <2> QED
    BY <2>1, <2>3, <2>4
<1>4. ASSUME NEW ok \in BOOLEAN, TakeUpload(ok) PROVE JobInv'
  BY <1>4, TakeUploadFacts DEF Started, Taken, Ended, Whole, ingestVars
<1>5. ASSUME RejectUpload PROVE JobInv'
  <2>1. /\ verdict' # "none" /\ verdict' # "accepted"
        /\ UNCHANGED <<graph, pc, outcome, ingestVars, jobVars>>
    BY <1>5 DEF RejectUpload, Answer, Refuse, Judgement, callVars, gwVars
  <2> QED
    BY <2>1 DEF Started, Taken, Ended, ingestVars, jobVars
<1> QED
  BY <1>1, <1>2, <1>3, <1>4, <1>5 DEF Server

LEMMA JobInvStep == IInv /\ JobInv /\ [IngestNext]_allVars => JobInv'
<1>1. IInv /\ JobInv /\ (TransportProceeds \/ UNCHANGED allVars) => JobInv'
  <2> SUFFICES ASSUME JobInv, TransportProceeds \/ UNCHANGED allVars PROVE JobInv'
    OBVIOUS
  <2>1. UNCHANGED <<graph, pc, outcome, verdict, ingestVars, jobVars>>
    BY TransportFrame DEF TransportProceeds, allVars, vars, callVars, gwVars, envVars
  <2> QED
    BY <2>1 DEF JobInv, JobTypeOK, Started, Taken, Ended, Whole, ingestVars, jobVars
<1> QED
  BY <1>1, IngestPreserves, ServerPreserves DEF IngestNext

LEMMA JobInvariance == IngestSpec => [](IInv /\ JobInv)
BY InitJobInv, IngestNextIsNext, NextIInv, JobInvStep, PTL DEF IngestSpec

-----------------------------------------------------------------------------
(***************************************************************************)
(* Ingest with an upload inside it implements IngestJob.                   *)
(***************************************************************************)
JobEffect ==
  CASE job = "none" -> "none"
    [] job = "open" -> IF Whole THEN "loaded" ELSE "open"
    [] OTHER -> IF Whole THEN "ingested" ELSE "discarded"

JobTold ==
  CASE stage = "done" -> "ok"
    [] stage \in {"failed", "cleaning"} -> IF hasId THEN "error" ELSE "orphan"
    [] OTHER -> "running"

EffectValues ==
  /\ job = "none" => JobEffect = "none"
  /\ job = "open" /\ Whole => JobEffect = "loaded"
  /\ job = "open" /\ ~Whole => JobEffect = "open"
  /\ job = "ended" /\ Whole => JobEffect = "ingested"
  /\ job = "ended" /\ ~Whole => JobEffect = "discarded"

ToldValues ==
  /\ stage = "done" => JobTold = "ok"
  /\ stage \in {"failed", "cleaning"} /\ hasId => JobTold = "error"
  /\ stage \in {"failed", "cleaning"} /\ ~hasId => JobTold = "orphan"
  /\ stage \notin {"done", "failed", "cleaning"} => JobTold = "running"

LEMMA JobEffectIs == EffectValues /\ EffectValues'
BY Zenon DEF EffectValues, JobEffect

LEMMA JobToldIs == ToldValues /\ ToldValues'
BY Zenon DEF ToldValues, JobTold

(* The one caller's effect, or what it is told, moves as IngestJob allows. *)
EffectMoves ==
  /\ JobTold' = JobTold
  /\ \/ JobEffect = "none" /\ JobTold \in {"running", "orphan"} /\ JobEffect' = "open"
     \/ JobEffect = "open" /\ JobTold \in {"running", "error"} /\ JobEffect' = "loaded"
     \/ JobEffect = "loaded" /\ JobTold \in {"running", "error"} /\ JobEffect' = "ingested"
     \/ JobEffect = "open" /\ JobTold = "error" /\ JobEffect' = "discarded"

ToldMoves ==
  /\ JobEffect' = JobEffect
  /\ JobTold = "running"
  /\ \/ JobEffect = "ingested" /\ JobTold' = "ok"
     \/ JobEffect # "none" /\ JobTold' = "error"
     \/ JobEffect \in {"none", "open"} /\ JobTold' = "orphan"

LEMMA EffectMovesIsNext == EffectMoves => Jobs!Next
<1> DEFINE E == [c \in {"call"} |-> JobEffect]
           T == [c \in {"call"} |-> JobTold]
<1>1. ASSUME NEW e, JobEffect' = e, JobTold' = JobTold
      PROVE  E' = [E EXCEPT !["call"] = e] /\ T' = T
  BY <1>1
<1>2. E["call"] = JobEffect /\ T["call"] = JobTold
  OBVIOUS
<1> QED
  BY <1>1, <1>2 DEF EffectMoves, Jobs!Next, Jobs!Open, Jobs!Load, Jobs!Ingest,
     Jobs!Discard, Jobs!Become, JobEffect, JobTold

LEMMA ToldMovesIsNext == ToldMoves => Jobs!Next
<1> DEFINE E == [c \in {"call"} |-> JobEffect]
           T == [c \in {"call"} |-> JobTold]
<1>1. ASSUME NEW t, JobTold' = t, JobEffect' = JobEffect
      PROVE  T' = [T EXCEPT !["call"] = t] /\ E' = E
  BY <1>1
<1>2. E["call"] = JobEffect /\ T["call"] = JobTold
  OBVIOUS
<1> QED
  BY <1>1, <1>2 DEF ToldMoves, Jobs!Next, Jobs!Succeed, Jobs!Fail,
     Jobs!FailWithoutJob, Jobs!Tell, JobEffect, JobTold

Stutters == JobEffect' = JobEffect /\ JobTold' = JobTold

LEMMA Unmoved ==
  /\ UNCHANGED <<job, loaded, graph>> => JobEffect' = JobEffect
  /\ UNCHANGED <<stage, hasId>> => JobTold' = JobTold
<1>1. UNCHANGED <<job, loaded, graph>> => JobEffect' = JobEffect
  BY Zenon DEF JobEffect, Whole
<1>2. UNCHANGED <<stage, hasId>> => JobTold' = JobTold
  <2> SUFFICES ASSUME stage' = stage, hasId' = hasId PROVE JobTold' = JobTold
    OBVIOUS
  <2>1. CASE hasId
    BY <2>1, JobToldIs DEF ToldValues
  <2>2. CASE ~hasId
    BY <2>2, JobToldIs DEF ToldValues
  <2> QED
    BY <2>1, <2>2
<1> QED
  BY <1>1, <1>2

(* While Ingest, or its caller, moves, the job does not.                   *)
LEMMA IngestMaps ==
  ASSUME IInv, JobInv, Ingest \/ CleanUp
  PROVE  ToldMoves \/ Stutters
<1> USE DEF JobInv, JobTypeOK, EffectValues, ToldValues
<1>1. UNCHANGED <<job, loaded, graph>>
  <2>1. CASE UploadProceeds
    BY <2>1, UploadGraphFrame DEF UploadProceeds, jobVars
  <2>2. CASE ~UploadProceeds
    BY <2>2 DEF Ingest, CleanUp, FailsLocally, StartJob, Send, StartJobReturns,
                UploadReturns, EndJob, EndJobReturns, JobCallFails, jobVars,
                vars, callVars, gwVars
  <2> QED
    BY <2>1, <2>2
<1>2. JobEffect' = JobEffect
  BY <1>1, Unmoved
<1>3. ~hasId /\ job # "ended" => JobEffect \in {"none", "open"}
  <2> SUFFICES ASSUME ~hasId, job # "ended" PROVE JobEffect \in {"none", "open"}
    OBVIOUS
  <2>1. verdict = "none"
    BY DEF Started, IInv, Verdicts, Handed
  <2>2. ~Whole
    BY <2>1 DEF Taken, Whole
  <2> QED
    BY <2>2, JobEffectIs
<1>4. hasId => JobEffect # "none"
  BY JobEffectIs DEF Started
<1>5. outcome = "ok" => Whole
  BY DEF IInv, Verdicts, Taken
<1>6. CASE FailsLocally \/ UploadReturns \/ JobCallFails
  <2>1. /\ stage \in {"idle", "starting", "uploading", "uploaded", "ending"}
        /\ stage' = "failed" \/ (stage = "uploading" /\ stage' = "uploaded")
        /\ hasId' = hasId
    BY <1>6 DEF FailsLocally, UploadReturns, JobCallFails
  <2>2. JobTold = "running" /\ (stage' = "uploaded" => JobTold' = "running")
    BY <2>1, JobToldIs
  <2>3. stage' = "failed" => JobTold' = IF hasId THEN "error" ELSE "orphan"
    BY <2>1, JobToldIs
  <2>4. ~hasId => job # "ended"
    BY DEF Ended
  <2> QED
    BY <1>2, <1>3, <1>4, <2>1, <2>2, <2>3, <2>4 DEF ToldMoves, Stutters
<1>7. CASE StartJob \/ EndJob
  <2>1. /\ stage \in {"idle", "uploaded"} /\ stage' \in {"starting", "ending"}
    BY <1>7 DEF StartJob, EndJob, Send
  <2> QED
    BY <1>2, <2>1, JobToldIs DEF Stutters
<1>8. CASE CleanUp
  BY <1>2, <1>8, JobToldIs DEF CleanUp, Send, Stutters
<1>9. CASE UploadProceeds
  BY <1>2, <1>9, Unmoved DEF UploadProceeds, ingestVars, Stutters
<1>10. ASSUME NEW a \in answers, StartJobReturns(a) PROVE ToldMoves \/ Stutters
  <2>1. /\ stage = "starting" /\ ~hasId
        /\ stage' = "uploading" \/ (stage' = "failed" /\ ~hasId')
    BY <1>10 DEF StartJobReturns, Started
  <2>2. JobTold = "running" /\ (JobTold' = "running" \/ JobTold' = "orphan")
    BY <2>1, JobToldIs
  <2>3. job # "ended"
    BY <2>1 DEF Ended
  <2> QED
    BY <1>2, <1>3, <2>1, <2>2, <2>3 DEF ToldMoves, Stutters
<1>11. ASSUME NEW a \in answers, EndJobReturns(a) PROVE ToldMoves \/ Stutters
  <2>1. /\ stage = "ending" /\ hasId /\ hasId' = hasId
        /\ (stage' = "done" /\ job = "ended") \/ stage' = "failed"
    BY <1>11 DEF EndJobReturns, Started, Ended
  <2>2. JobTold = "running" /\ outcome = "ok"
    BY <2>1, JobToldIs DEF Ended
  <2>3. \/ JobTold' = "ok" /\ JobEffect = "ingested"
        \/ JobTold' = "error"
    BY <1>5, <2>1, <2>2, JobToldIs, JobEffectIs
  <2> QED
    BY <1>2, <1>4, <2>1, <2>2, <2>3 DEF ToldMoves
<1> QED
  BY <1>6, <1>7, <1>8, <1>9, <1>10, <1>11 DEF Ingest

(* While the server moves, Ingest does not.                                *)
LEMMA ServerMaps ==
  ASSUME IInv, JobInv, Server
  PROVE  EffectMoves \/ Stutters
<1> USE DEF JobInv, JobTypeOK, EffectValues, ToldValues
<1>1. UNCHANGED <<stage, hasId, graph>>
  BY TakeUploadFacts DEF Server, ServeStart, ServeEnd, JobCallRefused, Serve,
     RejectUpload, Answer, Refuse, ingestVars, vars, callVars, gwVars
<1>2. JobTold' = JobTold
  BY <1>1, Unmoved
<1>3. hasId /\ stage # "done" => JobTold \in {"running", "error"}
  BY JobToldIs
<1>4. ASSUME NEW ok \in BOOLEAN, NEW id \in BOOLEAN, ServeStart(ok, id)
      PROVE  EffectMoves
  <2>1. job = "none" /\ ~hasId /\ job' = "open" /\ loaded' = loaded
    BY <1>4 DEF ServeStart, Serve, Started
  <2>2. JobTold \in {"running", "orphan"}
    BY <2>1, JobToldIs DEF Started
  <2>3. verdict = "none"
    BY <2>1 DEF Started, IInv, Verdicts, Handed
  <2>4. ~Whole'
    BY <1>1, <2>1, <2>3 DEF Taken, Whole
  <2> QED
    BY <1>2, <2>1, <2>2, <2>4, JobEffectIs DEF EffectMoves
<1>5. ASSUME NEW op \in calls, NEW ok \in BOOLEAN, ServeEnd(op, ok)
      PROVE  EffectMoves
  <2>1. op \in {"end", "cleanup"} /\ job = "open" /\ job' = "ended" /\ loaded' = loaded
    BY <1>5 DEF ServeEnd, Serve
  <2>2. stage # "done" /\ hasId
    BY <2>1 DEF Started, Ended
  <2>3. Whole' = Whole
    BY <1>1, <2>1 DEF Whole
  <2>4. ~Whole => JobTold = "error"
    <3>1. ~Whole => op = "cleanup"
      BY <2>1 DEF Ended, Taken, IInv, Verdicts
    <3> QED
      BY <2>2, <3>1, JobToldIs DEF Ended
  <2> QED
    BY <1>2, <1>3, <2>1, <2>2, <2>3, <2>4, JobEffectIs DEF EffectMoves
<1>6. ASSUME NEW op \in calls, JobCallRefused(op) PROVE Stutters
  BY <1>1, <1>2, <1>6, Unmoved DEF JobCallRefused, jobVars, Stutters
<1>7. ASSUME NEW ok \in BOOLEAN, TakeUpload(ok) PROVE EffectMoves
  <2>1. /\ loaded = {} /\ loaded' = {Document(graph)} /\ graph' = graph
        /\ job = "open" /\ job' = "open" /\ hasId /\ verdict = "none"
    BY <1>1, <1>7, TakeUploadFacts
  <2>2. ~Whole /\ Whole'
    BY <2>1 DEF Whole
  <2>3. stage # "done"
    BY <2>1 DEF Ended, IInv, Verdicts
  <2> QED
    BY <1>2, <1>3, <2>1, <2>2, <2>3, JobEffectIs DEF EffectMoves
<1>8. CASE RejectUpload
  BY <1>1, <1>2, <1>8, Unmoved DEF RejectUpload, jobVars, Stutters
<1> QED
  BY <1>4, <1>5, <1>6, <1>7, <1>8 DEF Server

LEMMA StuttersIsStutter == Stutters => UNCHANGED Jobs!vars
BY Zenon DEF Stutters, Jobs!vars, JobEffect, JobTold

LEMMA IngestStepMaps ==
  IInv /\ JobInv /\ [IngestNext]_allVars => [Jobs!Next]_(Jobs!vars)
<1> SUFFICES ASSUME IInv, JobInv, [IngestNext]_allVars
             PROVE  EffectMoves \/ ToldMoves \/ Stutters
  BY EffectMovesIsNext, ToldMovesIsNext, StuttersIsStutter
<1>1. CASE TransportProceeds \/ UNCHANGED allVars
  <2>1. UNCHANGED <<stage, hasId, job, loaded, graph>>
    BY <1>1, TransportFrame DEF TransportProceeds, allVars, ingestVars, jobVars,
       vars, callVars, gwVars
  <2> QED
    BY <2>1, Unmoved DEF Stutters
<1> QED
  BY <1>1, IngestMaps, ServerMaps DEF IngestNext

LEMMA IngestInitMaps == IngestInit => Jobs!Init
<1> SUFFICES ASSUME IngestInit PROVE JobEffect = "none" /\ JobTold = "running"
  BY Zenon DEF Jobs!Init, JobEffect, JobTold
<1> QED
  BY JobEffectIs, JobToldIs DEF IngestInit, EffectValues, ToldValues

(* ingest.go:30: with an upload inside it Ingest is still what IngestJob   *)
(* promises.  A caller is told ok only of a job that has been ended with   *)
(* the document of its graph in it and nothing else; after an error the    *)
(* job it was handed may still be loaded and ended by late requests, and   *)
(* what it was not given a job for is at worst an empty open job.          *)
THEOREM IngestKeepsItsPromise == IngestSpec => ImplementsIngestJob
<1>1. IngestSpec => Jobs!Init
  BY IngestInitMaps DEF IngestSpec
<1>2. IngestSpec => [][Jobs!Next]_(Jobs!vars)
  BY JobInvariance, IngestStepMaps, PTL DEF IngestSpec
<1> QED
  BY <1>1, <1>2, PTL DEF ImplementsIngestJob, Jobs!Spec
=============================================================================
