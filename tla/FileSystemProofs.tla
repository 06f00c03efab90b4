-------------------------- MODULE FileSystemProofs --------------------------
(***************************************************************************)
(* Proofs about Stat, ReadDir, Getwd and Mkdir, for trees of two levels    *)
(* over any names and kinds, any date, and any number of changes by other  *)
(* clients while a call falls back from command to command.                *)
(***************************************************************************)
EXTENDS FileSystem, SequenceTheorems, FiniteSetTheorems, TLAPS

-----------------------------------------------------------------------------
(* Texts                                                                   *)

(* What the texts are made of that the server writes. *)
Written == Tokens \cup {"/", ".", "->", "etc", "real"}

LEMMA NoSlash ==
  ASSUME NEW n, Name(n)
  PROVE  /\ n \in Seq(Written) /\ Len(n) \in Nat /\ Len(n) > 0
         /\ \A i \in 1..Len(n) : n[i] # "/"
         /\ ~Contains(n, "/")
<1>1. n \in Seq(Tokens) /\ n # <<>>
  BY DEF Name
<1>2. n \in Seq(Written)
  BY <1>1 DEF Written
<1>3. Len(n) \in Nat /\ Len(n) > 0
  BY <1>1, EmptySeq
<1>4. \A i \in 1..Len(n) : n[i] # "/"
  BY <1>1, NamesAssumption
<1> QED BY <1>2, <1>3, <1>4 DEF Contains

LEMMA FirstKept ==
  ASSUME NEW s \in Seq(Written), NEW t \in Seq(Written), Len(s) > 0
  PROVE  Len(s \o t) > 0 /\ (s \o t)[1] = s[1]
<1>1. Len(s) \in Nat /\ Len(t) \in Nat
  OBVIOUS
<1> QED BY <1>1, ConcatProperties

LEMMA TextTypes ==
  /\ <<"/">> \in Seq(Written) /\ Len(<<"/">>) = 1 /\ <<"/">>[1] = "/"
  /\ LET arrow == <<"->", "etc", "/", "real">>
     IN arrow \in Seq(Written) /\ Len(arrow) = 4 /\ arrow[1] = "->"
BY DEF Written

LEMMA BaseOfName ==
  ASSUME NEW n, Name(n)
  PROVE  Base(n) = n
BY NoSlash DEF Base

LEMMA TheLargest ==
  ASSUME NEW S \in SUBSET Int, NEW x \in S, \A y \in S : x >= y
  PROVE  Max(S) = x
<1>1. \A z \in S : (\A y \in S : z >= y) => z = x
  OBVIOUS
<1> QED BY <1>1 DEF Max

LEMMA TheSmallest ==
  ASSUME NEW S \in SUBSET Int, NEW x \in S, \A y \in S : x <= y
  PROVE  Min(S) = x
<1>1. \A z \in S : (\A y \in S : z <= y) => z = x
  OBVIOUS
<1> QED BY <1>1 DEF Min

(* filepath.Base takes what follows the last slash. *)
LEMMA BaseAfterSlash ==
  ASSUME NEW u \in Seq(Written), NEW n, Name(n)
  PROVE  Base(u \o <<"/">> \o n) = n
<1> DEFINE text == u \o <<"/">> \o n
           slash == Len(u) + 1
<1>1. n \in Seq(Written) /\ Len(n) \in Nat /\ Len(u) \in Nat
  BY NoSlash
<1>2. Len(n) > 0
  BY NoSlash
<1>3. \A i \in 1..Len(n) : n[i] # "/"
  BY NoSlash
<1>4. /\ text \in Seq(Written) /\ Len(text) = Len(u) + 1 + Len(n)
      /\ text[slash] = "/"
      /\ \A i \in 1..Len(n) : text[slash + i] = n[i]
  <2>1. /\ u \o <<"/">> \in Seq(Written) /\ Len(u \o <<"/">>) = slash
        /\ (u \o <<"/">>)[slash] = "/"
    <3> DEFINE w == <<"/">>
    <3>1. w \in Seq(Written) /\ Len(w) = 1 /\ w[1] = "/"
      BY TextTypes
    <3> HIDE DEF w
    <3>2. ASSUME NEW x \in Seq(Written)
          PROVE  /\ u \o x \in Seq(Written) /\ Len(u \o x) = Len(u) + Len(x)
                 /\ \A i \in 1..Len(x) : (u \o x)[Len(u) + i] = x[i]
      BY ONLY <1>1, <3>2
    <3>3. /\ u \o w \in Seq(Written) /\ Len(u \o w) = Len(u) + Len(w)
          /\ \A i \in 1..Len(w) : (u \o w)[Len(u) + i] = w[i]
      BY <3>1, <3>2
    <3>4. u \o w \in Seq(Written) /\ Len(u \o w) = slash /\ (u \o w)[slash] = "/"
      BY <3>1, <3>3
    <3> QED BY <3>4 DEF w
  <2> DEFINE v == u \o <<"/">>
  <2> HIDE DEF v
  <2>2. v \in Seq(Written) /\ Len(v) = slash /\ v[slash] = "/"
    BY <2>1 DEF v
  <2>3. /\ v \o n \in Seq(Written) /\ Len(v \o n) = slash + Len(n)
        /\ (v \o n)[slash] = "/"
        /\ \A i \in 1..Len(n) : (v \o n)[slash + i] = n[i]
    BY <1>1, <2>2
  <2> QED BY <1>1, <2>3 DEF v
<1> HIDE DEF text
<1>5. Contains(text, "/") /\ text # <<"/">>
  BY <1>1, <1>2, <1>4, SMTT(30) DEF Contains
<1>6. slash \in Positions(text, "/") /\ Positions(text, "/") \subseteq Int
  BY <1>1, <1>4 DEF Positions
<1>7. \A j \in Positions(text, "/") : slash >= j
  <2>1. SUFFICES ASSUME NEW j \in 1..Len(text), text[j] = "/", j > slash PROVE FALSE
    BY <1>1, <1>4 DEF Positions
  <2>2. j - slash \in 1..Len(n) /\ slash + (j - slash) = j
    BY <1>1, <1>4, <2>1
  <2> QED BY <1>3, <1>4, <2>1, <2>2
<1>8. Max(Positions(text, "/")) = slash
  BY <1>6, <1>7, TheLargest
<1>9. SubSeq(text, slash + 1, Len(text)) = n
  <2>1. /\ SubSeq(text, slash + 1, Len(text)) \in Seq(Written)
        /\ Len(SubSeq(text, slash + 1, Len(text))) = Len(n)
        /\ \A i \in 1..Len(n) : SubSeq(text, slash + 1, Len(text))[i] = text[slash + i]
    BY <1>1, <1>4
  <2> QED BY <1>1, <1>4, <2>1, SeqEqual
<1> QED BY <1>5, <1>8, <1>9 DEF Base, text

(* The name of a link ends at the first arrow. *)
LEMMA NameBeforeArrow ==
  ASSUME NEW t \in Seq(Written), ~Contains(t, "->"),
         NEW link \in Seq(Written), Len(link) > 0, link[1] = "->"
  PROVE  LinkName(t \o link) = t
<1> DEFINE text == t \o link
           arrow == Len(t) + 1
<1>1. Len(t) \in Nat /\ Len(link) \in Nat
  OBVIOUS
<1>2. \A i \in 1..Len(t) : t[i] # "->"
  BY DEF Contains
<1>3. /\ text \in Seq(Written) /\ Len(text) = Len(t) + Len(link)
      /\ text[arrow] = "->"
      /\ \A i \in 1..Len(t) : text[i] = t[i]
  BY <1>1
<1> HIDE DEF text
<1>4. arrow \in Positions(text, "->") /\ Positions(text, "->") \subseteq Int
  BY <1>1, <1>3 DEF Positions
<1>5. \A j \in Positions(text, "->") : arrow <= j
  BY <1>1, <1>2, <1>3 DEF Positions
<1>6. Min(Positions(text, "->")) = arrow
  BY <1>4, <1>5, TheSmallest
<1>7. Contains(text, "->")
  BY <1>1, <1>3 DEF Contains
<1>8. SubSeq(text, 1, arrow - 1) = t
  <2>1. /\ SubSeq(text, 1, arrow - 1) \in Seq(Written)
        /\ Len(SubSeq(text, 1, arrow - 1)) = Len(t)
        /\ \A i \in 1..Len(t) : SubSeq(text, 1, arrow - 1)[i] = text[i]
    BY <1>1, <1>3
  <2> QED BY <1>3, <2>1, SeqEqual
<1> QED BY <1>6, <1>7, <1>8 DEF LinkName, text

(* ls shows the month of a file, and its year unless it is recent: the     *)
(* client recovers the date.                                               *)
LEMMA DateRecovered ==
  ASSUME NEW m \in Int, m \in {Now, Now - 3, Now - 8},
         NEW year, year = IF m > Now - 6 THEN NoYear ELSE m \div 12
  PROVE  12 * (IF year = NoYear THEN Year(m % 12, Now) ELSE year) + (m % 12) = m
<1>1. Now \in Nat
  BY FileSystemAssumption
<1>2. CASE m = Now
  BY <1>1, <1>2 DEF Year, NoYear
<1>3. CASE m = Now - 3
  BY <1>1, <1>3 DEF Year, NoYear
<1>4. CASE m = Now - 8
  BY <1>1, <1>4 DEF Year, NoYear
<1> QED BY <1>2, <1>3, <1>4

LEMMA InEither ==
  ASSUME NEW s \in Seq(Written), NEW t \in Seq(Written), NEW e, ~Contains(s, e), ~Contains(t, e)
  PROVE  ~Contains(s \o t, e)
<1>1. Len(s) \in Nat /\ Len(t) \in Nat
  OBVIOUS
<1>2. /\ Len(s \o t) = Len(s) + Len(t)
      /\ \A i \in 1..Len(s) + Len(t) : (s \o t)[i] = IF i <= Len(s) THEN s[i] ELSE t[i - Len(s)]
  BY ConcatProperties
<1>3. SUFFICES ASSUME NEW i \in 1..Len(s) + Len(t), (s \o t)[i] = e PROVE FALSE
  BY <1>2 DEF Contains
<1>4. CASE i <= Len(s)
  BY <1>1, <1>2, <1>3, <1>4 DEF Contains
<1>5. CASE i > Len(s)
  <2>1. i - Len(s) \in 1..Len(t) /\ t[i - Len(s)] = e
    BY <1>1, <1>2, <1>3, <1>5
  <2> QED BY <2>1 DEF Contains
<1> QED BY <1>1, <1>4, <1>5

-----------------------------------------------------------------------------
(* Paths                                                                   *)

Path(p) ==
  /\ p \in Seq(Seq(Tokens)) /\ Len(p) \in {1, 2}
  /\ \A i \in 1..Len(p) : Name(p[i])

LEMMA Single ==
  ASSUME NEW S, NEW a \in S
  PROVE  <<a>> \in Seq(S) /\ Len(<<a>>) = 1 /\ <<a>>[1] = a
OBVIOUS

LEMMA Pair ==
  ASSUME NEW S, NEW a \in S, NEW b \in S
  PROVE  <<a, b>> \in Seq(S) /\ Len(<<a, b>>) = 2 /\ <<a, b>>[1] = a /\ <<a, b>>[2] = b
OBVIOUS

LEMMA PathsOverNames ==
  ASSUME NEW names \in NameSets, NEW p \in PathsOver(names)
  PROVE  Path(p)
<1>1. \A n \in names : n \in Seq(Tokens) /\ Name(n)
  BY NamesAssumption DEF Name
<1>2. CASE p \in {<<n>> : n \in names}
  <2>1. PICK n \in names : p = <<n>>
    BY <1>2
  <2>2. p \in Seq(Seq(Tokens)) /\ Len(p) = 1 /\ p[1] = n
    BY <1>1, <2>1, Single
  <2> QED BY <1>1, <2>2 DEF Path
<1>3. CASE p \in {<<d, n>> : d \in names \cap Folders, n \in names}
  <2>1. PICK d \in names, n \in names : p = <<d, n>>
    BY <1>3
  <2>2. p \in Seq(Seq(Tokens)) /\ Len(p) = 2 /\ p[1] = d /\ p[2] = n
    BY <1>1, <2>1, Pair
  <2> QED BY <1>1, <2>2 DEF Path
<1> QED BY <1>2, <1>3 DEF PathsOver

LEMMA PathParts ==
  ASSUME NEW p, Path(p)
  PROVE  /\ p # <<>> /\ DOMAIN p = 1..Len(p) /\ Name(Last(p)) /\ Last(p) = p[Len(p)]
         /\ Len(p) = 1 => Front(p) = <<>> /\ p = <<Last(p)>>
         /\ Len(p) = 2 => /\ Front(p) = <<p[1]>> /\ Path(Front(p)) /\ Name(p[1])
                          /\ p = <<p[1], Last(p)>>
<1>1. p \in Seq(Seq(Tokens)) /\ Len(p) \in {1, 2} /\ \A i \in 1..Len(p) : Name(p[i])
  BY DEF Path
<1>2. p # <<>> /\ DOMAIN p = 1..Len(p) /\ Name(Last(p)) /\ Last(p) = p[Len(p)]
  BY <1>1 DEF Last
<1>3. CASE Len(p) = 1
  BY <1>1, <1>2, <1>3 DEF Front, Last
<1>4. CASE Len(p) = 2
  <2>0. p[1] \in Seq(Tokens) /\ p[2] \in Seq(Tokens)
    <3>1. 1 \in 1..Len(p) /\ 2 \in 1..Len(p)
      BY <1>4
    <3>2. Name(p[1]) /\ Name(p[2])
      BY <1>1, <3>1
    <3> QED BY <3>2, Zenon DEF Name
  <2>a. \A i \in 1..2 : i = 1 \/ i = 2
    OBVIOUS
  <2>b. p = <<p[1], p[2]>>
    <3> DEFINE t == <<p[1], p[2]>>
    <3>1. t \in Seq(Seq(Tokens)) /\ Len(t) = 2 /\ t[1] = p[1] /\ t[2] = p[2]
      BY <2>0, Pair
    <3> HIDE DEF t
    <3>2. p = t
      BY <1>1, <1>4, <2>a, <3>1, SeqEqual
    <3> QED BY <3>2 DEF t
  <2>c. Front(p) = <<p[1]>>
    <3> DEFINE t == <<p[1]>>
    <3>1. t \in Seq(Seq(Tokens)) /\ Len(t) = 1 /\ t[1] = p[1]
      BY <2>0, Single
    <3>2. SubSeq(p, 1, 1) \in Seq(Seq(Tokens)) /\ Len(SubSeq(p, 1, 1)) = 1
          /\ SubSeq(p, 1, 1)[1] = p[1]
      BY <1>1, <1>4
    <3> HIDE DEF t
    <3>3. SubSeq(p, 1, 1) = t
      BY <3>1, <3>2, SeqEqual
    <3> QED BY <1>4, <3>3 DEF Front, t
  <2>1. Front(p) = <<p[1]>> /\ p = <<p[1], p[2]>>
    BY <2>b, <2>c
  <2>2. Name(p[1]) /\ p[1] \in Seq(Tokens)
    BY <1>1, <1>4
  <2>3. Path(<<p[1]>>)
    BY <2>2, Single DEF Path
  <2> QED BY <1>2, <1>4, <2>1, <2>2, <2>3
<1> QED BY <1>1, <1>2, <1>3, <1>4

(* The path's text begins with a slash, ends with its name, and has an     *)
(* arrow only in a name.                                                   *)
LEMMA FullPath ==
  ASSUME NEW p, Path(p)
  PROVE  /\ Full(p) \in Seq(Written) /\ Base(Full(p)) = Last(p)
         /\ Len(Full(p)) > 0 /\ Full(p)[1] = "/"
         /\ (\A i \in DOMAIN p : ~Contains(p[i], "->")) => ~Contains(Full(p), "->")
<1> DEFINE u == IF Len(p) = 2 THEN <<"/">> \o p[1] ELSE <<>>
           slash == <<"/">>
<1>1. Full(p) = u \o slash \o Last(p)
  BY PathParts DEF Full
<1>2. Name(Last(p)) /\ Last(p) \in Seq(Written)
  BY PathParts, NoSlash
<1>3. slash \in Seq(Written) /\ ~Contains(slash, "->")
  BY TextTypes DEF Contains
<1>4. u \in Seq(Written)
  <2>1. CASE Len(p) = 2
    <3>1. p[1] \in Seq(Written)
      BY <2>1, PathParts, NoSlash
    <3> QED BY <1>3, <2>1, <3>1, ConcatProperties
  <2>2. CASE Len(p) # 2
    BY <2>2
  <2> QED BY <2>1, <2>2
<1>5. Base(Full(p)) = Last(p)
  <2> HIDE DEF u
  <2> QED BY <1>1, <1>2, <1>4, BaseAfterSlash
<1>6. u \o slash \in Seq(Written)
  <2> HIDE DEF u, slash
  <2> QED BY <1>3, <1>4, ConcatProperties
<1>7. Full(p) \in Seq(Written)
  <2> HIDE DEF u, slash
  <2> QED BY <1>1, <1>2, <1>6, ConcatProperties
<1>8. ASSUME \A i \in DOMAIN p : ~Contains(p[i], "->")
      PROVE  ~Contains(Full(p), "->")
  <2>1. DOMAIN p = 1..Len(p) /\ Len(p) \in {1, 2} /\ Last(p) = p[Len(p)]
    BY PathParts DEF Path
  <2>2. ~Contains(Last(p), "->") /\ (Len(p) = 2 => ~Contains(p[1], "->"))
    BY <1>8, <2>1
  <2>3. ~Contains(u, "->")
    <3>1. CASE Len(p) = 2
      <4>1. p[1] \in Seq(Written)
        BY <3>1, PathParts, NoSlash
      <4>2. u = slash \o p[1]
        BY <3>1
      <4> HIDE DEF u, slash
      <4> QED BY <1>3, <2>2, <3>1, <4>1, <4>2, InEither
    <3>2. CASE Len(p) # 2
      BY <3>2 DEF Contains
    <3> QED BY <3>1, <3>2
  <2> HIDE DEF u, slash
  <2>4. ~Contains(u \o slash, "->")
    BY <1>3, <1>4, <2>3, InEither
  <2> QED BY <1>1, <1>2, <1>6, <2>2, <2>4, InEither
<1>9. Len(Full(p)) > 0 /\ Full(p)[1] = "/"
  <2>1. slash \in Seq(Written) /\ Len(slash) = 1 /\ slash[1] = "/"
    BY TextTypes
  <2>2. Len(u \o slash) > 0 /\ (u \o slash)[1] = "/"
    <3>1. CASE Len(p) = 2
      <4>1. p[1] \in Seq(Written)
        BY <3>1, PathParts, NoSlash
      <4>2. u = slash \o p[1]
        BY <3>1
      <4> HIDE DEF u, slash
      <4>3. Len(u) > 0 /\ u[1] = "/"
        BY <2>1, <4>1, <4>2, FirstKept
      <4> QED BY <1>4, <2>1, <4>3, FirstKept
    <3>2. CASE Len(p) # 2
      <4>1. u = <<>>
        BY <3>2
      <4> HIDE DEF u, slash
      <4>2. u \o slash = slash
        BY <2>1, <4>1, ConcatEmptySeq
      <4> QED BY <2>1, <4>2
    <3> QED BY <3>1, <3>2
  <2> HIDE DEF u, slash
  <2> QED BY <1>1, <1>2, <1>6, <2>2, FirstKept
<1> QED BY <1>5, <1>7, <1>8, <1>9

LEMMA FullRoot == Full(<<>>) = <<"/">>
BY DEF Full

-----------------------------------------------------------------------------
(* Quoted names: what extractDirName undoes is what the server did, for a  *)
(* text of any length.                                                     *)

(* Every set of natural numbers has a least one: a claim about all of them *)
(* is proved by refuting the least that would violate it.                  *)
LEMMA LeastNat ==
  ASSUME NEW T, T \subseteq Nat, T # {}
  PROVE  \E x \in T : \A y \in T : x <= y
<1> DEFINE R == OpToRel(<, Nat)
<1>1. IsWellFoundedOn(R, Nat)
  BY NatLessThanWellFounded
<1>2. \A x, y \in Nat : <<y, x>> \in R <=> y < x
  BY DEF OpToRel
<1> HIDE DEF R
<1>3. PICK x \in T : \A y \in T : <<y, x>> \notin R
  BY <1>1, WFMin, Zenon
<1>4. \A y \in T : ~(y < x)
  BY <1>2, <1>3
<1>5. \A y \in T : x <= y
  BY <1>4
<1> QED BY <1>5

(* A quote takes two places, any other token one. *)
LEMMA PlaceStep ==
  ASSUME NEW S, NEW t \in Seq(S)
  PROVE  /\ Place(t, 1) = 1
         /\ \A i \in 1..(Len(t) + 1) : Place(t, i) \in Nat /\ Place(t, i) >= i
         /\ \A i \in 1..Len(t) : Place(t, i + 1) = Place(t, i) + IF t[i] = "'" THEN 2 ELSE 1
<1> DEFINE Before(i) == {j \in 1..(i - 1) : t[j] = "'"}
<1>1. \A i \in 1..(Len(t) + 1) : Place(t, i) = i + Cardinality(Before(i))
  BY DEF Place
<1>2. \A i \in 1..(Len(t) + 1) : IsFiniteSet(Before(i)) /\ Cardinality(Before(i)) \in Nat
  <2> SUFFICES ASSUME NEW i \in 1..(Len(t) + 1)
               PROVE  IsFiniteSet(Before(i)) /\ Cardinality(Before(i)) \in Nat
    OBVIOUS
  <2>1. Before(i) \in SUBSET (1..(i - 1)) /\ i - 1 \in Int
    OBVIOUS
  <2>2. IsFiniteSet(1..(i - 1))
    BY <2>1, FS_Interval
  <2> HIDE DEF Before
  <2> QED BY <2>1, <2>2, FS_Subset, FS_CardinalityType
<1>3. Before(1) = {}
  OBVIOUS
<1>4. ASSUME NEW i \in 1..Len(t), t[i] = "'"
      PROVE  Before(i + 1) = Before(i) \cup {i} /\ i \notin Before(i)
  BY <1>4
<1>5. ASSUME NEW i \in 1..Len(t), t[i] # "'"
      PROVE  Before(i + 1) = Before(i)
  BY <1>5
<1>6. \A i \in 1..Len(t) : i \in 1..(Len(t) + 1) /\ i + 1 \in 1..(Len(t) + 1)
  OBVIOUS
<1> HIDE DEF Before
<1>7. ASSUME NEW i \in 1..Len(t)
      PROVE  Place(t, i + 1) = Place(t, i) + IF t[i] = "'" THEN 2 ELSE 1
  <2>1. Cardinality(Before(i + 1)) = Cardinality(Before(i)) + IF t[i] = "'" THEN 1 ELSE 0
    <3>1. CASE t[i] = "'"
      <4>1. Cardinality(Before(i) \cup {i}) = Cardinality(Before(i)) + 1
        BY <1>2, <1>4, <1>6, <3>1, FS_AddElement
      <4> QED BY <1>4, <3>1, <4>1
    <3>2. CASE t[i] # "'"
      BY <1>2, <1>5, <1>6, <3>2
    <3> QED BY <3>1, <3>2
  <2>2. /\ Place(t, i) = i + Cardinality(Before(i))
        /\ Place(t, i + 1) = i + 1 + Cardinality(Before(i + 1))
        /\ Cardinality(Before(i)) \in Nat
    BY <1>1, <1>2, <1>6
  <2>3. i \in Nat
    OBVIOUS
  <2> QED BY ONLY <2>1, <2>2, <2>3
<1>8. Place(t, 1) = 1
  <2>1. Cardinality(Before(1)) = 0
    BY <1>3, FS_EmptySet
  <2> QED BY <1>1, <2>1
<1>9. \A i \in 1..(Len(t) + 1) : Place(t, i) \in Nat /\ Place(t, i) >= i
  BY <1>1, <1>2
<1> QED BY <1>7, <1>8, <1>9

(* Tokens keep their order. *)
LEMMA PlaceOrder ==
  ASSUME NEW S, NEW t \in Seq(S), NEW i \in 1..Len(t), NEW j \in 1..(Len(t) + 1), i < j
  PROVE  Place(t, i + 1) <= Place(t, j)
<1> DEFINE Before(k) == {n \in 1..(k - 1) : t[n] = "'"}
<1>1. /\ Before(i + 1) \in SUBSET Before(j) /\ j - 1 \in Int
      /\ Before(j) \in SUBSET (1..(j - 1))
  OBVIOUS
<1>2. Place(t, i + 1) = i + 1 + Cardinality(Before(i + 1)) /\ Place(t, j) = j + Cardinality(Before(j))
  BY DEF Place
<1> HIDE DEF Before
<1>3. /\ IsFiniteSet(Before(j)) /\ IsFiniteSet(Before(i + 1))
      /\ Cardinality(Before(i + 1)) <= Cardinality(Before(j))
  <2>1. IsFiniteSet(1..(j - 1))
    BY <1>1, FS_Interval
  <2>2. IsFiniteSet(Before(j))
    BY <1>1, <2>1, FS_Subset
  <2> QED BY <1>1, <2>2, FS_Subset
<1>4. Cardinality(Before(i + 1)) \in Nat /\ Cardinality(Before(j)) \in Nat
  BY <1>3, FS_CardinalityType
<1> QED BY <1>2, <1>3, <1>4

(* Every place is taken. *)
LEMMA PlaceTaken ==
  ASSUME NEW S, NEW t \in Seq(S), NEW k \in 1..(Place(t, Len(t) + 1) - 1)
  PROVE  \E i \in 1..Len(t) : k \in Place(t, i)..(Place(t, i + 1) - 1)
<1> DEFINE Later == {i \in 1..(Len(t) + 1) : k < Place(t, i)}
<1>1. Len(t) \in Nat
  OBVIOUS
<1>2. \A i \in 1..(Len(t) + 1) : Place(t, i) \in Nat
  BY PlaceStep
<1>3. Len(t) + 1 \in Later /\ Later \subseteq Nat /\ 1 \notin Later
  BY <1>1, <1>2, PlaceStep
<1>4. PICK m \in Later : \A i \in Later : m <= i
  BY <1>3, LeastNat
<1>5. m \in 1..(Len(t) + 1) /\ k < Place(t, m) /\ m # 1
  BY <1>3, <1>4
<1>6. m - 1 \in 1..Len(t) /\ (m - 1) + 1 = m /\ m - 1 \notin Later
  BY <1>1, <1>4, <1>5
<1>7. m - 1 \in 1..(Len(t) + 1) /\ Place(t, m - 1) <= k
  BY <1>1, <1>2, <1>6
<1>8. k \in Place(t, m - 1)..(Place(t, (m - 1) + 1) - 1)
  BY <1>2, <1>5, <1>6, <1>7
<1> QED BY <1>6, <1>8

(* Doubled writes each token to its places. *)
LEMMA DoubledText ==
  ASSUME NEW S, NEW t \in Seq(S)
  PROVE  /\ Doubled(t) \in Seq(S) /\ Len(Doubled(t)) = Place(t, Len(t) + 1) - 1
         /\ \A i \in 1..Len(t) : \A k \in Place(t, i)..(Place(t, i + 1) - 1) :
              k \in 1..Len(Doubled(t)) /\ Doubled(t)[k] = t[i]
<1> DEFINE last == Place(t, Len(t) + 1) - 1
           Block(i) == Place(t, i)..(Place(t, i + 1) - 1)
           owner(k) == CHOOSE i \in DOMAIN t : k \in Block(i)
<1>1. Len(t) \in Nat /\ DOMAIN t = 1..Len(t) /\ last \in Nat
  BY PlaceStep
<1>2. \A i \in 1..Len(t) : Place(t, i) \in Nat /\ Place(t, i + 1) \in Nat /\ Place(t, i) >= 1
  BY <1>1, PlaceStep
<1>3. ASSUME NEW i \in 1..Len(t), NEW j \in 1..Len(t), NEW k \in Block(i), k \in Block(j)
      PROVE  i = j
  <2>1. i < j => Place(t, i + 1) <= Place(t, j)
    BY <1>1, PlaceOrder
  <2>2. j < i => Place(t, j + 1) <= Place(t, i)
    BY <1>1, PlaceOrder
  <2> QED BY <1>2, <1>3, <2>1, <2>2
<1>4. \A k \in 1..last : \E i \in DOMAIN t : k \in Block(i)
  BY <1>1, PlaceTaken
<1>5. Doubled(t) = [k \in 1..last |-> t[owner(k)]]
  BY DEF Doubled
<1> HIDE DEF Block, last
<1>6. \A k \in 1..last : owner(k) \in 1..Len(t) /\ k \in Block(owner(k))
  BY <1>1, <1>4
<1> HIDE DEF owner
<1>7. Doubled(t) \in Seq(S) /\ Len(Doubled(t)) = last
  <2>1. \A k \in 1..last : t[owner(k)] \in S
    BY <1>1, <1>6
  <2> QED BY <1>1, <1>5, <2>1
<1>8. ASSUME NEW i \in 1..Len(t), NEW k \in Block(i)
      PROVE  k \in 1..last /\ Doubled(t)[k] = t[i]
  <2>1. k \in 1..last
    <3>1. Place(t, i + 1) <= Place(t, Len(t) + 1)
      BY <1>1, PlaceOrder
    <3>2. k \in Place(t, i)..(Place(t, i + 1) - 1) /\ last = Place(t, Len(t) + 1) - 1
      BY DEF Block, last
    <3>3. Place(t, Len(t) + 1) \in Nat
      BY <1>1, PlaceStep
    <3> QED BY <1>2, <3>1, <3>2, <3>3
  <2>2. owner(k) = i
    BY <1>3, <1>6, <1>8, <2>1
  <2> QED BY <1>5, <2>1, <2>2
<1> QED BY <1>7, <1>8 DEF Block, last

-----------------------------------------------------------------------------

(* How a run of quotes grows. *)
LEMMA RunGrows ==
  ASSUME NEW S, NEW d \in Seq(S)
  PROVE  /\ Run(d, "'", 0) = 0
         /\ \A k \in 1..Len(d) :
              /\ Run(d, "'", k - 1) \in Nat /\ Run(d, "'", k) \in Nat
              /\ Run(d, "'", k) = IF d[k] = "'" THEN Run(d, "'", k - 1) + 1 ELSE 0
<1> DEFINE Gapless(k) == {j \in 1..k : \A n \in j..k : d[n] = "'"}
<1>1. \A k \in 0..Len(d) : Run(d, "'", k) = Cardinality(Gapless(k))
  BY DEF Run
<1>2. \A k \in 0..Len(d) : IsFiniteSet(Gapless(k)) /\ Cardinality(Gapless(k)) \in Nat
  <2> SUFFICES ASSUME NEW k \in 0..Len(d)
               PROVE  IsFiniteSet(Gapless(k)) /\ Cardinality(Gapless(k)) \in Nat
    OBVIOUS
  <2>1. Gapless(k) \in SUBSET (1..k) /\ k \in Int
    OBVIOUS
  <2>2. IsFiniteSet(1..k)
    BY <2>1, FS_Interval
  <2> HIDE DEF Gapless
  <2> QED BY <2>1, <2>2, FS_Subset, FS_CardinalityType
<1>3. Gapless(0) = {}
  OBVIOUS
<1>4. ASSUME NEW k \in 1..Len(d), d[k] = "'"
      PROVE  Gapless(k) = Gapless(k - 1) \cup {k} /\ k \notin Gapless(k - 1)
  BY <1>4
<1>5. ASSUME NEW k \in 1..Len(d), d[k] # "'"
      PROVE  Gapless(k) = {}
  BY <1>5
<1>6. \A k \in 1..Len(d) : k \in 0..Len(d) /\ k - 1 \in 0..Len(d)
  OBVIOUS
<1> HIDE DEF Gapless
<1>7. ASSUME NEW k \in 1..Len(d)
      PROVE  Run(d, "'", k) = IF d[k] = "'" THEN Run(d, "'", k - 1) + 1 ELSE 0
  <2>1. CASE d[k] = "'"
    <3>1. Cardinality(Gapless(k - 1) \cup {k}) = Cardinality(Gapless(k - 1)) + 1
      BY <1>2, <1>4, <1>6, <2>1, FS_AddElement
    <3> QED BY <1>1, <1>4, <1>6, <2>1, <3>1
  <2>2. CASE d[k] # "'"
    BY <1>1, <1>5, <1>6, <2>2, FS_EmptySet
  <2> QED BY <2>1, <2>2
<1>8. Run(d, "'", 0) = 0
  <2>1. 0 \in 0..Len(d)
    OBVIOUS
  <2> QED BY <1>1, <1>3, <2>1, FS_EmptySet
<1> QED BY <1>1, <1>2, <1>6, <1>7, <1>8

(* Of the two places of a quote the first ends an odd run of quotes and    *)
(* the second an even one, however many quotes stand before it.            *)
LEMMA RunParity ==
  ASSUME NEW S, NEW t \in Seq(S), NEW i \in 1..Len(t), t[i] = "'"
  PROVE  /\ Run(Doubled(t), "'", Place(t, i)) % 2 = 1
         /\ Run(Doubled(t), "'", Place(t, i) + 1) % 2 = 0
<1> DEFINE d == Doubled(t)
           Odd(n) == /\ Run(d, "'", Place(t, n)) % 2 = 1
                     /\ Run(d, "'", Place(t, n) + 1) % 2 = 0
           Wrong == {n \in 1..Len(t) : t[n] = "'" /\ ~Odd(n)}
<1>1. d \in Seq(S) /\ Len(t) \in Nat
  BY DoubledText
<1>2. \A n \in 1..Len(t) : \A k \in Place(t, n)..(Place(t, n + 1) - 1) :
        k \in 1..Len(d) /\ d[k] = t[n]
  BY DoubledText
<1> HIDE DEF d
<1>3. SUFFICES ASSUME Wrong # {} PROVE FALSE
  BY DEF d
<1>4. PICK m \in Wrong : \A n \in Wrong : m <= n
  <2>1. Wrong \subseteq Nat
    BY <1>1
  <2> HIDE DEF Wrong
  <2> QED BY <1>3, <2>1, LeastNat
<1>5. m \in 1..Len(t) /\ t[m] = "'" /\ ~Odd(m)
  BY <1>4
<1> DEFINE k == Place(t, m)
<1>6. k \in Nat /\ k >= 1 /\ Place(t, m + 1) = k + 2
  BY <1>1, <1>5, PlaceStep
<1>7. k \in 1..Len(d) /\ d[k] = "'" /\ k + 1 \in 1..Len(d) /\ d[k + 1] = "'"
  <2>1. k \in Place(t, m)..(Place(t, m + 1) - 1) /\ k + 1 \in Place(t, m)..(Place(t, m + 1) - 1)
    BY <1>6
  <2> QED BY <1>2, <1>5, <2>1
<1>8. Run(d, "'", k - 1) % 2 = 0
  <2>1. CASE m = 1
    <3>1. k - 1 = 0
      BY <2>1, PlaceStep
    <3> QED BY <1>1, <3>1, RunGrows
  <2>2. CASE m # 1
    <3> DEFINE n == m - 1
    <3>1. n \in 1..Len(t) /\ n + 1 = m /\ n \notin Wrong
      BY <1>1, <1>4, <1>5, <2>2
    <3> HIDE DEF n
    <3>2. Place(t, n) \in Nat /\ k = Place(t, n) + IF t[n] = "'" THEN 2 ELSE 1
      <4>1. n \in 1..(Len(t) + 1)
        BY <1>1, <3>1
      <4>2. Place(t, n + 1) = Place(t, n) + IF t[n] = "'" THEN 2 ELSE 1
        BY <3>1, PlaceStep
      <4> QED BY <3>1, <4>1, <4>2, PlaceStep
    <3>3. CASE t[n] = "'"
      <4>1. Odd(n)
        BY <3>1, <3>3
      <4>2. k - 1 = Place(t, n) + 1
        BY <3>2, <3>3
      <4> QED BY <4>1, <4>2
    <3>4. CASE t[n] # "'"
      <4>1. k - 1 = Place(t, n) /\ k - 1 \in Place(t, n)..(Place(t, n + 1) - 1)
        BY <3>1, <3>2, <3>4
      <4>2. k - 1 \in 1..Len(d) /\ d[k - 1] # "'"
        BY <1>2, <3>1, <3>4, <4>1
      <4>3. Run(d, "'", k - 1) = 0
        BY <1>1, <4>2, RunGrows
      <4> QED BY <4>3
    <3> QED BY <3>3, <3>4
  <2> QED BY <2>1, <2>2
<1>9. /\ Run(d, "'", k - 1) \in Nat /\ Run(d, "'", k) = Run(d, "'", k - 1) + 1
      /\ Run(d, "'", k + 1) = Run(d, "'", k) + 1
  <2>1. Run(d, "'", k - 1) \in Nat /\ Run(d, "'", k) = Run(d, "'", k - 1) + 1
    BY <1>1, <1>7, RunGrows
  <2>2. (k + 1) - 1 = k
    BY <1>6
  <2>3. Run(d, "'", k + 1) = Run(d, "'", (k + 1) - 1) + 1
    BY <1>1, <1>7, RunGrows
  <2> QED BY <2>1, <2>2, <2>3
<1>10. Run(d, "'", k) % 2 = 1 /\ Run(d, "'", k + 1) % 2 = 0
  <2>1. \A x \in Nat : x % 2 = 0 => (x + 1) % 2 = 1 /\ ((x + 1) + 1) % 2 = 0
    OBVIOUS
  <2> QED BY ONLY <1>8, <1>9, <2>1
<1> QED BY <1>5, <1>10

(* strings.Replace keeps the first place of each token. *)
LEMMA KeptPlaces ==
  ASSUME NEW S, NEW t \in Seq(S)
  PROVE  Kept(Doubled(t), "'") = {Place(t, i) : i \in 1..Len(t)}
<1> DEFINE d == Doubled(t)
<1>1. d \in Seq(S) /\ Len(d) = Place(t, Len(t) + 1) - 1 /\ DOMAIN d = 1..Len(d)
  BY DoubledText
<1>2. \A i \in 1..Len(t) : \A k \in Place(t, i)..(Place(t, i + 1) - 1) :
        k \in 1..Len(d) /\ d[k] = t[i]
  BY DoubledText
<1>3. \A i \in 1..Len(t) : t[i] = "'" => /\ Run(d, "'", Place(t, i)) % 2 = 1
                                         /\ Run(d, "'", Place(t, i) + 1) % 2 = 0
  BY RunParity
<1>4. \A i \in 1..Len(t) : /\ Place(t, i) \in Nat
                           /\ Place(t, i + 1) = Place(t, i) + IF t[i] = "'" THEN 2 ELSE 1
  BY PlaceStep
<1>5. \A k \in 1..Len(d) : \E i \in 1..Len(t) : k \in Place(t, i)..(Place(t, i + 1) - 1)
  BY <1>1, PlaceTaken
<1> HIDE DEF d
<1>6. Kept(d, "'") = {k \in 1..Len(d) : d[k] # "'" \/ Run(d, "'", k) % 2 = 1}
  BY <1>1 DEF Kept
<1>7. ASSUME NEW i \in 1..Len(t)
      PROVE  Place(t, i) \in Kept(d, "'")
  <2>1. Place(t, i) \in Place(t, i)..(Place(t, i + 1) - 1)
    BY <1>4
  <2>2. Place(t, i) \in 1..Len(d) /\ d[Place(t, i)] = t[i]
    BY <1>2, <2>1
  <2> QED BY <1>3, <1>6, <2>2
<1>8. ASSUME NEW k \in Kept(d, "'")
      PROVE  \E i \in 1..Len(t) : k = Place(t, i)
  <2>1. k \in 1..Len(d) /\ (d[k] # "'" \/ Run(d, "'", k) % 2 = 1)
    BY <1>6
  <2>2. PICK i \in 1..Len(t) : k \in Place(t, i)..(Place(t, i + 1) - 1)
    BY <1>5, <2>1
  <2>3. d[k] = t[i]
    BY <1>2, <2>2
  <2>4. k = Place(t, i) \/ (t[i] = "'" /\ k = Place(t, i) + 1)
    BY <1>4, <2>1, <2>2
  <2>5. ~(t[i] = "'" /\ k = Place(t, i) + 1)
    <3>1. SUFFICES ASSUME t[i] = "'", k = Place(t, i) + 1 PROVE FALSE
      OBVIOUS
    <3>2. Run(d, "'", k) % 2 = 0
      BY <1>3, <3>1
    <3> QED BY <2>1, <2>3, <3>1, <3>2
  <2> QED BY <2>4, <2>5
<1> QED BY <1>7, <1>8 DEF d

(* The i-th token has the i-th of the places that are kept. *)
LEMMA PlaceRank ==
  ASSUME NEW S, NEW t \in Seq(S), NEW i \in 0..Len(t)
  PROVE  Cardinality({Place(t, j) : j \in 1..i}) = i
<1> DEFINE places == {Place(t, j) : j \in 1..i}
           f == [j \in 1..i |-> Place(t, j)]
<1>1. \A j, k \in 1..i : j < k => Place(t, j) < Place(t, k)
  <2> SUFFICES ASSUME NEW j \in 1..i, NEW k \in 1..i, j < k PROVE Place(t, j) < Place(t, k)
    OBVIOUS
  <2>1. j \in 1..Len(t) /\ k \in 1..(Len(t) + 1) /\ j \in 1..(Len(t) + 1)
    OBVIOUS
  <2>2. Place(t, j + 1) <= Place(t, k)
    BY <2>1, PlaceOrder
  <2>3. Place(t, j) \in Nat /\ Place(t, k) \in Nat
        /\ Place(t, j + 1) = Place(t, j) + IF t[j] = "'" THEN 2 ELSE 1
    BY <2>1, PlaceStep
  <2> QED BY <2>2, <2>3
<1>2. \A j \in 1..i : Place(t, j) \in Nat
  BY PlaceStep
<1>3. \A j, k \in 1..i : Place(t, j) = Place(t, k) => j = k
  BY <1>1, <1>2
<1>4. f \in Bijection(1..i, places)
  <2>1. f \in [1..i -> places]
    OBVIOUS
  <2>2. \A j, k \in 1..i : f[j] = f[k] => j = k
    BY <1>3
  <2>3. \A p \in places : \E j \in 1..i : f[j] = p
    OBVIOUS
  <2> HIDE DEF f, places
  <2> QED BY <2>1, <2>2, <2>3 DEF Bijection, Injection, Surjection, IsInjective
<1> HIDE DEF f, places
<1>5. IsFiniteSet(1..i) /\ Cardinality(1..i) = i
  BY FS_Interval
<1>6. ExistsBijection(1..i, places)
  BY <1>4 DEF ExistsBijection
<1>7. Cardinality(places) = Cardinality(1..i)
  BY <1>5, <1>6, FS_Bijection
<1> QED BY <1>5, <1>7 DEF places

(* extractDirName's strings.Replace undoes the doubling, for any text. *)
LEMMA HalvedDoubled ==
  ASSUME NEW S, NEW t \in Seq(S)
  PROVE  Halved(Doubled(t), "'") = t
<1> DEFINE d == Doubled(t)
           kept == Kept(d, "'")
           rank(p) == Cardinality({q \in kept : q <= p})
<1>1. kept = {Place(t, i) : i \in 1..Len(t)}
  BY KeptPlaces
<1>2. \A i \in 1..Len(t) : Place(t, i) \in Nat /\ d[Place(t, i)] = t[i]
  <2> SUFFICES ASSUME NEW i \in 1..Len(t) PROVE Place(t, i) \in Nat /\ d[Place(t, i)] = t[i]
    OBVIOUS
  <2>1. Place(t, i) \in Nat /\ Place(t, i + 1) = Place(t, i) + IF t[i] = "'" THEN 2 ELSE 1
    BY PlaceStep
  <2>2. Place(t, i) \in Place(t, i)..(Place(t, i + 1) - 1)
    BY <2>1
  <2> QED BY <2>1, <2>2, DoubledText
<1>3. Halved(d, "'") = [n \in 1..Cardinality(kept) |-> d[CHOOSE p \in kept : rank(p) = n]]
  BY DEF Halved
<1> HIDE DEF d, kept
<1>4. Cardinality(kept) = Len(t)
  BY <1>1, PlaceRank
<1>5. ASSUME NEW i \in 1..Len(t)
      PROVE  rank(Place(t, i)) = i
  <2>1. \A j \in 1..Len(t) : Place(t, j) <= Place(t, i) <=> j <= i
    <3> SUFFICES ASSUME NEW j \in 1..Len(t) PROVE Place(t, j) <= Place(t, i) <=> j <= i
      OBVIOUS
    <3>1. /\ Place(t, i + 1) = Place(t, i) + IF t[i] = "'" THEN 2 ELSE 1
          /\ Place(t, j + 1) = Place(t, j) + IF t[j] = "'" THEN 2 ELSE 1
      BY PlaceStep
    <3>2. i < j => Place(t, i + 1) <= Place(t, j)
      BY PlaceOrder
    <3>3. j < i => Place(t, j + 1) <= Place(t, i)
      BY PlaceOrder
    <3> QED BY <1>2, <3>1, <3>2, <3>3
  <2>2. {q \in kept : q <= Place(t, i)} = {Place(t, j) : j \in 1..i}
    BY <1>1, <2>1
  <2> QED BY <2>2, PlaceRank
<1> HIDE DEF rank
<1>6. ASSUME NEW n \in 1..Len(t)
      PROVE  (CHOOSE p \in kept : rank(p) = n) = Place(t, n)
  <2>1. Place(t, n) \in kept /\ rank(Place(t, n)) = n
    BY <1>1, <1>5
  <2>2. \A p \in kept : rank(p) = n => p = Place(t, n)
    BY <1>1, <1>5
  <2> QED BY <2>1, <2>2
<1>7. Halved(d, "'") = [n \in 1..Len(t) |-> t[n]]
  BY <1>2, <1>3, <1>4, <1>6
<1>8. t = [n \in 1..Len(t) |-> t[n]]
  OBVIOUS
<1> QED BY <1>7, <1>8 DEF d

(* What is between the first and the last quote of a reply, whatever       *)
(* comment without a quote follows.                                        *)
LEMMA BetweenQuotes ==
  ASSUME NEW S, "'" \in S, NEW d \in Seq(S), NEW msg \in Seq(S), Len(msg) >= Len(d) + 2,
         msg[1] = "'", msg[Len(d) + 2] = "'",
         \A i \in 1..Len(d) : msg[i + 1] = d[i],
         \A i \in (Len(d) + 3)..Len(msg) : msg[i] # "'"
  PROVE  extractDirName(msg) = Halved(d, "'")
<1> DEFINE quotes == Positions(msg, "'")
           last == Len(d) + 2
<1>1. Len(d) \in Nat /\ Len(msg) \in Nat /\ DOMAIN msg = 1..Len(msg)
  OBVIOUS
<1>2. 1 \in quotes /\ last \in quotes /\ 1 # last /\ quotes \in SUBSET (1..Len(msg))
  BY <1>1 DEF Positions
<1>3. \A i \in quotes : 1 <= i /\ last >= i
  BY <1>1 DEF Positions
<1>4. Min(quotes) = 1 /\ Max(quotes) = last
  <2>1. quotes \in SUBSET Int
    BY <1>2
  <2> HIDE DEF quotes, last
  <2> QED BY <1>2, <1>3, <2>1, TheSmallest, TheLargest
<1>6. SubSeq(msg, 2, last - 1) = d
  <2>1. SubSeq(msg, 2, last - 1) \in Seq(S) /\ Len(SubSeq(msg, 2, last - 1)) = Len(d)
        /\ \A i \in 1..Len(d) : SubSeq(msg, 2, last - 1)[i] = msg[i + 1]
    BY <1>1
  <2> HIDE DEF last
  <2> QED BY <1>1, <2>1, SeqEqual
<1>7. extractDirName(msg) = Halved(SubSeq(msg, Min(quotes) + 1, Max(quotes) - 1), "'")
  BY DEF extractDirName
<1> HIDE DEF quotes, last
<1>8. Min(quotes) + 1 = 2 /\ Max(quotes) - 1 = last - 1
  BY <1>4
<1> QED BY <1>6, <1>7, <1>8, Zenon

LEMMA Joined ==
  ASSUME NEW S, NEW u \in Seq(S), NEW w \in Seq(S)
  PROVE  /\ u \o w \in Seq(S) /\ Len(u \o w) = Len(u) + Len(w)
         /\ \A i \in 1..Len(u) : (u \o w)[i] = u[i]
         /\ \A i \in 1..Len(w) : (u \o w)[Len(u) + i] = w[i]
OBVIOUS

(* A reply has the name, or no name at all. *)
LEMMA NameAnswered ==
  ASSUME NEW S, {"'", "created", "done"} \subseteq S, NEW p, Full(p) \in Seq(S),
         NEW msg \in NameReplies(p)
  PROVE  HasDirName(msg) => extractDirName(msg) = Full(p)
<1> DEFINE d == Doubled(Full(p))
           quote == <<"'">>
           tail == <<"created">>
           none == <<"done">>
<1>1. d \in Seq(S) /\ Halved(d, "'") = Full(p)
  BY DoubledText, HalvedDoubled
<1>2. /\ quote \in Seq(S) /\ Len(quote) = 1 /\ quote[1] = "'"
      /\ tail \in Seq(S) /\ Len(tail) = 1 /\ tail[1] = "created"
      /\ none \in Seq(S) /\ Len(none) = 1 /\ none[1] = "done"
  OBVIOUS
<1>3. msg \in {quote \o d \o quote, (quote \o d \o quote) \o tail, none}
  BY DEF NameReplies
<1> HIDE DEF d, quote, tail, none
<1>4. /\ quote \o d \o quote \in Seq(S) /\ Len(quote \o d \o quote) = Len(d) + 2
      /\ (quote \o d \o quote)[1] = "'" /\ (quote \o d \o quote)[Len(d) + 2] = "'"
      /\ \A i \in 1..Len(d) : (quote \o d \o quote)[i + 1] = d[i]
  <2> DEFINE v == quote \o d
  <2>1. /\ v \in Seq(S) /\ Len(v) = Len(d) + 1 /\ v[1] = "'"
        /\ \A i \in 1..Len(d) : v[i + 1] = d[i]
    <3>1. /\ v \in Seq(S) /\ Len(v) = Len(quote) + Len(d)
          /\ \A i \in 1..Len(quote) : v[i] = quote[i]
          /\ \A i \in 1..Len(d) : v[Len(quote) + i] = d[i]
      <4>1. quote \in Seq(S) /\ d \in Seq(S)
        BY <1>1, <1>2
      <4> QED BY ONLY <4>1, Joined
    <3> HIDE DEF v
    <3>2. Len(d) \in Nat
      BY <1>1
    <3> QED BY <1>2, <3>1, <3>2
  <2> HIDE DEF v
  <2>2. /\ v \o quote \in Seq(S) /\ Len(v \o quote) = Len(d) + 2
        /\ (v \o quote)[1] = "'" /\ (v \o quote)[Len(d) + 2] = "'"
        /\ \A i \in 1..(Len(d) + 1) : (v \o quote)[i] = v[i]
    <3> DEFINE w == v \o quote
    <3>1. /\ w \in Seq(S) /\ Len(w) = Len(v) + Len(quote)
          /\ \A i \in 1..Len(v) : w[i] = v[i]
          /\ \A i \in 1..Len(quote) : w[Len(v) + i] = quote[i]
      <4>1. v \in Seq(S) /\ quote \in Seq(S)
        BY <1>2, <2>1
      <4> QED BY ONLY <4>1, Joined
    <3> HIDE DEF w
    <3>2. Len(d) \in Nat
      BY <1>1
    <3>3. w \in Seq(S) /\ Len(w) = Len(d) + 2 /\ w[1] = "'" /\ w[Len(d) + 2] = "'"
          /\ \A i \in 1..(Len(d) + 1) : w[i] = v[i]
      BY <1>2, <2>1, <3>1, <3>2
    <3> QED BY <3>3 DEF w
  <2>3. \A i \in 1..Len(d) : (v \o quote)[i + 1] = d[i]
    BY <1>1, <2>1, <2>2
  <2> QED BY <2>2, <2>3 DEF v
<1> DEFINE quoted == quote \o d \o quote
<1>8. /\ quoted \in Seq(S) /\ Len(quoted) = Len(d) + 2 /\ Len(d) \in Nat
      /\ quoted[1] = "'" /\ quoted[Len(d) + 2] = "'"
      /\ \A i \in 1..Len(d) : quoted[i + 1] = d[i]
  BY <1>1, <1>4
<1> HIDE DEF quoted
<1>5. CASE msg = quoted
  <2>1. Len(quoted) >= Len(d) + 2 /\ \A i \in (Len(d) + 3)..Len(quoted) : quoted[i] # "'"
    BY <1>8
  <2>2. extractDirName(quoted) = Halved(d, "'")
    BY <1>1, <1>8, <2>1, BetweenQuotes
  <2> QED BY <1>1, <1>5, <2>2
<1>6. CASE msg = quoted \o tail
  <2>1. /\ msg \in Seq(S) /\ Len(msg) = Len(d) + 3
        /\ msg[Len(d) + 3] = "created" /\ \A i \in 1..(Len(d) + 2) : msg[i] = quoted[i]
    <3> DEFINE w == quoted \o tail
    <3>1. /\ w \in Seq(S) /\ Len(w) = Len(quoted) + Len(tail)
          /\ \A i \in 1..Len(quoted) : w[i] = quoted[i]
          /\ \A i \in 1..Len(tail) : w[Len(quoted) + i] = tail[i]
      <4>1. quoted \in Seq(S) /\ tail \in Seq(S)
        BY <1>2, <1>8
      <4> QED BY ONLY <4>1, Joined
    <3>2. msg = w
      BY <1>6
    <3> HIDE DEF w
    <3> QED BY <1>2, <1>8, <3>1, <3>2
  <2>2. /\ Len(msg) >= Len(d) + 2 /\ msg[1] = "'" /\ msg[Len(d) + 2] = "'"
        /\ \A i \in 1..Len(d) : msg[i + 1] = d[i]
        /\ \A i \in (Len(d) + 3)..Len(msg) : msg[i] # "'"
    <3>1. \A i \in 1..Len(d) : i + 1 \in 1..(Len(d) + 2)
      BY <1>8
    <3>2. \A i \in (Len(d) + 3)..Len(msg) : i = Len(d) + 3
      BY <1>8, <2>1
    <3>3. 1 \in 1..(Len(d) + 2) /\ Len(d) + 2 \in 1..(Len(d) + 2) /\ Len(msg) >= Len(d) + 2
      BY <1>8, <2>1
    <3> QED BY <1>8, <2>1, <3>1, <3>2, <3>3
  <2>3. extractDirName(msg) = Halved(d, "'")
    BY <1>1, <2>1, <2>2, BetweenQuotes
  <2> QED BY <1>1, <2>3
<1>7. CASE msg = none
  <2>1. Positions(msg, "'") = {}
    BY <1>2, <1>7 DEF Positions
  <2>2. Cardinality(Positions(msg, "'")) = 0
    BY <2>1, FS_EmptySet
  <2> QED BY <2>2 DEF HasDirName
<1> QED BY <1>3, <1>5, <1>6, <1>7 DEF quoted

-----------------------------------------------------------------------------
(* The blanks that the regular expressions of LIST drop.                   *)

LEMMA TrimmedLeft ==
  ASSUME NEW t \in Seq(Written), NEW m \in 1..Len(t), t[m] # "blank",
         \A i \in 1..(m - 1) : t[i] = "blank"
  PROVE  TrimLeft(t) = SubSeq(t, m, Len(t))
<1>1. Len(t) \in Nat /\ DOMAIN t = 1..Len(t)
  OBVIOUS
<1>2. m \in NonBlank(t) /\ NonBlank(t) \in SUBSET Int
  BY <1>1 DEF NonBlank
<1>3. \A j \in NonBlank(t) : m <= j
  BY <1>1 DEF NonBlank
<1>4. Min(NonBlank(t)) = m
  BY <1>2, <1>3, TheSmallest
<1> QED BY <1>4 DEF TrimLeft

(* What is left of a text, and of a text with a link behind it. *)
LEMMA WithoutBlanks ==
  ASSUME NEW t \in Seq(Written), NonBlank(t) # {}
  PROVE  /\ TrimLeft(t) \in Seq(Written) /\ Len(TrimLeft(t)) > 0
         /\ t[1] # "blank" => TrimLeft(t) = t
         /\ \A e : ~Contains(t, e) => ~Contains(TrimLeft(t), e)
         /\ \A link \in Seq(Written) : TrimLeft(t \o link) = TrimLeft(t) \o link
<1>1. Len(t) \in Nat /\ DOMAIN t = 1..Len(t)
  OBVIOUS
<1>2. NonBlank(t) \subseteq Nat
  BY <1>1 DEF NonBlank
<1>3. PICK m \in NonBlank(t) : \A j \in NonBlank(t) : m <= j
  BY <1>2, LeastNat
<1>4. m \in 1..Len(t) /\ t[m] # "blank" /\ \A i \in 1..(m - 1) : t[i] = "blank"
  BY <1>1, <1>3 DEF NonBlank
<1> DEFINE rest == SubSeq(t, m, Len(t))
<1>5. TrimLeft(t) = rest
  BY <1>4, TrimmedLeft
<1>6. /\ rest \in Seq(Written) /\ Len(rest) = Len(t) - m + 1
      /\ \A i \in 1..(Len(t) - m + 1) : rest[i] = t[m + i - 1]
  BY <1>1, <1>4
<1>7. t[1] # "blank" => rest = t
  <2>1. SUFFICES ASSUME t[1] # "blank" PROVE rest = t
    OBVIOUS
  <2>2. m = 1
    BY <1>1, <1>4, <2>1
  <2>3. Len(rest) = Len(t) /\ \A i \in 1..Len(t) : rest[i] = t[i]
    BY <1>1, <1>6, <2>2
  <2> HIDE DEF rest
  <2> QED BY <1>6, <2>3, SeqEqual
<1>8. ASSUME NEW e, ~Contains(t, e)
      PROVE  ~Contains(rest, e)
  <2> HIDE DEF rest
  <2>1. SUFFICES ASSUME NEW i \in 1..Len(rest), rest[i] = e PROVE FALSE
    BY <1>6 DEF Contains
  <2>2. m + i - 1 \in 1..Len(t) /\ t[m + i - 1] = e
    BY <1>1, <1>4, <1>6, <2>1
  <2> QED BY <1>8, <2>2 DEF Contains
<1>9. ASSUME NEW link \in Seq(Written)
      PROVE  TrimLeft(t \o link) = rest \o link
  <2> DEFINE w == t \o link
  <2>1. Len(link) \in Nat
    OBVIOUS
  <2>2. /\ w \in Seq(Written) /\ Len(w) = Len(t) + Len(link)
        /\ \A i \in 1..Len(t) : w[i] = t[i]
        /\ \A i \in 1..Len(link) : w[Len(t) + i] = link[i]
    BY ONLY t \in Seq(Written), link \in Seq(Written), Joined
  <2>3. /\ rest \o link \in Seq(Written) /\ Len(rest \o link) = Len(rest) + Len(link)
        /\ \A i \in 1..Len(rest) : (rest \o link)[i] = rest[i]
        /\ \A i \in 1..Len(link) : (rest \o link)[Len(rest) + i] = link[i]
    <3>1. rest \in Seq(Written)
      BY <1>6
    <3> HIDE DEF rest
    <3> QED BY ONLY <3>1, link \in Seq(Written), Joined
  <2> HIDE DEF w, rest
  <2>4. TrimLeft(w) = SubSeq(w, m, Len(w))
    <3>1. m \in 1..Len(w) /\ w[m] # "blank" /\ \A i \in 1..(m - 1) : w[i] = "blank"
      BY <1>1, <1>4, <2>1, <2>2
    <3> QED BY <2>2, <3>1, TrimmedLeft
  <2>5. /\ SubSeq(w, m, Len(w)) \in Seq(Written) /\ Len(SubSeq(w, m, Len(w))) = Len(w) - m + 1
        /\ \A i \in 1..(Len(w) - m + 1) : SubSeq(w, m, Len(w))[i] = w[m + i - 1]
    BY <1>1, <1>4, <2>1, <2>2
  <2>6. ASSUME NEW i \in 1..(Len(rest) + Len(link))
        PROVE  SubSeq(w, m, Len(w))[i] = (rest \o link)[i]
    <3>1. SubSeq(w, m, Len(w))[i] = w[m + i - 1]
      BY <1>1, <1>4, <1>6, <2>1, <2>2, <2>5
    <3>2. CASE i <= Len(rest)
      <4>1. i \in 1..Len(rest) /\ m + i - 1 \in 1..Len(t)
        BY <1>1, <1>4, <1>6, <3>2
      <4>2. w[m + i - 1] = rest[i]
        BY <1>6, <2>2, <4>1
      <4> QED BY <2>3, <3>1, <4>1, <4>2
    <3>3. CASE i > Len(rest)
      <4> DEFINE k == i - Len(rest)
      <4>1. k \in 1..Len(link) /\ m + i - 1 = Len(t) + k /\ i = Len(rest) + k
        BY <1>1, <1>4, <1>6, <2>1, <3>3
      <4> HIDE DEF k
      <4> QED BY <2>2, <2>3, <3>1, <4>1
    <3>4. Len(rest) \in Nat /\ i \in Int
      BY <1>1, <1>6, <2>1
    <3>5. i <= Len(rest) \/ i > Len(rest)
      BY <3>4
    <3> QED BY <3>2, <3>3, <3>5, Zenon
  <2>7. Len(w) - m + 1 = Len(rest) + Len(link)
    BY <1>1, <1>4, <1>6, <2>1, <2>2
  <2>8. SubSeq(w, m, Len(w)) = rest \o link
    BY <2>3, <2>5, <2>6, <2>7, SeqEqual
  <2> QED BY <2>4, <2>8 DEF w
<1>10. Len(rest) > 0
  BY <1>1, <1>4, <1>6
<1> HIDE DEF rest
<1> QED BY <1>5, <1>6, <1>7, <1>8, <1>9, <1>10

-----------------------------------------------------------------------------
(* What the client reads in the lines that the server writes               *)

Servers == [mlst : BOOLEAN, mlsd : BOOLEAN, complete : BOOLEAN, dos : BOOLEAN,
            extras : BOOLEAN, dash : {"known", "ignored", "refused"}]

(* What the call was given, and the tree it finds. *)
Shape ==
  /\ srv \in Servers
  /\ \E names \in NameSets :
       DOMAIN tree = PathsOver(names) /\ call.path \in {<<>>} \cup PathsOver(names)
  /\ \A p \in DOMAIN tree : tree[p] \in Kinds[Len(p)]

Given == Shape /\ Tree(tree)

(* An info that is right about what is at p, but for the name. *)
About(info, p) ==
  /\ info.is = "info" /\ info.kind = At(tree, p) /\ info.raw.of = p
  /\ info.mtime = IF p = <<>> THEN Now ELSE Modified(p)

LEMMA ThePaths ==
  ASSUME Given
  PROVE  /\ \A p \in DOMAIN tree : Path(p) /\ tree[p] \in {"none", "file", "link", "dir"}
         /\ call.path = <<>> \/ call.path \in DOMAIN tree
<1>1. \A p \in DOMAIN tree : Path(p)
  BY PathsOverNames DEF Given, Shape
<1>2. \A p \in DOMAIN tree : tree[p] \in {"none", "file", "link", "dir"}
  BY <1>1, FileSystemAssumption DEF Given, Shape, Path
<1> QED BY <1>1, <1>2 DEF Given, Shape

(* Something is there, shown with its name or with its path. *)
Shown(p, text) ==
  /\ At(tree, p) # "none"
  /\ text \in IF p = <<>> THEN {<<"/">>, <<".">>} ELSE {Full(p), Last(p)}

(* What is there at a path, and how its parts are written. *)
LEMMA ShownPath ==
  ASSUME Given, NEW p, At(tree, p) # "none"
  PROVE  /\ At(tree, p) \in {"file", "link", "dir"}
         /\ p = <<>> => At(tree, p) = "dir"
         /\ p # <<>> => p \in DOMAIN tree /\ Path(p) /\ Name(Last(p)) /\ At(tree, p) = tree[p]
<1>1. CASE p = <<>>
  BY <1>1 DEF At
<1>2. CASE p # <<>>
  <2>1. p \in DOMAIN tree /\ At(tree, p) = tree[p]
    BY <1>2 DEF At
  <2>2. Path(p) /\ tree[p] \in {"none", "file", "link", "dir"}
    BY <2>1, ThePaths
  <2> QED BY <1>2, <2>1, <2>2, PathParts
<1> QED BY <1>1, <1>2

LEMMA RootTexts ==
  ASSUME NEW text \in {<<"/">>, <<".">>}
  PROVE  /\ text \in Seq(Written) /\ NonBlank(text) # {} /\ text[1] # "blank"
         /\ ~Contains(text, "->")
<1>1. CASE text = <<"/">>
  BY <1>1 DEF Written, NonBlank, Contains
<1>2. CASE text = <<".">>
  BY <1>2 DEF Written, NonBlank, Contains
<1> QED BY <1>1, <1>2

LEMMA FullTexts ==
  ASSUME NEW p, Path(p)
  PROVE  /\ Full(p) \in Seq(Written) /\ NonBlank(Full(p)) # {} /\ TrimLeft(Full(p)) = Full(p)
         /\ Full(p) \notin {<<".">>, <<"..">>}
<1>1. Full(p) \in Seq(Written) /\ Len(Full(p)) > 0 /\ Full(p)[1] = "/"
  BY FullPath
<1>2. 1 \in NonBlank(Full(p))
  BY <1>1 DEF NonBlank
<1>3. TrimLeft(Full(p)) = Full(p)
  BY <1>1, <1>2, WithoutBlanks
<1>4. \A x : x \in {<<".">>, <<"..">>} => x[1] # "/"
  OBVIOUS
<1> QED BY <1>1, <1>2, <1>3, <1>4

LEMMA NameTexts ==
  ASSUME NEW n, Name(n)
  PROVE  /\ n \in Seq(Written) /\ NonBlank(n) # {} /\ Base(TrimLeft(n)) = TrimLeft(n)
         /\ {n, TrimLeft(n), Trim(n)} \cap {<<".">>, <<"..">>} = {}
<1>1. n \in Seq(Written) /\ ~Contains(n, "/")
  BY NoSlash
<1>2. NonBlank(n) # {} /\ {n, TrimLeft(n), Trim(n)} \cap {<<".">>, <<"..">>} = {}
  BY DEF Name
<1>3. ~Contains(TrimLeft(n), "/")
  BY <1>1, <1>2, WithoutBlanks
<1> QED BY <1>1, <1>2, <1>3 DEF Base

(* What lsRegex leaves of a text, alone and before a link. *)
LEMMA ShownText ==
  ASSUME Given, NEW p, NEW text, Shown(p, text)
  PROVE  /\ text \in Seq(Written) /\ NonBlank(text) # {}
         /\ p # <<>> => TrimLeft(text) \notin {<<".">>, <<"..">>}
         /\ At(tree, p) = "link" => ~srv.dos /\ ~Contains(text, "->")
<1>1. CASE p = <<>>
  <2>1. text \in {<<"/">>, <<".">>} /\ At(tree, p) # "link"
    BY <1>1 DEF Shown, At
  <2> QED BY <1>1, <2>1, RootTexts
<1>2. CASE p # <<>>
  <2>1. p \in DOMAIN tree /\ Path(p) /\ Name(Last(p)) /\ At(tree, p) = tree[p]
    BY <1>2, ShownPath DEF Shown
  <2>2. text \in {Full(p), Last(p)}
    BY <1>2 DEF Shown
  <2>3. text \in Seq(Written) /\ NonBlank(text) # {} /\ TrimLeft(text) \notin {<<".">>, <<"..">>}
    BY <2>1, <2>2, FullTexts, NameTexts
  <2>4. ASSUME At(tree, p) = "link" PROVE ~srv.dos /\ ~Contains(text, "->")
    <3>1. ~srv.dos /\ \A i \in DOMAIN p : ~Contains(p[i], "->")
      BY <2>1, <2>4 DEF Given, Tree
    <3>2. ~Contains(Full(p), "->")
      BY <2>1, <3>1, FullPath
    <3>3. Len(p) \in DOMAIN p /\ Last(p) = p[Len(p)]
      BY <2>1, PathParts DEF Path
    <3>4. ~Contains(Last(p), "->")
      BY <3>1, <3>3
    <3> QED BY <2>2, <3>1, <3>2, <3>4
  <2> QED BY <2>3, <2>4
<1> QED BY <1>1, <1>2

LEMMA FactsParsed ==
  ASSUME Given, NEW p, NEW text, Shown(p, text), NEW skip \in BOOLEAN
  PROVE  LET info == parseMLST(FactsLine(p, text), skip)
         IN info = ParseError \/ (About(info, p) /\ info.name = Base(text))
<1> DEFINE line == FactsLine(p, text)
           kind == At(tree, p)
           mtime == IF p = <<>> THEN Now ELSE Modified(p)
<1>1. kind \in {"file", "link", "dir"}
  BY ShownPath DEF Shown
<1>2. /\ line.form = "facts" /\ line.text = text /\ line.mtime = mtime /\ line.of = p
      /\ line.type = IF kind = "link" THEN "os.unix=slink" ELSE kind
  BY <1>1 DEF FactsLine
<1> HIDE DEF line
<1> DEFINE info == FileInfo(Base(text), kind, mtime, line)
<1>3. parseMLST(line, skip) \in {ParseError, info}
  <2> HIDE DEF kind, mtime
  <2> QED BY <1>1, <1>2 DEF parseMLST
<1>4. About(info, p) /\ info.name = Base(text)
  BY <1>2 DEF About, FileInfo
<1> HIDE DEF info
<1> QED BY <1>3, <1>4 DEF line

LEMMA DosParsed ==
  ASSUME Given, NEW p, NEW text, Shown(p, text), p # <<>>, srv.dos, NEW skip \in BOOLEAN
  PROVE  LET info == parseLIST(DosLine(p), Now, skip)
         IN About(info, p) /\ info.name = Trim(Last(p))
<1> DEFINE line == DosLine(p)
           kind == At(tree, p)
<1>1. kind \in {"file", "dir"}
  BY ShownText, ShownPath DEF Shown
<1>2. /\ line.form = "dos" /\ line.text = Last(p) /\ line.mtime = Modified(p) /\ line.of = p
      /\ line.type = IF kind = "dir" THEN "<DIR>" ELSE "size"
  BY <1>1 DEF DosLine
<1> HIDE DEF line
<1>3. parseLIST(line, Now, skip) = FileInfo(Trim(Last(p)), kind, Modified(p), line)
  <2> HIDE DEF kind
  <2> QED BY <1>1, <1>2 DEF parseLIST, parseDOSLIST
<1>4. LET info == FileInfo(Trim(Last(p)), kind, Modified(p), line)
      IN About(info, p) /\ info.name = Trim(Last(p))
  BY <1>2 DEF About, FileInfo
<1> QED BY <1>3, <1>4 DEF line

LEMMA Dates ==
  ASSUME NEW p
  PROVE  Modified(p) \in Int /\ Modified(p) \in {Now, Now - 3, Now - 8}
BY FileSystemAssumption DEF Modified

LEMMA LsParsed ==
  ASSUME Given, NEW p, NEW text, Shown(p, text), NEW skip \in BOOLEAN, skip => p # <<>>
  PROVE  LET info == parseLIST(LsLine(p, text), Now, skip)
         IN About(info, p) /\ info.name = Base(TrimLeft(text))
<1> DEFINE line == LsLine(p, text)
           kind == At(tree, p)
           mtime == IF p = <<>> THEN Now ELSE Modified(p)
           arrow == <<"->", "etc", "/", "real">>
           year == IF line.year = NoYear THEN Year(line.month, Now) ELSE line.year
           name == TrimLeft(line.text)
<1>1. /\ kind \in {"file", "link", "dir"}
      /\ text \in Seq(Written) /\ NonBlank(text) # {}
      /\ skip => TrimLeft(text) \notin {<<".">>, <<"..">>}
      /\ kind = "link" => ~Contains(text, "->")
  BY ShownText, ShownPath DEF Shown
<1>2. /\ line.form = "ls" /\ line.of = p
      /\ line.type = IF kind = "link" THEN "l" ELSE IF kind = "dir" THEN "d" ELSE "-"
      /\ line.text = IF kind = "link" THEN text \o arrow ELSE text
      /\ line.month = mtime % 12
      /\ line.year = IF p = <<>> \/ Modified(p) > Now - 6 THEN NoYear ELSE Modified(p) \div 12
  BY <1>1 DEF LsLine
<1> HIDE DEF line
<1>3. 12 * year + line.month = mtime
  <2>1. Now \in Int /\ mtime \in Int /\ mtime \in {Now, Now - 3, Now - 8}
    BY Dates, FileSystemAssumption
  <2>2. line.year = IF mtime > Now - 6 THEN NoYear ELSE mtime \div 12
    BY <1>2, <2>1
  <2>3. ASSUME NEW m, m = mtime
        PROVE  12 * (IF line.year = NoYear THEN Year(m % 12, Now) ELSE line.year) + (m % 12) = m
    <3> HIDE DEF mtime
    <3> QED BY <2>1, <2>2, <2>3, DateRecovered
  <2> HIDE DEF mtime
  <2> QED BY <1>2, <2>3
<1>4. arrow \in Seq(Written) /\ Len(arrow) = 4 /\ arrow[1] = "->"
  BY TextTypes
<1> HIDE DEF arrow, year, kind, mtime
<1>5. /\ TrimLeft(text) \in Seq(Written) /\ TrimLeft(text \o arrow) = TrimLeft(text) \o arrow
      /\ kind = "link" => ~Contains(TrimLeft(text), "->")
  BY <1>1, <1>4, WithoutBlanks
<1>6. kind = "link" => LinkName(TrimLeft(text) \o arrow) = TrimLeft(text)
  BY <1>4, <1>5, NameBeforeArrow
<1>7. name = IF kind = "link" THEN TrimLeft(text) \o arrow ELSE TrimLeft(text)
  BY <1>2, <1>5
<1>8. ~(skip /\ name \in {<<".">>, <<"..">>})
  <2>1. Len(<<".">>) = 1 /\ Len(<<"..">>) = 1
    OBVIOUS
  <2>2. Len(TrimLeft(text) \o arrow) = Len(TrimLeft(text)) + 4 /\ Len(TrimLeft(text)) \in Nat
    <3>1. Len(TrimLeft(text) \o arrow) = Len(TrimLeft(text)) + Len(arrow)
      BY <1>4, <1>5, ConcatProperties, Zenon
    <3> QED BY <1>4, <1>5, <3>1
  <2>3. Len(TrimLeft(text) \o arrow) # 1
    BY <2>2
  <2> QED BY <1>1, <1>7, <2>1, <2>3
<1>9. Base(IF line.type = "l" THEN LinkName(name) ELSE name) = Base(TrimLeft(text))
  BY <1>1, <1>2, <1>6, <1>7
<1>10. parseLIST(line, Now, skip) = FileInfo(Base(TrimLeft(text)), kind, mtime, line)
  <2>1. parseLIST(line, Now, skip)
          = FileInfo(Base(IF line.type = "l" THEN LinkName(name) ELSE name),
                     IF line.type = "d" THEN "dir" ELSE IF line.type = "l" THEN "link" ELSE "file",
                     12 * year + line.month, line)
    BY <1>2, <1>8 DEF parseLIST, year
  <2>2. (IF line.type = "d" THEN "dir" ELSE IF line.type = "l" THEN "link" ELSE "file") = kind
    BY <1>1, <1>2
  <2> QED BY <1>3, <1>9, <2>1, <2>2
<1>11. LET info == FileInfo(Base(TrimLeft(text)), kind, mtime, line)
       IN About(info, p) /\ info.name = Base(TrimLeft(text))
  BY <1>2 DEF About, FileInfo, kind, mtime
<1> QED BY <1>10, <1>11 DEF line

(* A line of LIST about an entry is understood, in either format, but for  *)
(* the blanks of the name.                                                 *)
LEMMA ListParsed ==
  ASSUME Given, NEW p, NEW text, Shown(p, text), NEW skip \in BOOLEAN, skip => p # <<>>
  PROVE  LET info == parseLIST(ListLine(p, text), Now, skip)
         IN /\ About(info, p)
            /\ p # <<>> /\ text = Last(p) => info.name = AsLISTed(Last(p))
            /\ p # <<>> => info.name \in {Last(p), AsLISTed(Last(p))}
<1>1. CASE srv.dos /\ p # <<>>
  BY <1>1, DosParsed DEF ListLine, AsLISTed
<1>2. CASE ~(srv.dos /\ p # <<>>)
  <2> DEFINE info == parseLIST(ListLine(p, text), Now, skip)
  <2>1. About(info, p) /\ info.name = Base(TrimLeft(text))
    BY <1>2, LsParsed DEF ListLine
  <2> HIDE DEF info
  <2>2. ASSUME p # <<>>
        PROVE  /\ Base(TrimLeft(Last(p))) = AsLISTed(Last(p))
               /\ Base(TrimLeft(Full(p))) = Last(p)
               /\ text \in {Full(p), Last(p)}
    <3>1. Path(p) /\ Name(Last(p)) /\ ~srv.dos /\ text \in {Full(p), Last(p)}
      BY <1>2, <2>2, ShownPath DEF Shown
    <3> QED BY <3>1, NameTexts, FullTexts, FullPath DEF AsLISTed
  <2>3. /\ About(info, p)
        /\ p # <<>> /\ text = Last(p) => info.name = AsLISTed(Last(p))
        /\ p # <<>> => info.name \in {Last(p), AsLISTed(Last(p))}
    BY <2>1, <2>2
  <2> QED BY <2>3 DEF info
<1> QED BY <1>1, <1>2

-----------------------------------------------------------------------------
(* What the client makes of a listing                                      *)

(* An info of an entry of a directory. *)
Entry(info, q) == About(info, q) /\ info.name = AsListed(Last(q))

(* The infos of d's entries, one for each, unless a line was not understood. *)
ListingOf(infos, d) ==
  /\ \A i \in infos : i = ParseError \/ i = NotEntry \/ \E q \in Entries(d) : Entry(i, q)
  /\ \A q \in Entries(d) : \E i \in infos : i = ParseError \/ Entry(i, q)
  /\ \A q \in Entries(d) : \A i, j \in infos : Entry(i, q) /\ Entry(j, q) => i = j

LEMMA NotInfos == ParseError.is = "error" /\ NotEntry.is = "nothing"
BY DEF ParseError, NotEntry

LEMMA EntriesShown ==
  ASSUME NEW d, NEW q \in Entries(d)
  PROVE  /\ q # <<>> /\ q \in DOMAIN tree /\ Shown(q, Last(q)) /\ Front(q) = d
         /\ At(tree, q) = tree[q]
BY DEF Entries, Shown, At

(* The lines that are not entries. *)
LEMMA OtherFacts ==
  ASSUME NEW line \in {Blank, Self("cdir"), Self("pdir")}
  PROVE  parseMLST(line, TRUE) = NotEntry
<1>1. CASE line = Blank
  BY <1>1 DEF parseMLST, Blank
<1>2. ASSUME NEW type \in {"cdir", "pdir"}, line = Self(type)
      PROVE  parseMLST(line, TRUE) = NotEntry
  <2>1. line.form = "facts" /\ line.type = type /\ line.text = <<".">>
    BY <1>2 DEF Self
  <2>2. ~Contains(<<".">>, "semicolon")
    BY DEF Contains
  <2> QED BY <1>2, <2>1, <2>2 DEF parseMLST
<1> QED BY <1>1, <1>2

LEMMA DotsTrimmed ==
  ASSUME NEW name \in {".", ".."}
  PROVE  TrimLeft(<<name>>) = <<name>> /\ Base(<<name>>) = <<name>>
<1>1. 1 \in NonBlank(<<name>>) /\ \A j \in NonBlank(<<name>>) : j = 1
  BY DEF NonBlank
<1>2. NonBlank(<<name>>) \in SUBSET Int /\ 1 <= 1
  BY <1>1
<1>3. Min(NonBlank(<<name>>)) = 1
  BY <1>1, <1>2, TheSmallest
<1>4. SubSeq(<<name>>, 1, Len(<<name>>)) = <<name>>
  <2> DEFINE s == <<name>>
  <2>1. s \in Seq({name}) /\ Len(s) = 1
    OBVIOUS
  <2> HIDE DEF s
  <2>2. SubSeq(s, 1, 1) \in Seq({name}) /\ Len(SubSeq(s, 1, 1)) = 1 /\ SubSeq(s, 1, 1)[1] = s[1]
    BY <2>1
  <2>3. SubSeq(s, 1, Len(s)) = s
    BY <2>1, <2>2, SeqEqual
  <2> QED BY <2>3 DEF s
<1> QED BY <1>3, <1>4 DEF TrimLeft, Base, Contains

LEMMA OtherLs ==
  ASSUME NEW line \in {[form |-> "total"], Dots("."), Dots("..")}, NEW skip \in BOOLEAN
  PROVE  LET info == parseLIST(line, Now, skip)
         IN /\ skip => info = NotEntry
            /\ info = NotEntry \/ (info.is = "info" /\ info.name \in {<<".">>, <<"..">>})
<1>1. CASE line = [form |-> "total"]
  BY <1>1 DEF parseLIST
<1>2. ASSUME NEW name \in {".", ".."}, line = Dots(name)
      PROVE  LET info == parseLIST(line, Now, skip)
             IN /\ skip => info = NotEntry
                /\ info = NotEntry \/ (info.is = "info" /\ info.name \in {<<".">>, <<"..">>})
  <2>1. line.form = "ls" /\ line.type = "d" /\ line.text = <<name>>
    BY <1>2 DEF Dots
  <2>2. TrimLeft(line.text) = <<name>> /\ Base(<<name>>) = <<name>>
    BY <1>2, <2>1, DotsTrimmed
  <2>3. <<name>> \in {<<".">>, <<"..">>}
    BY <1>2
  <2>4. CASE skip
    BY <2>1, <2>2, <2>3, <2>4 DEF parseLIST
  <2>5. CASE ~skip
    <3>1. PICK mtime : parseLIST(line, Now, skip) = FileInfo(<<name>>, "dir", mtime, line)
      BY <2>1, <2>2, <2>5 DEF parseLIST
    <3> QED BY <2>3, <2>5, <3>1 DEF FileInfo
  <2> QED BY <2>4, <2>5
<1> QED BY <1>1, <1>2

LEMMA MLSDLists ==
  ASSUME Given, NEW d, NEW reply \in MLSD(d), reply.is = "lines"
  PROVE  ListingOf({parseMLST(line, TRUE) : line \in reply.lines}, d)
<1> DEFINE facts == {FactsLine(q, Last(q)) : q \in Entries(d)}
           others == {Blank, Self("cdir"), Self("pdir")}
           info(q) == parseMLST(FactsLine(q, Last(q)), TRUE)
           infos == {parseMLST(line, TRUE) : line \in reply.lines}
<1>1. srv.mlsd /\ facts \subseteq reply.lines /\ reply.lines \subseteq facts \cup others
  BY DEF MLSD, Lines, Failed, Refused, Unsupported
<1>2. \A q \in Entries(d) : info(q) \in infos /\ (info(q) = ParseError \/ Entry(info(q), q))
  <2> SUFFICES ASSUME NEW q \in Entries(d)
               PROVE  info(q) \in infos /\ (info(q) = ParseError \/ Entry(info(q), q))
    OBVIOUS
  <2>1. info(q) \in infos
    BY <1>1
  <2>2. info(q) = ParseError \/ (About(info(q), q) /\ info(q).name = Base(Last(q)))
    BY EntriesShown, FactsParsed
  <2>3. Base(Last(q)) = Last(q)
    BY EntriesShown, ThePaths, PathParts, BaseOfName
  <2> QED BY <1>1, <2>1, <2>2, <2>3 DEF Entry, AsListed
<1>3. \A i \in infos : i = NotEntry \/ \E q \in Entries(d) : i = info(q)
  BY <1>1, OtherFacts
<1> HIDE DEF info, infos
<1>4. \A q \in Entries(d) : \A i \in infos : Entry(i, q) => i = info(q)
  <2>1. SUFFICES ASSUME NEW q \in Entries(d), NEW i \in infos, Entry(i, q) PROVE i = info(q)
    OBVIOUS
  <2>2. i # NotEntry /\ i # ParseError /\ i.raw.of = q
    BY <2>1, NotInfos DEF Entry, About
  <2>3. PICK r \in Entries(d) : i = info(r)
    BY <1>3, <2>2
  <2>4. i.raw.of = r
    BY <1>2, <2>2, <2>3 DEF Entry, About
  <2> QED BY <2>2, <2>3, <2>4
<1>5. ListingOf(infos, d)
  BY <1>2, <1>3, <1>4 DEF ListingOf
<1> QED BY <1>5 DEF infos

(* Images of finite sets, as sets of the values of a function. *)
LEMMA ImageFinite ==
  ASSUME NEW S, IsFiniteSet(S), NEW f, DOMAIN f = S
  PROVE  IsFiniteSet({f[x] : x \in S})
<1> DEFINE T == {f[x] : x \in S}
           g == [x \in S |-> f[x]]
<1>1. g \in Surjection(S, T)
  BY DEF Surjection
<1> QED BY <1>1, FS_Surjection, Zenon

LEMMA ThreeFinite ==
  ASSUME NEW a, NEW b, NEW c
  PROVE  IsFiniteSet({a, b, c})
<1>1. IsFiniteSet({a} \cup {b})
  BY FS_Singleton, FS_AddElement
<1>2. IsFiniteSet(({a} \cup {b}) \cup {c})
  BY <1>1, FS_AddElement
<1>3. ({a} \cup {b}) \cup {c} = {a, b, c}
  OBVIOUS
<1> QED BY <1>2, <1>3

LEMMA TreeFinite ==
  ASSUME Given
  PROVE  IsFiniteSet(DOMAIN tree)
<1>1. PICK names \in NameSets : DOMAIN tree = PathsOver(names)
  BY DEF Given, Shape
<1>2. IsFiniteSet(names)
  BY NamesAssumption
<1> DEFINE one == [n \in names |-> <<n>>]
           two == [x \in names \X names |-> <<x[1], x[2]>>]
           T1 == {one[n] : n \in names}
           T2 == {two[x] : x \in names \X names}
<1>3. IsFiniteSet(T1)
  BY <1>2, ImageFinite
<1>4. IsFiniteSet(names \X names)
  BY <1>2, FS_Product
<1>5. IsFiniteSet(T2)
  BY <1>4, ImageFinite
<1>6. IsFiniteSet(T1 \cup T2)
  BY <1>3, <1>5, FS_Union
<1>7. PathsOver(names) \subseteq T1 \cup T2
  <2>1. \A n \in names : <<n>> \in T1
    OBVIOUS
  <2>2. \A d, n \in names : <<d, n>> \in T2
    <3> SUFFICES ASSUME NEW d \in names, NEW n \in names PROVE <<d, n>> \in T2
      OBVIOUS
    <3>1. <<d, n>> \in names \X names /\ two[<<d, n>>] = <<d, n>>
      OBVIOUS
    <3> QED BY <3>1
  <2> HIDE DEF T1, T2
  <2> QED BY <2>1, <2>2 DEF PathsOver
<1> QED BY <1>1, <1>6, <1>7, FS_Subset

LEMMA EntriesFinite ==
  ASSUME Given, NEW d
  PROVE  IsFiniteSet(Entries(d))
<1>1. Entries(d) \subseteq DOMAIN tree
  BY DEF Entries
<1> QED BY <1>1, TreeFinite, FS_Subset

(* What LIST may answer, and what the client reads in it. *)
LEMMA LISTLists ==
  ASSUME Given, NEW d, NEW reply \in LIST(d), reply.is = "lines",
         NEW skip \in BOOLEAN, skip => ~srv.mlsd,
         NEW infos, infos = {parseLIST(line, Now, skip) : line \in reply.lines}
  PROVE  \/ At(tree, d) = "none" /\ infos = {}
         \/ /\ At(tree, d) \notin {"none", "dir"} /\ d # <<>>
            /\ \E i : /\ infos = {i} /\ About(i, d)
                      /\ i.name \in {Last(d), AsLISTed(Last(d))}
         \/ /\ At(tree, d) = "dir"
            /\ IsFiniteSet(infos)
            /\ skip => ListingOf(infos, d)
            /\ \A i \in infos : i.is = "info" =>
                 \/ i.name \in {<<".">>, <<"..">>} /\ NotEntry \in infos
                 \/ \E q \in Entries(d) : About(i, q) /\ i.name = AsLISTed(Last(q))
<1>1. CASE At(tree, d) = "none"
  BY <1>1 DEF LIST, Lines, Failed, Refused
<1>2. CASE At(tree, d) \notin {"none", "dir"}
  <2>1. d # <<>>
    BY <1>2 DEF At
  <2>2. Shown(d, Full(d))
    BY <1>2, <2>1 DEF Shown
  <2>3. reply.lines = {ListLine(d, Full(d))}
    BY <1>2 DEF LIST, Lines, Failed
  <2> DEFINE i == parseLIST(ListLine(d, Full(d)), Now, skip)
  <2>4. infos = {i}
    BY <2>3
  <2>5. About(i, d) /\ i.name \in {Last(d), AsLISTed(Last(d))}
    BY <2>1, <2>2, ListParsed
  <2> HIDE DEF i
  <2> QED BY <1>2, <2>1, <2>4, <2>5
<1>3. CASE At(tree, d) = "dir"
  <2> DEFINE lines == {ListLine(q, Last(q)) : q \in Entries(d)}
             total == [form |-> "total"]
             others == {total, Dots("."), Dots("..")}
             info(q) == parseLIST(ListLine(q, Last(q)), Now, skip)
  <2>1. /\ lines \subseteq reply.lines
        /\ reply.lines = lines \/ reply.lines = lines \cup others
    BY <1>3 DEF LIST, Lines, Failed
  <2>2. \A q \in Entries(d) : /\ info(q) \in infos /\ About(info(q), q)
                              /\ info(q).name = AsLISTed(Last(q))
    <3> SUFFICES ASSUME NEW q \in Entries(d)
                 PROVE  /\ info(q) \in infos /\ About(info(q), q)
                        /\ info(q).name = AsLISTed(Last(q))
      OBVIOUS
    <3>1. q # <<>> /\ Shown(q, Last(q))
      BY EntriesShown
    <3> QED BY <2>1, <3>1, ListParsed
  <2>3. \A i \in infos : \/ \E q \in Entries(d) : i = info(q)
                         \/ i = NotEntry
                         \/ /\ ~skip /\ i.is = "info" /\ i.name \in {<<".">>, <<"..">>}
                            /\ NotEntry \in infos
    <3>1. SUFFICES ASSUME NEW line \in reply.lines
                   PROVE  LET i == parseLIST(line, Now, skip)
                          IN \/ \E q \in Entries(d) : i = info(q)
                             \/ i = NotEntry
                             \/ /\ ~skip /\ i.is = "info" /\ i.name \in {<<".">>, <<"..">>}
                                /\ NotEntry \in infos
      OBVIOUS
    <3>2. CASE line \in lines
      BY <3>2
    <3>3. CASE line \notin lines
      <4>1. line \in others /\ total \in reply.lines
        BY <2>1, <3>1, <3>3
      <4>2. parseLIST(total, Now, skip) = NotEntry
        BY DEF parseLIST
      <4>3. NotEntry \in infos
        BY <4>1, <4>2
      <4> QED BY <4>1, <4>3, OtherLs
    <3> QED BY <3>2, <3>3
  <2>4. IsFiniteSet(infos)
    <3> DEFINE f == [q \in Entries(d) |-> ListLine(q, Last(q))]
               g == [line \in reply.lines |-> parseLIST(line, Now, skip)]
    <3>1. IsFiniteSet({f[q] : q \in Entries(d)})
      BY EntriesFinite, ImageFinite
    <3>2. lines = {f[q] : q \in Entries(d)}
      OBVIOUS
    <3>3. IsFiniteSet(others)
      BY ThreeFinite
    <3>4. IsFiniteSet(lines \cup others)
      BY <3>1, <3>2, <3>3, FS_Union
    <3>5. IsFiniteSet(reply.lines)
      BY <2>1, <3>1, <3>2, <3>4
    <3>6. IsFiniteSet({g[line] : line \in reply.lines})
      BY <3>5, ImageFinite
    <3>7. infos = {g[line] : line \in reply.lines}
      OBVIOUS
    <3> QED BY <3>6, <3>7
  <2> HIDE DEF info
  <2>5. \A q \in Entries(d) : skip => Entry(info(q), q)
    BY <2>2 DEF Entry, AsListed
  <2>6. \A q \in Entries(d) : \A i \in infos : skip /\ Entry(i, q) => i = info(q)
    <3>1. SUFFICES ASSUME NEW q \in Entries(d), NEW i \in infos, skip, Entry(i, q) PROVE i = info(q)
      OBVIOUS
    <3>2. i # NotEntry /\ i.raw.of = q
      BY <3>1, NotInfos DEF Entry, About
    <3>3. PICK r \in Entries(d) : i = info(r)
      BY <2>3, <3>1, <3>2
    <3>4. i.raw.of = r
      BY <2>2, <3>3 DEF About
    <3> QED BY <3>2, <3>3, <3>4
  <2>7. skip => ListingOf(infos, d)
    <3>1. SUFFICES ASSUME skip PROVE ListingOf(infos, d)
      OBVIOUS
    <3>2. \A q \in Entries(d) : info(q) \in infos /\ Entry(info(q), q)
      BY <2>2, <2>5, <3>1
    <3>3. \A i \in infos : i = NotEntry \/ \E q \in Entries(d) : i = info(q)
      BY <2>3, <3>1
    <3>4. \A q \in Entries(d) : \A i \in infos : Entry(i, q) => i = info(q)
      BY <2>6, <3>1
    <3> QED BY <3>2, <3>3, <3>4, ZenonT(60) DEF ListingOf
  <2>8. \A i \in infos : i.is = "info" =>
          \/ i.name \in {<<".">>, <<"..">>} /\ NotEntry \in infos
          \/ \E q \in Entries(d) : About(i, q) /\ i.name = AsLISTed(Last(q))
    BY <2>2, <2>3, NotInfos
  <2> QED BY <1>3, <2>4, <2>7, <2>8
<1> QED BY <1>1, <1>2, <1>3

-----------------------------------------------------------------------------
(* What a call returns                                                     *)

(* What Stat may return, of the path it was given. *)
Found(info) ==
  /\ info.is = "info"
  /\ \/ \E kind \in seen \ {"none"} : Describes(info, call.path, Want, kind)
     \/ Mistaken(info.raw.of, call.path)

Missing == "none" \in seen \/ Percent(call.path) \/ AsListed(Want) # Want

StatOutcome(outcome, infos) ==
  \/ outcome = "error"
  \/ outcome = "notFound" /\ Missing
  \/ outcome = "ok" /\ \E info : infos = {info} /\ Found(info)

(* What ReadDir may return, of the directory it has just listed. *)
Exact(infos) ==
  Snapshot.dir =>
    /\ Cardinality(infos) = Cardinality(Snapshot.entries)
    /\ \A e \in Snapshot.entries : \E info \in infos :
         Describes(info, e.of, AsListed(Last(e.of)), e.kind)

ReadDirOutcome(outcome, infos) == outcome = "error" \/ (outcome = "ok" /\ Exact(infos))

Outcome(outcome, infos) ==
  /\ call.op = "Stat" => StatOutcome(outcome, infos)
  /\ call.op = "ReadDir" => ReadDirOutcome(outcome, infos)

(* The state in which a command of Stat or ReadDir is answered. *)
Asking ==
  /\ Given
  /\ call.op \in {"Stat", "ReadDir"}
  /\ At(tree, call.path) \in seen

(* The path that arrives is the one that was meant, or has a "%". *)
LEMMA AskedPath ==
  ASSUME NEW p, p = <<>> \/ Path(p)
  PROVE  /\ ~Percent(p) => Asked(p) = p
         /\ Asked(p) = <<>> <=> p = <<>>
<1>1. ~Percent(p) => Asked(p) = p
  BY DEF Asked
<1>2. ~Percent(<<>>)
  BY DEF Percent
<1>3. ASSUME p # <<>>, Percent(p)
      PROVE  Asked(p) # <<>>
  <2>1. Path(p) /\ DOMAIN p = 1..Len(p) /\ Len(p) \in {1, 2}
    BY <1>3, PathParts DEF Path
  <2>2. 1 \in DOMAIN Asked(p)
    BY <1>3, <2>1 DEF Asked
  <2> QED BY <2>2
<1> QED BY <1>1, <1>2, <1>3

(* An info with the right name of something that is at the path, or of     *)
(* something else, is one that Stat may return.                            *)
LEMMA AboutPath ==
  ASSUME Asking, At(tree, call.path) # "none", NEW info, About(info, call.path),
         call.path # <<>> => info.name = Want
  PROVE  Found(info)
<1>1. At(tree, call.path) \in seen \ {"none"}
  BY DEF Asking
<1>2. Describes(info, call.path, Want, At(tree, call.path))
  BY DEF Describes, About
<1> QED BY <1>1, <1>2 DEF Found, About

LEMMA AboutOther ==
  ASSUME NEW info, NEW q, About(info, q), Mistaken(q, call.path)
  PROVE  Found(info)
BY DEF Found, About

(* The answer of a server that was asked for the path itself. *)
LEMMA AboutAsked ==
  ASSUME Asking, At(tree, Asked(call.path)) # "none", NEW info, About(info, Asked(call.path)),
         Asked(call.path) # <<>> /\ Asked(call.path) = call.path => info.name = Want
  PROVE  Found(info)
<1>1. call.path = <<>> \/ Path(call.path)
  BY ThePaths DEF Asking
<1>2. Asked(call.path) = <<>> <=> call.path = <<>>
  BY <1>1, AskedPath
<1>3. CASE Asked(call.path) = call.path
  BY <1>2, <1>3, AboutPath
<1>4. CASE Asked(call.path) # call.path
  BY <1>2, <1>4, AboutOther DEF Mistaken
<1> QED BY <1>3, <1>4

(* The directory in which Stat looks for the path. *)
LEMMA ParentListed ==
  ASSUME Asking, call.op = "Stat", call.path # <<>>
  PROVE  /\ Dir = Front(call.path) /\ call.path \in DOMAIN tree /\ Path(call.path)
         /\ Dir = <<>> \/ Path(Dir)
         /\ Percent(Dir) => Percent(call.path)
         /\ At(tree, Dir) # "dir" => "none" \in seen
         /\ Want = Last(call.path)
<1>1. call.path \in DOMAIN tree /\ Path(call.path)
  BY ThePaths DEF Asking
<1>2. Dir = Front(call.path) /\ Want = Last(call.path)
  BY DEF Dir, Want
<1>3. Dir = <<>> \/ Path(Dir)
  BY <1>1, <1>2, PathParts DEF Path
<1>4. Percent(Dir) => Percent(call.path)
  <2>1. CASE Len(call.path) = 1
    BY <1>1, <1>2, <2>1, PathParts DEF Percent
  <2>2. CASE Len(call.path) = 2
    <3>1. Dir = <<call.path[1]>> /\ DOMAIN call.path = 1..2
      BY <1>1, <1>2, <2>2, PathParts
    <3>2. Percent(Dir) => Contains(call.path[1], "%")
      BY <3>1 DEF Percent
    <3> QED BY <3>1, <3>2 DEF Percent
  <2> QED BY <1>1, <2>1, <2>2 DEF Path
<1>5. At(tree, Dir) # "dir" => "none" \in seen
  BY <1>1, <1>2, PathParts DEF Asking, Given, Tree, At
<1> QED BY <1>1, <1>2, <1>3, <1>4, <1>5

(* Without a "%" in the path the right directory is asked for. *)
LEMMA ParentAsked ==
  ASSUME Asking, call.op = "Stat", call.path # <<>>, At(tree, Asked(Dir)) # "dir"
  PROVE  Missing
<1>1. CASE Percent(call.path)
  BY <1>1 DEF Missing
<1>2. CASE ~Percent(call.path)
  <2>1. Asked(Dir) = Dir
    BY <1>2, ParentListed, AskedPath
  <2> QED BY <2>1, ParentListed DEF Missing
<1> QED BY <1>1, <1>2

(* One info for each entry: as many infos as entries. *)
LEMMA ListingExact ==
  ASSUME Given, NEW d, NEW infos, ListingOf(infos, d), ParseError \notin infos,
         NEW entries, entries = {i \in infos : i.is = "info"},
         NEW snapshot, snapshot = {[of |-> q, kind |-> tree[q]] : q \in Entries(d)}
  PROVE  /\ Cardinality(entries) = Cardinality(snapshot)
         /\ \A e \in snapshot : \E info \in entries :
              Describes(info, e.of, AsListed(Last(e.of)), e.kind)
<1> DEFINE Q == Entries(d)
           f == [q \in Q |-> CHOOSE i \in entries : Entry(i, q)]
           g == [q \in Q |-> [of |-> q, kind |-> tree[q]]]
<1>1. \A q \in Q : \E i \in entries : Entry(i, q)
  BY DEF ListingOf, Entry, About
<1>2. \A i \in entries : \E q \in Q : Entry(i, q)
  BY NotInfos DEF ListingOf
<1>3. \A q \in Q : \A i, j \in entries : Entry(i, q) /\ Entry(j, q) => i = j
  BY DEF ListingOf
<1>4. IsFiniteSet(Q)
  BY EntriesFinite
<1>5. \A q \in Q : At(tree, q) = tree[q]
  BY EntriesShown
<1> HIDE DEF Q
<1>6. \A q \in Q : f[q] \in entries /\ Entry(f[q], q)
  BY <1>1
<1>7. f \in Bijection(Q, entries)
  <2>1. f \in [Q -> entries]
    BY <1>6
  <2>2. \A q, r \in Q : f[q] = f[r] => q = r
    BY <1>6 DEF Entry, About
  <2>3. \A i \in entries : \E q \in Q : f[q] = i
    BY <1>2, <1>3, <1>6
  <2> HIDE DEF f
  <2> QED BY <2>1, <2>2, <2>3 DEF Bijection, Injection, Surjection, IsInjective
<1>8. g \in Bijection(Q, snapshot)
  <2>1. snapshot = {g[q] : q \in Q}
    BY DEF Q
  <2>2. \A q, r \in Q : g[q] = g[r] => q = r
    <3>1. \A q \in Q : g[q].of = q
      OBVIOUS
    <3> QED BY <3>1
  <2>3. g \in [Q -> snapshot]
    BY <2>1
  <2> HIDE DEF g
  <2> QED BY <2>1, <2>2, <2>3 DEF Bijection, Injection, Surjection, IsInjective
<1>9. Cardinality(entries) = Cardinality(Q) /\ Cardinality(snapshot) = Cardinality(Q)
  <2>1. ExistsBijection(Q, entries) /\ ExistsBijection(Q, snapshot)
    BY <1>7, <1>8 DEF ExistsBijection
  <2> QED BY <1>4, <2>1, FS_Bijection
<1>10. \A e \in snapshot : \E info \in entries :
         Describes(info, e.of, AsListed(Last(e.of)), e.kind)
  <2>1. SUFFICES ASSUME NEW q \in Q
                 PROVE  \E info \in entries : Describes(info, q, AsListed(Last(q)), tree[q])
    BY DEF Q
  <2>2. Describes(f[q], q, AsListed(Last(q)), tree[q])
    BY <1>5, <1>6, <2>1 DEF Describes, Entry, About
  <2> QED BY <1>6, <2>1, <2>2
<1> QED BY <1>9, <1>10

Returns == \E outcome, infos : Return(outcome, infos) /\ Outcome(outcome, infos)

LEMMA ParsedListing ==
  ASSUME Asking, call.op = "Stat" => call.path # <<>>,
         NEW infos, ListingOf(infos, Asked(Dir)), Parsed(infos)
  PROVE  Returns
<1> DEFINE entries == {i \in infos : i.is = "info"}
           found == {i \in entries : i.name = Want}
<1>1. CASE ParseError \in infos
  <2>1. Return("error", {})
    BY <1>1 DEF Parsed
  <2> QED BY <2>1 DEF Returns, Outcome, StatOutcome, ReadDirOutcome
<1>2. CASE ParseError \notin infos /\ call.op = "ReadDir"
  <2>1. Return("ok", entries)
    BY <1>2 DEF Parsed
  <2>2. Snapshot.entries = {[of |-> q, kind |-> tree[q]] : q \in Entries(Asked(Dir))}
    BY DEF Snapshot
  <2>3. Exact(entries)
    BY <1>2, <2>2, ListingExact DEF Exact, Asking
  <2> QED BY <1>2, <2>1, <2>3 DEF Returns, Outcome, ReadDirOutcome
<1>3. CASE ParseError \notin infos /\ call.op = "Stat"
  <2>1. /\ call.path # <<>> /\ Dir = Front(call.path) /\ Path(call.path)
        /\ call.path \in DOMAIN tree /\ Want = Last(call.path)
    BY <1>3, ParentListed
  <2>2. CASE found = {}
    <3>1. Return("notFound", {})
      BY <1>3, <2>2 DEF Parsed
    <3>2. SUFFICES ASSUME ~Missing PROVE FALSE
      BY <1>3, <3>1 DEF Returns, Outcome, StatOutcome
    <3>3. Asked(Dir) = Dir
      BY <1>3, <3>2, ParentListed, AskedPath DEF Missing
    <3>4. tree[call.path] # "none"
      BY <2>1, <3>2 DEF Asking, At, Missing
    <3>5. call.path \in Entries(Asked(Dir))
      BY <2>1, <3>3, <3>4 DEF Entries
    <3>6. \E i \in infos : Entry(i, call.path)
      BY <1>3, <3>5 DEF ListingOf
    <3> QED BY <2>1, <2>2, <3>2, <3>6 DEF Entry, About, Missing
  <2>3. CASE found # {}
    <3>1. PICK i \in found : Return("ok", {i})
      BY <1>3, <2>3 DEF Parsed
    <3>2. i \in infos /\ i.is = "info" /\ i.name = Want
      BY <3>1
    <3>3. PICK q \in Entries(Asked(Dir)) : Entry(i, q)
      BY <3>2, NotInfos DEF ListingOf
    <3>4. q # <<>> /\ Front(q) = Asked(Dir) /\ At(tree, q) # "none"
      BY <3>3, EntriesShown DEF Shown
    <3>5. Last(call.path) \in {Last(q), AsLISTed(Last(q))}
      BY <2>1, <3>2, <3>3 DEF Entry, AsListed
    <3>6. Found(i)
      <4>1. CASE q = call.path
        BY <3>2, <3>3, <3>4, <4>1, AboutPath DEF Entry
      <4>2. CASE q # call.path
        BY <2>1, <3>3, <3>4, <3>5, <4>2, AboutOther DEF Entry, Mistaken
      <4> QED BY <4>1, <4>2
    <3> QED BY <1>3, <3>1, <3>6 DEF Returns, Outcome, StatOutcome
  <2> QED BY <2>2, <2>3
<1> QED BY <1>1, <1>2, <1>3 DEF Asking

LEMMA ErrorReturns ==
  ASSUME Return("error", {})
  PROVE  Returns
BY DEF Returns, Outcome, StatOutcome, ReadDirOutcome

(* The directory was refused: ReadDir fails, and Stat's path is not there. *)
LEMMA RefusedReturns ==
  ASSUME Asking, call.op = "Stat" => call.path # <<>>, At(tree, Asked(Dir)) # "dir",
         Return(IF call.op = "Stat" THEN "notFound" ELSE "error", {})
  PROVE  Returns
<1>1. CASE call.op # "Stat"
  BY <1>1, ErrorReturns
<1>2. CASE call.op = "Stat"
  <2>1. Missing
    BY <1>2, ParentAsked
  <2> QED BY <1>2, <2>1 DEF Returns, Outcome, StatOutcome
<1> QED BY <1>1, <1>2

LEMMA ReadDirReturns ==
  ASSUME Asking, call.op = "Stat" => call.path # <<>>, ReadDirMLSD \/ (ReadDirLIST /\ ~srv.mlsd)
  PROVE  (pc = "MLSD" /\ ~srv.mlsd /\ Goto("LIST")) \/ Returns
<1> DEFINE d == Asked(Dir)
<1>0. Given
  BY DEF Asking
<1>1. CASE ReadDirMLSD
  <2>1. PICK reply \in MLSD(d) :
          CASE reply.is = "unsupported" -> Goto("LIST")
            [] reply.is = "refused" -> Return(IF call.op = "Stat" THEN "notFound" ELSE "error", {})
            [] reply.is = "failed" -> Return("error", {})
            [] reply.is = "lines" -> Parsed({parseMLST(line, TRUE) : line \in reply.lines})
    BY <1>1 DEF ReadDirMLSD
  <2>2. reply.is \in {"unsupported", "refused", "failed", "lines"}
    BY DEF MLSD, Lines, Failed, Refused, Unsupported
  <2>3. CASE reply.is = "unsupported"
    <3>1. ~srv.mlsd
      BY <2>3 DEF MLSD, Lines, Failed, Refused, Unsupported
    <3> QED BY <1>1, <2>1, <2>3, <3>1 DEF ReadDirMLSD
  <2>4. CASE reply.is = "refused"
    <3>1. At(tree, d) # "dir"
      BY <2>4 DEF MLSD, Lines, Failed, Refused, Unsupported
    <3>2. Return(IF call.op = "Stat" THEN "notFound" ELSE "error", {})
      BY <2>1, <2>4
    <3> QED BY <3>1, <3>2, RefusedReturns
  <2>5. CASE reply.is = "failed"
    BY <2>1, <2>5, ErrorReturns
  <2>6. CASE reply.is = "lines"
    <3>1. Parsed({parseMLST(line, TRUE) : line \in reply.lines})
      BY <2>1, <2>6
    <3>2. ListingOf({parseMLST(line, TRUE) : line \in reply.lines}, d)
      BY <1>0, <2>6, MLSDLists
    <3> QED BY <3>1, <3>2, ParsedListing
  <2> QED BY <2>2, <2>3, <2>4, <2>5, <2>6
<1>2. CASE ReadDirLIST /\ ~srv.mlsd
  <2>1. PICK reply \in LIST(d) :
          CASE reply.is = "refused" -> Return(IF call.op = "Stat" THEN "notFound" ELSE "error", {})
            [] reply.is = "failed" -> Return("error", {})
            [] reply.is = "lines" -> Parsed({parseLIST(line, Now, TRUE) : line \in reply.lines})
    BY <1>2 DEF ReadDirLIST
  <2>2. reply.is \in {"refused", "failed", "lines"}
    BY DEF LIST, Lines, Failed, Refused
  <2>3. CASE reply.is = "refused"
    <3>1. At(tree, d) # "dir"
      BY <2>3 DEF LIST, Lines, Failed, Refused
    <3>2. Return(IF call.op = "Stat" THEN "notFound" ELSE "error", {})
      BY <2>1, <2>3
    <3> QED BY <3>1, <3>2, RefusedReturns
  <2>4. CASE reply.is = "failed"
    BY <2>1, <2>4, ErrorReturns
  <2>5. CASE reply.is = "lines"
    <3> DEFINE infos == {parseLIST(line, Now, TRUE) : line \in reply.lines}
    <3>1. Parsed(infos)
      BY <2>1, <2>5
    <3>2. \/ At(tree, d) = "none" /\ infos = {}
          \/ /\ At(tree, d) \notin {"none", "dir"} /\ d # <<>>
             /\ \E i : infos = {i} /\ About(i, d) /\ i.name \in {Last(d), AsLISTed(Last(d))}
          \/ ListingOf(infos, d)
      BY <1>0, <1>2, <2>5, LISTLists
    <3> HIDE DEF infos, d
    <3>3. CASE ListingOf(infos, d)
      BY <3>1, <3>3, ParsedListing DEF d
    <3>4. CASE At(tree, d) # "dir" /\ call.op = "ReadDir" /\ \A i \in infos : i # ParseError
      <4>1. Return("ok", {i \in infos : i.is = "info"})
        BY <3>1, <3>4 DEF Parsed
      <4>2. Exact({i \in infos : i.is = "info"})
        BY <3>4 DEF Exact, Snapshot, d
      <4> QED BY <3>4, <4>1, <4>2 DEF Returns, Outcome, ReadDirOutcome
    <3>5. CASE /\ At(tree, d) # "dir" /\ call.op = "Stat"
               /\ \A i \in infos : /\ At(tree, d) # "none" /\ d # <<>> /\ About(i, d)
                                   /\ i.name \in {Last(d), AsLISTed(Last(d))}
      <4>1. ParseError \notin infos /\ \A i \in infos : i.is = "info"
        BY <3>5, NotInfos DEF About
      <4>2. \/ Return("notFound", {})
            \/ \E i \in infos : i.name = Want /\ Return("ok", {i})
        BY <3>1, <3>5, <4>1 DEF Parsed
      <4>3. CASE Return("notFound", {})
        <5>1. Missing
          BY <3>5, ParentAsked DEF d
        <5> QED BY <3>5, <4>3, <5>1 DEF Returns, Outcome, StatOutcome
      <4>4. ASSUME NEW i \in infos, i.name = Want, Return("ok", {i})
            PROVE  Returns
        <5>1. Dir = Front(call.path) /\ Want = Last(call.path) /\ call.path # <<>>
          BY <3>5, ParentListed
        <5>2. Found(i)
          <6>1. CASE d = call.path
            BY <3>5, <4>4, <6>1, AboutPath
          <6>2. CASE d # call.path
            <7>1. Mistaken(d, call.path)
              BY <3>5, <4>4, <5>1, <6>2 DEF Mistaken, d
            <7> QED BY <3>5, <4>4, <7>1, AboutOther
          <6> QED BY <6>1, <6>2
        <5> QED BY <3>5, <4>4, <5>2 DEF Returns, Outcome, StatOutcome
      <4> QED BY <4>2, <4>3, <4>4
    <3>6. \A i : About(i, d) => i # ParseError
      BY NotInfos DEF About
    <3> QED BY <3>2, <3>3, <3>4, <3>5, <3>6 DEF Asking
  <2> QED BY <2>2, <2>3, <2>4, <2>5
<1> QED BY <1>1, <1>2

LEMMA StatMLSTReturns ==
  ASSUME Asking, call.op = "Stat", StatMLST
  PROVE  Goto("LIST-d") \/ Returns
<1> DEFINE d == Asked(call.path)
<1>1. PICK reply \in MLST(d) :
        CASE reply.is = "unsupported" -> Goto("LIST-d")
          [] reply.is = "refused" -> Return("notFound", {})
          [] reply.is = "failed" -> Return("error", {})
          [] reply.is = "lines" ->
               IF Len(reply.lines) # 1 THEN Return("error", {})
               ELSE LET info == parseMLST(reply.lines[1], FALSE)
                    IN IF info.is = "info" THEN Return("ok", {info}) ELSE Return("error", {})
  BY DEF StatMLST
<1>2. reply.is \in {"unsupported", "refused", "failed", "lines"}
  BY DEF MLST, Lines, Failed, Refused, Unsupported
<1>3. CASE reply.is = "unsupported"
  BY <1>1, <1>3
<1>4. CASE reply.is = "refused"
  <2>1. At(tree, d) = "none"
    BY <1>4 DEF MLST, Lines, Failed, Refused, Unsupported
  <2>2. Missing
    BY <2>1 DEF Asked, Missing, Asking
  <2>3. Return("notFound", {})
    BY <1>1, <1>4
  <2> QED BY <2>2, <2>3 DEF Returns, Outcome, StatOutcome
<1>5. CASE reply.is = "failed"
  BY <1>1, <1>5, ErrorReturns
<1>6. CASE reply.is = "lines"
  <2>1. /\ At(tree, d) # "none"
        /\ \/ \E text \in FullNames(d) : reply.lines = <<FactsLine(d, text)>>
           \/ reply.lines \in {<<Blank>>, <<>>}
    BY <1>6 DEF MLST, Lines, Failed, Refused, Unsupported
  <2> DEFINE info == parseMLST(reply.lines[1], FALSE)
  <2>2. Return("error", {}) \/ (reply.lines # <<>> /\ info.is = "info" /\ Return("ok", {info}))
    <3>1. Len(<<>>) # 1
      OBVIOUS
    <3>2. IF Len(reply.lines) # 1 THEN Return("error", {})
          ELSE IF info.is = "info" THEN Return("ok", {info}) ELSE Return("error", {})
      BY <1>1, <1>6
    <3> HIDE DEF info
    <3> QED BY <3>1, <3>2
  <2>3. CASE reply.lines # <<>> /\ info.is = "info" /\ Return("ok", {info})
    <3>1. reply.lines[1] # Blank
      BY <2>3, NotInfos DEF parseMLST, Blank
    <3>2. PICK text \in FullNames(d) : reply.lines[1] = FactsLine(d, text)
      BY <2>1, <2>3, <3>1
    <3>3. Given /\ Shown(d, text)
      BY <2>1, <3>2 DEF Shown, FullNames, Asking
    <3>4. info = ParseError \/ (About(info, d) /\ info.name = Base(text))
      BY <3>2, <3>3, FactsParsed
    <3>5. About(info, d) /\ info.name = Base(text)
      BY <2>3, <3>4, NotInfos
    <3>6. d # <<>> /\ d = call.path => info.name = Want
      <4>1. SUFFICES ASSUME d # <<>>, d = call.path PROVE Base(text) = Want
        BY <3>5
      <4>2. text = Full(d) /\ Path(d)
        BY <2>1, <3>2, <3>3, <4>1, ShownPath DEF FullNames
      <4>3. Base(text) = Last(d)
        BY <4>2, FullPath
      <4> QED BY <4>1, <4>3 DEF Want
    <3>7. Found(info)
      <4> HIDE DEF info
      <4> QED BY <2>1, <3>5, <3>6, AboutAsked
    <3> QED BY <2>3, <3>7 DEF Returns, Outcome, StatOutcome
  <2> QED BY <2>2, <2>3, ErrorReturns
<1> QED BY <1>2, <1>3, <1>4, <1>5, <1>6

(* One line with the right name, among those of LIST -d, is about the path *)
(* or about one that is mistaken for it.                                   *)
LEMMA EntryFound ==
  ASSUME Asking, call.op = "Stat", NEW reply \in ListEntry(Asked(call.path)),
         reply.is = "lines",
         NEW infos, infos = {parseLIST(line, Now, FALSE) : line \in reply.lines},
         NEW i \in infos, i.is = "info", i.name = Want
  PROVE  IsFiniteSet(infos) /\ (infos = {i} => Found(i))
<1> DEFINE d == Asked(call.path)
<1>1. Given /\ (call.path = <<>> \/ Path(call.path))
  BY ThePaths DEF Asking
<1>2. d = <<>> <=> call.path = <<>>
  BY <1>1, AskedPath
<1>3. CASE srv.dash = "known" /\ At(tree, d) # "none"
  <2>1. PICK text \in FullNames(d) : reply.lines = {ListLine(d, text)}
    BY <1>3 DEF ListEntry, Lines, Failed
  <2>2. Shown(d, text)
    BY <1>3, <2>1 DEF Shown, FullNames
  <2>3. infos = {parseLIST(ListLine(d, text), Now, FALSE)}
    BY <2>1
  <2>4. About(i, d)
    BY <1>1, <2>2, <2>3, ListParsed
  <2>5. Found(i)
    BY <1>3, <2>4, AboutAsked
  <2> QED BY <2>3, <2>5, FS_Singleton
<1>4. CASE srv.dash = "ignored"
  <2>1. reply \in LIST(d)
    BY <1>4 DEF ListEntry
  <2>2. \/ infos = {}
        \/ At(tree, d) # "none" /\ \E j : infos = {j} /\ About(j, d)
        \/ /\ IsFiniteSet(infos)
           /\ \/ i.name \in {<<".">>, <<"..">>} /\ NotEntry \in infos
              \/ \E q \in Entries(d) : About(i, q) /\ i.name = AsLISTed(Last(q))
    BY <1>1, <2>1, LISTLists
  <2>3. CASE At(tree, d) # "none" /\ \E j : infos = {j} /\ About(j, d)
    <3>1. About(i, d) /\ IsFiniteSet(infos)
      BY <2>3, FS_Singleton
    <3> QED BY <2>3, <3>1, AboutAsked
  <2>4. CASE IsFiniteSet(infos) /\ \E q \in Entries(d) : About(i, q) /\ i.name = AsLISTed(Last(q))
    <3>1. PICK q \in Entries(d) : About(i, q) /\ i.name = AsLISTed(Last(q))
      BY <2>4
    <3>2. q # <<>> /\ Front(q) = d /\ At(tree, q) # "none" /\ Name(Last(q))
      BY <1>1, <3>1, EntriesShown, ShownPath DEF Shown
    <3>3. call.path # <<>>
      <4>1. AsLISTed(Last(q)) # <<".">>
        BY <3>2, NameTexts DEF AsLISTed
      <4> QED BY <3>1, <4>1 DEF Want
    <3>4. CASE q = call.path
      BY <2>4, <3>1, <3>2, <3>4, AboutPath
    <3>5. CASE q # call.path
      <4>1. Mistaken(q, call.path)
        BY <3>1, <3>2, <3>3, <3>5 DEF Mistaken, Want
      <4> QED BY <2>4, <3>1, <4>1, AboutOther
    <3> QED BY <3>4, <3>5
  <2>5. CASE IsFiniteSet(infos) /\ NotEntry \in infos
    <3>1. i # NotEntry
      BY NotInfos
    <3> QED BY <2>5, <3>1
  <2> QED BY <2>2, <2>3, <2>4, <2>5
<1>5. CASE ~(srv.dash = "known" /\ At(tree, d) # "none") /\ srv.dash # "ignored"
  BY <1>5 DEF ListEntry, Failed, Refused
<1> QED BY <1>3, <1>4, <1>5

LEMMA StatViaLISTReturns ==
  ASSUME Asking, call.op = "Stat", StatViaLIST
  PROVE  (call.path # <<>> /\ Goto("MLSD")) \/ Returns
<1>1. PICK reply \in ListEntry(Asked(call.path)) :
        LET infos == IF reply.is # "lines" THEN {}
                     ELSE {parseLIST(line, Now, FALSE) : line \in reply.lines}
            found == {i \in infos : i.is = "info" /\ i.name = Want}
        IN IF Cardinality(infos) = 1 /\ found # {} THEN Return("ok", found)
           ELSE IF call.path = <<>> THEN Return("error", {})
           ELSE Goto("MLSD")
  BY DEF StatViaLIST
<1> DEFINE infos == IF reply.is # "lines" THEN {}
                    ELSE {parseLIST(line, Now, FALSE) : line \in reply.lines}
           found == {i \in infos : i.is = "info" /\ i.name = Want}
<1>2. CASE Cardinality(infos) = 1 /\ found # {}
  <2>1. Return("ok", found)
    BY <1>1, <1>2
  <2>2. PICK i \in infos : i.is = "info" /\ i.name = Want
    BY <1>2
  <2>3. reply.is = "lines"
    BY <2>2
  <2>4. infos = {parseLIST(line, Now, FALSE) : line \in reply.lines}
    BY <2>3
  <2>5. IsFiniteSet(infos) /\ (infos = {i} => Found(i))
    <3> HIDE DEF infos
    <3> QED BY <2>2, <2>3, <2>4, EntryFound
  <2>6. \E x : infos = {x}
    <3> HIDE DEF infos
    <3> QED BY <1>2, <2>5, FS_Singleton
  <2>7. found = {i} /\ infos = {i}
    <3> HIDE DEF infos
    <3> QED BY <2>2, <2>6
  <2> HIDE DEF found, infos
  <2> QED BY <2>1, <2>5, <2>7 DEF Returns, Outcome, StatOutcome
<1>3. CASE ~(Cardinality(infos) = 1 /\ found # {})
  <2>1. IF call.path = <<>> THEN Return("error", {}) ELSE Goto("MLSD")
    BY <1>1, <1>3
  <2> QED BY <2>1, ErrorReturns
<1> QED BY <1>2, <1>3

-----------------------------------------------------------------------------
(* The invariant                                                           *)

(* Which call is at which command. *)
Labels ==
  /\ call.op \in {"Stat", "ReadDir", "Getwd", "Mkdir"}
  /\ pc \in {"MLST", "LIST-d", "MLSD", "LIST", "PWD", "MKD", "done"}
  /\ pc \in {"MLST", "LIST-d"} => call.op = "Stat"
  /\ pc \in {"MLSD", "LIST"} => \/ call.op = "Stat" /\ call.path # <<>>
                                \/ call.op = "ReadDir"
  /\ pc = "LIST" => ~srv.mlsd
  /\ pc = "PWD" => call.op = "Getwd"
  /\ pc = "MKD" => call.op = "Mkdir" /\ call.path # <<>>

(* While commands are sent: the tree is one, and what is at the path now   *)
(* has been seen.                                                          *)
Running == pc # "done" => result.is = "none" /\ Tree(tree) /\ At(tree, call.path) \in seen

(* What the call returned is right. *)
Answered ==
  pc = "done" =>
    /\ result.is \in {"ok", "notFound", "error"}
    /\ (call.op = "Stat" /\ result.is = "ok") => \E info : result.infos = {info} /\ Found(info)
    /\ NotFoundIsTrue
    /\ ReadDirExact
    /\ DirNameExact

FSInv == Shape /\ changes \in 0..MaxChanges /\ Labels /\ Running /\ Answered

LEMMA InitFS == Init => FSInv
<1> SUFFICES ASSUME Init PROVE FSInv
  OBVIOUS
<1>1. PICK names \in NameSets :
        /\ tree \in {t \in [PathsOver(names) -> Kinds[1] \cup Kinds[2]] :
                       /\ \A p \in PathsOver(names) : t[p] \in Kinds[Len(p)]
                       /\ Tree(t)}
        /\ call \in [op : {"Stat", "ReadDir", "Getwd", "Mkdir"},
                     path : {<<>>} \cup PathsOver(names)]
  BY DEF Init
<1>2. DOMAIN tree = PathsOver(names) /\ \A p \in DOMAIN tree : tree[p] \in Kinds[Len(p)]
  BY <1>1
<1>3. Tree(tree)
  BY <1>1
<1>4. call.path \in {<<>>} \cup PathsOver(names) /\ call.op \in {"Stat", "ReadDir", "Getwd", "Mkdir"}
  BY <1>1
<1>5. Shape
  BY <1>2, <1>4 DEF Init, Shape, Servers
<1>6. Labels /\ pc # "done"
  BY <1>4 DEF Init, Labels
<1>7. Running /\ Answered
  BY <1>3, <1>6 DEF Init, Running, Answered
<1>8. changes \in 0..MaxChanges
  BY FileSystemAssumption DEF Init
<1> QED BY <1>5, <1>6, <1>7, <1>8 DEF FSInv

(* The end of a Stat or a ReadDir. *)
LEMMA CallEnds ==
  ASSUME FSInv, Returns, UNCHANGED <<srv, tree, changes, call, seen>>,
         call.op \in {"Stat", "ReadDir"}, call.op = "ReadDir" => listed' = Snapshot
  PROVE  FSInv'
<1>1. PICK outcome, infos : Return(outcome, infos) /\ Outcome(outcome, infos)
  BY DEF Returns
<1>2. pc' = "done" /\ result'.is = outcome /\ result'.infos = infos
  BY <1>1 DEF Return
<1>3. outcome \in {"ok", "notFound", "error"}
  BY <1>1 DEF Outcome, StatOutcome, ReadDirOutcome
<1>4. Shape' /\ (changes \in 0..MaxChanges)'
  BY DEF FSInv, Shape
<1>5. Labels' /\ Running'
  BY <1>2 DEF FSInv, Labels, Running
<1>6. (call.op = "Stat" /\ outcome = "ok") => \E info : infos = {info} /\ Found(info)'
  BY <1>1 DEF Outcome, StatOutcome, Found, Describes, Mistaken, Want, AsLISTed
<1>7. NotFoundIsTrue'
  <2>1. (call.op = "Stat" /\ outcome = "notFound") => Missing
    BY <1>1 DEF Outcome, StatOutcome
  <2> QED BY <1>2, <2>1 DEF NotFoundIsTrue, Missing, Want, AsListed, AsLISTed
<1>8. ReadDirExact'
  <2>1. CASE call.op = "ReadDir" /\ outcome = "ok"
    <3>1. Exact(infos) /\ listed' = Snapshot
      BY <1>1, <2>1 DEF Outcome, ReadDirOutcome
    <3>2. listed'.dir = Snapshot.dir /\ listed'.entries = Snapshot.entries
      BY <3>1
    <3> QED BY <1>2, <3>1, <3>2 DEF ReadDirExact, Exact, Describes, AsListed, AsLISTed
  <2>2. CASE ~(call.op = "ReadDir" /\ outcome = "ok")
    BY <1>2, <2>2 DEF ReadDirExact
  <2> QED BY <2>1, <2>2
<1>9. Answered'
  BY <1>2, <1>3, <1>6, <1>7, <1>8 DEF Answered, DirNameExact
<1> QED BY <1>4, <1>5, <1>9 DEF FSInv

(* The call goes on with another command. *)
LEMMA CallGoesOn ==
  ASSUME FSInv, UNCHANGED <<srv, tree, changes, call, seen>>, pc # "done", NEW label, Goto(label),
         \/ label = "LIST-d" /\ call.op = "Stat"
         \/ /\ label \in {"MLSD", "LIST"} /\ (label = "LIST" => ~srv.mlsd)
            /\ (call.op = "Stat" /\ call.path # <<>>) \/ call.op = "ReadDir"
  PROVE  FSInv'
<1>1. pc' = label /\ result' = result /\ label # "done"
  BY DEF Goto
<1>2. Shape' /\ (changes \in 0..MaxChanges)'
  BY DEF FSInv, Shape
<1>3. Labels'
  BY <1>1 DEF FSInv, Labels
<1>4. Running' /\ Answered'
  BY <1>1 DEF FSInv, Running, Answered, Tree
<1> QED BY <1>2, <1>3, <1>4 DEF FSInv

LEMMA CommandsKeep ==
  ASSUME FSInv, StatMLST \/ StatViaLIST \/ ReadDirMLSD \/ ReadDirLIST
  PROVE  FSInv'
<1>1. pc \in {"MLST", "LIST-d", "MLSD", "LIST"} /\ UNCHANGED <<srv, tree, changes, call, seen>>
  BY DEF StatMLST, StatViaLIST, ReadDirMLSD, ReadDirLIST
<1>2. Asking
  BY <1>1 DEF FSInv, Labels, Running, Asking, Given
<1>3. CASE StatMLST
  <2>1. call.op = "Stat"
    BY <1>3 DEF StatMLST, FSInv, Labels
  <2>2. Goto("LIST-d") \/ Returns
    BY <1>2, <1>3, <2>1, StatMLSTReturns
  <2> QED BY <1>1, <2>1, <2>2, CallGoesOn, CallEnds
<1>4. CASE StatViaLIST
  <2>1. call.op = "Stat"
    BY <1>4 DEF StatViaLIST, FSInv, Labels
  <2>2. (call.path # <<>> /\ Goto("MLSD")) \/ Returns
    BY <1>2, <1>4, <2>1, StatViaLISTReturns
  <2> QED BY <1>1, <2>1, <2>2, CallGoesOn, CallEnds
<1>5. CASE ReadDirMLSD \/ ReadDirLIST
  <2>1. listed' = Snapshot /\ pc \in {"MLSD", "LIST"}
    BY <1>5 DEF ReadDirMLSD, ReadDirLIST
  <2>2. (call.op = "Stat" /\ call.path # <<>>) \/ call.op = "ReadDir"
    BY <2>1 DEF FSInv, Labels
  <2>3. (~srv.mlsd /\ Goto("LIST")) \/ Returns
    <3>1. ReadDirLIST => ~srv.mlsd
      BY DEF ReadDirLIST, FSInv, Labels
    <3> QED BY <1>2, <1>5, <2>2, <3>1, ReadDirReturns
  <2> QED BY <1>1, <2>1, <2>2, <2>3, CallGoesOn, CallEnds
<1> QED BY <1>3, <1>4, <1>5

(* Getwd and Mkdir return the name, or fail. *)
LEMMA NamesReturn ==
  ASSUME call.path = <<>> \/ Path(call.path), Getwd \/ Mkdir
  PROVE  result'.is = "ok" => result'.infos = {Full(call.path)}
<1> DEFINE S == Written \cup {"'", "created", "done"}
<1>1. Full(call.path) \in Seq(Written)
  <2>1. Full(<<>>) \in Seq(Written)
    BY FullRoot, TextTypes
  <2> QED BY <2>1, FullPath
<1>2. Full(call.path) \in Seq(S) /\ {"'", "created", "done"} \subseteq S
  BY <1>1
<1> HIDE DEF S
<1>3. \A msg \in NameReplies(call.path) :
        HasDirName(msg) => extractDirName(msg) = Full(call.path)
  BY <1>2, NameAnswered
<1>4. CASE Getwd
  <2>1. \/ Return("error", {})
        \/ \E msg \in NameReplies(call.path) :
             HasDirName(msg) /\ Return("ok", {extractDirName(msg)})
    BY <1>4 DEF Getwd
  <2>2. Return("error", {}) \/ Return("ok", {Full(call.path)})
    BY <1>3, <2>1
  <2> QED BY <2>2 DEF Return
<1>5. CASE Mkdir
  <2>1. \/ Return("error", {})
        \/ \E msg \in NameReplies(call.path) :
             Return("ok", {IF HasDirName(msg) THEN extractDirName(msg) ELSE Full(call.path)})
    BY <1>5 DEF Mkdir
  <2>2. Return("error", {}) \/ Return("ok", {Full(call.path)})
    BY <1>3, <2>1
  <2> QED BY <2>2 DEF Return
<1> QED BY <1>4, <1>5

LEMMA NamesKeep ==
  ASSUME FSInv, Getwd \/ Mkdir
  PROVE  FSInv'
<1>0. Return("error", {}) \/ \E infos : Return("ok", infos)
  BY DEF Getwd, Mkdir
<1>1. pc' = "done" /\ result'.is \in {"ok", "error"}
  <2>1. CASE Return("error", {})
    BY <2>1 DEF Return
  <2>2. CASE \E infos : Return("ok", infos)
    BY <2>2 DEF Return
  <2> QED BY <1>0, <2>1, <2>2
<1>2. pc' = "done" /\ call' = call /\ srv' = srv /\ changes' = changes
  BY <1>1 DEF Return, Getwd, Mkdir
<1>3. call.op \in {"Getwd", "Mkdir"}
  BY DEF FSInv, Labels, Getwd, Mkdir
<1>4. Shape'
  <2>1. CASE tree' = tree
    BY <1>2, <2>1 DEF FSInv, Shape
  <2>2. CASE tree' # tree
    <3>1. /\ tree' = [tree EXCEPT ![call.path] = "dir"] /\ call.path # <<>> /\ pc # "done"
      BY <2>2 DEF Getwd, Mkdir, FSInv, Labels
    <3>2. Given
      BY <3>1 DEF FSInv, Running, Given
    <3>3. call.path \in DOMAIN tree /\ Len(call.path) \in {1, 2}
      BY <3>1, <3>2, ThePaths DEF Path
    <3>4. "dir" \in Kinds[Len(call.path)]
      BY <3>3, FileSystemAssumption
    <3>5. DOMAIN tree' = DOMAIN tree /\ \A p \in DOMAIN tree : tree'[p] \in Kinds[Len(p)]
      BY <3>1, <3>3, <3>4 DEF FSInv, Shape
    <3> QED BY <1>2, <3>5 DEF FSInv, Shape
  <2> QED BY <2>1, <2>2
<1>5. Labels' /\ Running'
  BY <1>2 DEF FSInv, Labels, Running
<1>6. DirNameExact'
  <2>1. call.path = <<>> \/ Path(call.path)
    <3>1. Given
      BY DEF Getwd, Mkdir, FSInv, Running, Given
    <3> QED BY <3>1, ThePaths
  <2>2. result'.is = "ok" => result'.infos = {Full(call.path)}
    BY <2>1, NamesReturn
  <2> QED BY <1>2, <2>2 DEF DirNameExact
<1>7. Answered'
  BY <1>1, <1>2, <1>3, <1>6 DEF Answered, NotFoundIsTrue, ReadDirExact
<1> QED BY <1>2, <1>4, <1>5, <1>7 DEF FSInv

LEMMA ChangeKeeps ==
  ASSUME FSInv, Change
  PROVE  FSInv'
<1>1. /\ pc # "done" /\ pc' = pc /\ result' = result /\ call' = call /\ srv' = srv
      /\ Tree(tree') /\ seen' = seen \cup {At(tree', call.path)}
      /\ changes < MaxChanges /\ changes' = changes + 1
  BY DEF Change
<1>2. PICK p \in DOMAIN tree : \E kind \in Kinds[Len(p)] : tree' = [tree EXCEPT ![p] = kind]
  BY DEF Change
<1>3. DOMAIN tree' = DOMAIN tree /\ \A q \in DOMAIN tree : tree'[q] \in Kinds[Len(q)]
  BY <1>2 DEF FSInv, Shape
<1>4. Shape'
  BY <1>1, <1>3 DEF FSInv, Shape
<1>5. changes' \in 0..MaxChanges
  BY <1>1, FileSystemAssumption DEF FSInv
<1>6. Labels'
  BY <1>1 DEF FSInv, Labels
<1>7. Running' /\ Answered'
  BY <1>1 DEF FSInv, Running, Answered, Tree
<1> QED BY <1>4, <1>5, <1>6, <1>7 DEF FSInv

LEMMA StepFS == FSInv /\ [Next]_vars => FSInv'
<1> SUFFICES ASSUME FSInv, [Next]_vars PROVE FSInv'
  OBVIOUS
<1>1. CASE UNCHANGED vars
  BY <1>1 DEF vars, FSInv, Shape, Labels, Running, Tree, Answered, Found, NotFoundIsTrue,
              ReadDirExact, DirNameExact, Describes, Mistaken, Want, AsListed, AsLISTed
<1> QED BY <1>1, CommandsKeep, NamesKeep, ChangeKeeps DEF Next

(* The invariant: each call sends only its own commands; while it runs,    *)
(* what is at its path now is among what was seen; and what it has         *)
(* returned is right.                                                      *)
THEOREM FileSystemInvariant == Spec => []FSInv
BY InitFS, StepFS, PTL DEF Spec

(* Every variable stays in its range, and a Stat that succeeds returns one *)
(* FileInfo, never nil or an error, for any names, kinds and date.         *)
THEOREM FileSystemTypes == Spec => []TypeOK
<1>1. FSInv => TypeOK
  <2> SUFFICES ASSUME FSInv PROVE TypeOK
    OBVIOUS
  <2>1. (call.op = "Stat" /\ result.is = "ok") =>
          Cardinality(result.infos) = 1 /\ \A i \in result.infos : i.is = "info"
    <3> SUFFICES ASSUME call.op = "Stat", result.is = "ok"
                 PROVE  Cardinality(result.infos) = 1 /\ \A i \in result.infos : i.is = "info"
      OBVIOUS
    <3>1. PICK info : result.infos = {info} /\ Found(info)
      BY DEF FSInv, Running, Answered
    <3> QED BY <3>1, FS_Singleton DEF Found
  <2>2. (pc = "done") <=> (result.is \in {"ok", "notFound", "error"})
    BY DEF FSInv, Running, Answered
  <2> QED BY <2>1, <2>2 DEF TypeOK, FSInv, Shape, Labels
<1> QED BY <1>1, FileSystemInvariant, PTL

(* What Stat returns describes the path it was given as it was at some     *)
(* moment of the call, or it is one of the lines that Mistaken names, and  *)
(* no other: whichever of the four commands answered, in every format, for *)
(* any number of changes by other clients, and for any names, those with   *)
(* blanks and percent signs included.                                      *)
THEOREM StatDescribes == Spec => []StatDescribesPath
<1>1. FSInv => StatDescribesPath
  BY DEF FSInv, Running, Answered, StatDescribesPath, Found
<1> QED BY <1>1, FileSystemInvariant, PTL

(* Stat returns "not found" only for a path that at some moment of the     *)
(* call was not there, that has a "%", or whose name LIST cannot show.     *)
THEOREM StatNotFound == Spec => []NotFoundIsTrue
<1>1. FSInv => NotFoundIsTrue
  BY DEF FSInv, Running, Answered, NotFoundIsTrue
<1> QED BY <1>1, FileSystemInvariant, PTL

(* ReadDir returns as many infos as the directory that the server was      *)
(* asked for has entries, and a correct one for each, in every format and  *)
(* for any names and dates; the name is what the format leaves of it.      *)
THEOREM ReadDirLists == Spec => []ReadDirExact
<1>1. FSInv => ReadDirExact
  BY DEF FSInv, Running, Answered, ReadDirExact
<1> QED BY <1>1, FileSystemInvariant, PTL

(* Getwd and Mkdir return the directory's name as the server knows it, for *)
(* a name of any length with any quotes, adjacent ones too, with or        *)
(* without a comment after it.                                             *)
THEOREM DirNames == Spec => []DirNameExact
<1>1. FSInv => DirNameExact
  BY DEF FSInv, Running, Answered, DirNameExact
<1> QED BY <1>1, FileSystemInvariant, PTL
=============================================================================
