---- MODULE Blocks_proofs ----
(***************************************************************************)
(* What is cut out of an answer by the beginnings of tag names is what was *)
(* put in, for answers of any length.                                      *)
(***************************************************************************)
EXTENDS Blocks, SequenceTheorems, FiniteSetTheorems, TLAPS

----
(* Places.                                                                 *)

\* A set of places is finite, and so is a part of it.
LEMMA FinitePlaces ==
    ASSUME NEW L \in Nat, NEW S, S \subseteq 1 .. L
    PROVE  IsFiniteSet(S) /\ Cardinality(S) \in Nat /\ S \subseteq Nat
  <1>1. 1 \in Int /\ L \in Int
    OBVIOUS
  <1>2. IsFiniteSet(1 .. L)
    BY <1>1, FS_Interval
  <1>3. IsFiniteSet(S)
    BY <1>2, FS_Subset
  <1> QED
    BY <1>3, FS_CardinalityType

\* How many of the places S are not to the right of i.
UpTo(S, i) == Cardinality({k \in S : k <= i})

\* The places are counted off from left to right: the n-th is the one with n up to it.
LEMMA CountedOff ==
    ASSUME NEW L \in Nat, NEW S, S \subseteq 1 .. L
    PROVE  /\ Cardinality(S) \in Nat
           /\ \A i \in S : UpTo(S, i) \in 1 .. Cardinality(S)
           /\ \A i, j \in S : i < j => UpTo(S, i) < UpTo(S, j)
           /\ \A n \in 1 .. Cardinality(S) : \E i \in S : UpTo(S, i) = n
  <1>1. IsFiniteSet(S) /\ Cardinality(S) \in Nat /\ S \subseteq Nat
    BY FinitePlaces
  <1>2. PICK N : N = Cardinality(S)
    OBVIOUS
  <1>3. \A i \in S : IsFiniteSet({k \in S : k <= i}) /\ UpTo(S, i) \in Nat /\ UpTo(S, i) <= N
    <2> SUFFICES ASSUME NEW i \in S
                 PROVE  IsFiniteSet({k \in S : k <= i}) /\ UpTo(S, i) \in Nat /\ UpTo(S, i) <= N
      OBVIOUS
    <2>1. PICK T : T = {k \in S : k <= i} /\ T \subseteq S
      OBVIOUS
    <2>2. IsFiniteSet(T) /\ Cardinality(T) <= N
      BY <1>1, <1>2, <2>1, FS_Subset
    <2>3. Cardinality(T) \in Nat
      BY <2>2, FS_CardinalityType
    <2> QED
      BY <2>1, <2>2, <2>3 DEF UpTo
  <1>4. \A i \in S : UpTo(S, i) \in 1 .. N
    <2> SUFFICES ASSUME NEW i \in S
                 PROVE  UpTo(S, i) \in 1 .. N
      OBVIOUS
    <2>1. PICK T : T = {k \in S : k <= i}
      OBVIOUS
    <2>2. i \in T /\ IsFiniteSet(T)
      BY <1>1, <1>3, <2>1
    <2>3. Cardinality(T) # 0
      BY <2>2, FS_EmptySet
    <2>4. UpTo(S, i) = Cardinality(T)
      BY <2>1 DEF UpTo
    <2>5. UpTo(S, i) \in Nat /\ UpTo(S, i) <= N /\ N \in Nat
      BY <1>1, <1>2, <1>3
    <2> QED
      BY <2>3, <2>4, <2>5
  <1>5. ASSUME NEW i \in S, NEW j \in S, i < j
        PROVE  UpTo(S, i) < UpTo(S, j)
    <2>1. PICK T : T = {k \in S : k <= j}
      OBVIOUS
    <2>9. IsFiniteSet(T)
      BY <1>3, <2>1
    <2>2. PICK U : U = {k \in S : k <= i}
      OBVIOUS
    <2>3. PICK V : V = T \ {j}
      OBVIOUS
    <2>4. j \in T /\ U \subseteq V
      <3>1. i \in Nat /\ j \in Nat /\ i < j
        BY <1>1, <1>5
      <3>2. j \in T
        BY <2>1, <3>1
      <3>3. \A k \in U : k \in S /\ k <= i /\ k \in Nat
        BY <1>1, <2>2
      <3>4. \A k \in U : k <= j /\ k # j
        BY <3>1, <3>3
      <3> QED
        BY <2>1, <2>3, <3>2, <3>3, <3>4
    <2>5. IsFiniteSet(V) /\ Cardinality(V) = Cardinality(T) - 1
      BY <2>3, <2>4, <2>9, FS_RemoveElement
    <2>6. Cardinality(U) <= Cardinality(V)
      BY <2>4, <2>5, FS_Subset
    <2>7. UpTo(S, j) = Cardinality(T) /\ UpTo(S, i) = Cardinality(U)
      BY <2>1, <2>2 DEF UpTo
    <2>8. UpTo(S, j) \in Nat /\ UpTo(S, i) \in Nat
      BY <1>3
    <2> QED
      BY <2>5, <2>6, <2>7, <2>8
  <1>6. \A n \in 1 .. N : \E i \in S : UpTo(S, i) = n
    <2>1. PICK f : f = [i \in S |-> UpTo(S, i)]
      OBVIOUS
    <2>2. f \in [S -> 1 .. N]
      BY <1>4, <2>1
    <2>3. \A i, j \in S : f[i] = f[j] => i = j
      <3>1. \A i, j \in S : i # j => i < j \/ j < i
        BY <1>1
      <3>2. \A i, j \in S : i < j => f[i] < f[j]
        BY <1>5, <2>1
      <3>3. \A i \in S : f[i] \in Nat
        BY <1>3, <2>1
      <3> QED
        BY <3>1, <3>2, <3>3
    <2>4. DOMAIN f = S
      BY <2>1
    <2>5. f \in Injection(S, 1 .. N)
      BY <2>2, <2>3, <2>4 DEF Injection, IsInjective
    <2>6. N \in Nat /\ 1 \in Int /\ N \in Int
      BY <1>1, <1>2
    <2>7. IsFiniteSet(1 .. N) /\ Cardinality(1 .. N) = N
      BY <2>6, FS_Interval
    <2>8. f \in Surjection(S, 1 .. N)
      BY <1>1, <1>2, <2>5, <2>7, FS_Injection
    <2> QED
      BY <2>1, <2>8 DEF Surjection
  <1> QED
    BY <1>1, <1>2, <1>4, <1>5, <1>6

\* A set of places has a first one.
LEMMA Smallest ==
    ASSUME NEW L \in Nat, NEW S, S \subseteq 1 .. L, S # {}
    PROVE  /\ Min(S) \in S
           /\ \A n \in S : Min(S) <= n
           /\ \A n \in S : (\A m \in S : n <= m) => n = Min(S)
  <1>1. S \subseteq Nat
    OBVIOUS
  <1>2. PICK N : N = Cardinality(S) /\ N \in Nat
    BY CountedOff
  <1>3. /\ \A i \in S : UpTo(S, i) \in 1 .. N
        /\ \A i, j \in S : i < j => UpTo(S, i) < UpTo(S, j)
        /\ \A n \in 1 .. N : \E i \in S : UpTo(S, i) = n
    BY <1>2, CountedOff
  <1>4. 1 \in 1 .. N
    <2>1. PICK i \in S : UpTo(S, i) \in 1 .. N
      BY <1>3
    <2> QED
      BY <1>2, <2>1
  <1>5. PICK n \in S : UpTo(S, n) = 1
    BY <1>3, <1>4
  <1>6. \A m \in S : n <= m
    <2> SUFFICES ASSUME NEW m \in S, m < n PROVE FALSE
      BY <1>1
    <2>1. UpTo(S, m) < 1 /\ UpTo(S, m) \in 1 .. N
      BY <1>3, <1>5
    <2> QED
      BY <1>2, <2>1
  <1>7. PICK k : k = Min(S) /\ k \in S /\ \A m \in S : k <= m
    BY <1>6 DEF Min
  <1> QED
    BY <1>1, <1>7

\* The first place from the left is the smallest.
LEMMA LeftFirst ==
    ASSUME NEW L \in Nat, NEW S, S \subseteq 1 .. L, NEW n \in S, \A m \in S : n <= m
    PROVE  /\ 1 \in DOMAIN FromLeft(S)
           /\ FromLeft(S)[1] = n
  <1>1. S \subseteq Nat
    OBVIOUS
  <1>2. PICK N : N = Cardinality(S) /\ N \in Nat
    BY CountedOff
  <1>3. /\ \A i \in S : UpTo(S, i) \in 1 .. N
        /\ \A i, j \in S : i < j => UpTo(S, i) < UpTo(S, j)
        /\ \A m \in 1 .. N : \E i \in S : UpTo(S, i) = m
    BY <1>2, CountedOff
  <1>4. 1 \in 1 .. N
    BY <1>2, <1>3
  <1>5. ASSUME NEW i \in S
        PROVE  UpTo(S, i) = 1 <=> i = n
    <2>1. PICK k \in S : UpTo(S, k) = 1
      BY <1>3, <1>4
    <2>2. n = k
      <3>1. n < k => UpTo(S, n) < 1
        BY <1>3, <2>1
      <3>2. UpTo(S, n) \in 1 .. N
        BY <1>3
      <3> QED
        BY <1>1, <1>2, <3>1, <3>2
    <2>3. i # n => UpTo(S, n) < UpTo(S, i)
      BY <1>1, <1>3
    <2> QED
      BY <2>1, <2>2, <2>3
  <1>6. PICK c : c = (CHOOSE i \in S : Cardinality({k \in S : k <= i}) = 1)
    OBVIOUS
  <1>7. c = n
    BY <1>5, <1>6 DEF UpTo
  <1> QED
    BY <1>2, <1>4, <1>6, <1>7 DEF FromLeft

\* A place to the right of all others comes after them.
LEMMA LeftAppend ==
    ASSUME NEW L \in Nat, NEW S \in SUBSET (1 .. L)
    PROVE  /\ Cardinality(S) \in Nat
           /\ DOMAIN FromLeft(S) = 1 .. Cardinality(S)
           /\ \A n \in 1 .. Cardinality(S) : FromLeft(S)[n] \in S
           /\ DOMAIN FromLeft(S \cup {L + 1}) = 1 .. Cardinality(S) + 1
           /\ \A n \in 1 .. Cardinality(S) : FromLeft(S \cup {L + 1})[n] = FromLeft(S)[n]
           /\ FromLeft(S \cup {L + 1})[Cardinality(S) + 1] = L + 1
  <1>15. PICK m, T : m = L + 1 /\ T = S \cup {m}
    OBVIOUS
  <1>0. m \in Nat /\ \A i \in S : i \in Nat /\ i < m /\ i # m
    BY <1>15
  <1>1. IsFiniteSet(S) /\ S \subseteq Nat /\ m \notin S
    BY <1>0, FinitePlaces
  <1>2. PICK N : N = Cardinality(S) /\ N \in Nat
    BY CountedOff
  <1>3. /\ \A i \in S : UpTo(S, i) \in 1 .. N
        /\ \A i, j \in S : i < j => UpTo(S, i) < UpTo(S, j)
        /\ \A n \in 1 .. N : \E i \in S : UpTo(S, i) = n
    BY <1>2, CountedOff
  <1>4. T = S \cup {m}
    BY <1>15
  <1>5. IsFiniteSet(T) /\ Cardinality(T) = N + 1
    BY <1>1, <1>2, <1>4, FS_AddElement
  <1>6. \A i \in S : UpTo(T, i) = UpTo(S, i)
    <2> SUFFICES ASSUME NEW i \in S
                 PROVE  UpTo(T, i) = UpTo(S, i)
      OBVIOUS
    <2>1. {k \in T : k <= i} = {k \in S : k <= i}
      BY <1>0, <1>4
    <2> QED
      BY <2>1 DEF UpTo
  <1>7. UpTo(T, m) = N + 1
    <2>0. \A k \in T : k <= m
      BY <1>0, <1>4
    <2>1. {k \in T : k <= m} = T
      BY <2>0
    <2> QED
      BY <1>5, <2>1 DEF UpTo
  <1>8. \A i, j \in S : UpTo(S, i) = UpTo(S, j) => i = j
    <2>1. \A i, j \in S : i # j => i < j \/ j < i
      BY <1>1
    <2>2. \A i \in S : UpTo(S, i) \in Nat
      BY <1>3
    <2> QED
      BY <1>3, <2>1, <2>2
  <1>9. \A n \in 1 .. N : FromLeft(S)[n] \in S /\ UpTo(S, FromLeft(S)[n]) = n
    BY <1>2, <1>3 DEF FromLeft, UpTo
  <1>10. \A n \in 1 .. N + 1 : FromLeft(T)[n] \in T /\ UpTo(T, FromLeft(T)[n]) = n
    <2> SUFFICES ASSUME NEW n \in 1 .. N + 1
                 PROVE  FromLeft(T)[n] \in T /\ UpTo(T, FromLeft(T)[n]) = n
      OBVIOUS
    <2>1. \E i \in T : UpTo(T, i) = n
      <3>1. n \in 1 .. N \/ n = N + 1
        BY <1>2
      <3> QED
        BY <1>3, <1>4, <1>6, <1>7, <3>1
    <2> QED
      BY <1>5, <2>1 DEF FromLeft, UpTo
  <1>11. ASSUME NEW n \in 1 .. N
         PROVE  FromLeft(T)[n] = FromLeft(S)[n]
    <2>1. n \in 1 .. N + 1 /\ n # N + 1
      BY <1>2
    <2>2. FromLeft(T)[n] \in S
      BY <1>4, <1>7, <1>10, <2>1
    <2>3. PICK a, b : a = FromLeft(T)[n] /\ b = FromLeft(S)[n]
      OBVIOUS
    <2>4. a \in S /\ UpTo(T, a) = n
      BY <1>10, <2>1, <2>2, <2>3
    <2>5. b \in S /\ UpTo(S, b) = n
      BY <1>9, <2>3
    <2> QED
      BY <1>6, <1>8, <2>3, <2>4, <2>5
  <1>12. FromLeft(T)[N + 1] = m
    <2>1. N + 1 \in 1 .. N + 1 /\ N + 1 \notin 1 .. N
      BY <1>2
    <2>2. PICK a : a = FromLeft(T)[N + 1]
      OBVIOUS
    <2>3. a \in T /\ UpTo(T, a) = N + 1
      BY <1>10, <2>1, <2>2
    <2>4. a \notin S
      BY <1>3, <1>6, <2>1, <2>3
    <2> QED
      BY <1>4, <2>2, <2>3, <2>4
  <1>13. DOMAIN FromLeft(S) = 1 .. N
    BY <1>2 DEF FromLeft
  <1>14. DOMAIN FromLeft(T) = 1 .. N + 1
    BY <1>5 DEF FromLeft
  <1> QED
    BY <1>15, <1>2, <1>9, <1>11, <1>12, <1>13, <1>14

----
(* Documents.                                                              *)

\* The tags of a document.
Tags(x) == {x[i].tag : i \in 1 .. Len(x)}

\* No tag of it begins with this one.
Clear(x, tag) == \A t \in Tags(x) : ~BeginsWith(t, tag)

\* Documents one after the other are a document with the tags of both.
LEMMA Joined ==
    ASSUME NEW x \in Documents, NEW y \in Documents
    PROVE  /\ x \o y \in Documents
           /\ Len(x) \in Nat /\ Len(y) \in Nat
           /\ Len(x \o y) = Len(x) + Len(y)
           /\ \A i \in 1 .. Len(x) : (x \o y)[i] = x[i]
           /\ \A i \in 1 .. Len(y) : (x \o y)[Len(x) + i] = y[i]
           /\ Tags(x \o y) = Tags(x) \cup Tags(y)
  <1>1. x \in Seq(Tokens) /\ y \in Seq(Tokens)
    BY DEF Documents
  <1>2. PICK z : z = x \o y
    OBVIOUS
  <1>3. /\ z \in Seq(Tokens)
        /\ Len(z) = Len(x) + Len(y)
        /\ \A i \in 1 .. Len(x) + Len(y) : z[i] = IF i <= Len(x) THEN x[i] ELSE y[i - Len(x)]
    BY <1>1, <1>2, ConcatProperties
  <1>4. Len(x) \in Nat /\ Len(y) \in Nat
    BY <1>1, LenProperties
  <1>5. \A i \in 1 .. Len(x) : z[i] = x[i] /\ i \in 1 .. Len(z)
    BY <1>3, <1>4
  <1>6. \A i \in 1 .. Len(y) : z[Len(x) + i] = y[i] /\ Len(x) + i \in 1 .. Len(z)
    BY <1>3, <1>4
  <1>7. Tags(z) = Tags(x) \cup Tags(y)
    <2>1. \A i \in 1 .. Len(z) : i \in 1 .. Len(x) \/ (i - Len(x) \in 1 .. Len(y) /\ z[i] = y[i - Len(x)])
      BY <1>3, <1>4
    <2>2. \A t \in Tags(z) : t \in Tags(x) \cup Tags(y)
      BY <1>5, <2>1 DEF Tags
    <2>3. \A t \in Tags(x) : t \in Tags(z)
      BY <1>5 DEF Tags
    <2>4. \A t \in Tags(y) : t \in Tags(z)
      BY <1>6 DEF Tags
    <2> QED
      BY <2>2, <2>3, <2>4
  <1> QED
    BY <1>2, <1>3, <1>4, <1>5, <1>6, <1>7 DEF Documents

\* The same of what is left out, and of single tags.
LEMMA Single ==
    /\ <<>> \in Documents /\ Tags(<<>>) = {} /\ Len(<<>>) = 0
    /\ \A tag \in Elements :
         /\ Open(tag) \in Documents /\ Len(Open(tag)) = 1
         /\ Open(tag)[1] = [kind |-> "open", tag |-> tag, means |-> None]
         /\ Tags(Open(tag)) = {tag}
    /\ \A tag \in Elements :
         /\ Close(tag) \in Documents /\ Len(Close(tag)) = 1
         /\ Close(tag)[1] = [kind |-> "close", tag |-> tag, means |-> None]
         /\ Tags(Close(tag)) = {tag}
    /\ \A tag \in Elements, m \in Meanings :
         /\ Leaf(tag, m) \in Documents /\ Len(Leaf(tag, m)) = 1
         /\ Leaf(tag, m)[1] = [kind |-> "leaf", tag |-> tag, means |-> m]
         /\ Tags(Leaf(tag, m)) = {tag}
  <1>1. <<>> \in Documents /\ Tags(<<>>) = {} /\ Len(<<>>) = 0
    BY EmptySeq DEF Documents, Tags
  <1>2. ASSUME NEW t \in Tokens
        PROVE  <<t>> \in Documents /\ Len(<<t>>) = 1 /\ <<t>>[1] = t /\ Tags(<<t>>) = {t.tag}
    BY DEF Documents, Tags
  <1>3. \A tag \in Elements : [kind |-> "open", tag |-> tag, means |-> None] \in Tokens
    BY DEF Tokens
  <1>4. \A tag \in Elements : [kind |-> "close", tag |-> tag, means |-> None] \in Tokens
    BY DEF Tokens
  <1>5. \A tag \in Elements, m \in Meanings : [kind |-> "leaf", tag |-> tag, means |-> m] \in Tokens
    BY DEF Tokens
  <1> QED
    BY <1>1, <1>2, <1>3, <1>4, <1>5 DEF Open, Close, Leaf

\* The same of an element with what is in it.
LEMMA Element ==
    ASSUME NEW tag \in Elements, NEW x \in Documents
    PROVE  /\ In(tag, x) \in Documents
           /\ Tags(In(tag, x)) = {tag} \cup Tags(x)
           /\ Len(x) \in Nat /\ Len(In(tag, x)) = Len(x) + 2
           /\ In(tag, x)[1] = Open(tag)[1]
           /\ \A i \in 1 .. Len(x) : In(tag, x)[i + 1] = x[i]
           /\ In(tag, x)[Len(x) + 2] = Close(tag)[1]
  <1>1. PICK o, c : o = Open(tag) /\ c = Close(tag)
    OBVIOUS
  <1>2. /\ o \in Documents /\ Len(o) = 1 /\ Tags(o) = {tag}
        /\ c \in Documents /\ Len(c) = 1 /\ Tags(c) = {tag}
    BY <1>1, Single
  <1>3. PICK y : y = o \o x
    OBVIOUS
  <1>4. /\ y \in Documents /\ Len(x) \in Nat /\ Len(y) = 1 + Len(x) /\ Tags(y) = {tag} \cup Tags(x)
        /\ \A i \in 1 .. Len(o) : y[i] = o[i]
        /\ \A i \in 1 .. Len(x) : y[Len(o) + i] = x[i]
    <2>1. /\ o \o x \in Documents /\ Len(x) \in Nat /\ Len(o \o x) = Len(o) + Len(x)
          /\ Tags(o \o x) = Tags(o) \cup Tags(x)
          /\ \A i \in 1 .. Len(o) : (o \o x)[i] = o[i]
          /\ \A i \in 1 .. Len(x) : (o \o x)[Len(o) + i] = x[i]
      BY <1>2, Joined
    <2>2. Len(o) = 1 /\ Tags(o) = {tag}
      BY <1>2
    <2> QED
      BY <1>3, <2>1, <2>2
  <1>5. PICK z : z = y \o c
    OBVIOUS
  <1>6. /\ z \in Documents /\ Len(z) = Len(y) + 1 /\ Tags(z) = Tags(y) \cup {tag}
        /\ \A i \in 1 .. Len(y) : z[i] = y[i]
        /\ \A i \in 1 .. Len(c) : z[Len(y) + i] = c[i]
    <2>1. /\ y \o c \in Documents /\ Len(y \o c) = Len(y) + Len(c)
          /\ Tags(y \o c) = Tags(y) \cup Tags(c)
          /\ \A i \in 1 .. Len(y) : (y \o c)[i] = y[i]
          /\ \A i \in 1 .. Len(c) : (y \o c)[Len(y) + i] = c[i]
      BY <1>2, <1>4, Joined
    <2> QED
      BY <1>2, <1>5, <2>1
  <1>7. z = In(tag, x)
    BY <1>1, <1>3, <1>5 DEF In
  <1>8. /\ Len(z) = Len(x) + 2 /\ z[1] = o[1] /\ z[Len(x) + 2] = c[1]
        /\ \A i \in 1 .. Len(x) : z[i + 1] = x[i]
    BY <1>2, <1>4, <1>6
  <1> QED
    BY <1>1, <1>4, <1>6, <1>7, <1>8

----
(* Blocks.                                                                 *)

\* y is the first block of the tag in x.
FirstBlock(x, tag, y) ==
    \E i, j \in 1 .. Len(x) :
        /\ i <= j /\ y = SubSeq(x, i, j)
        /\ Opens(x[i], tag) /\ \A k \in 1 .. Len(x) : k < i => ~Opens(x[k], tag)
        /\ Closes(x[j], tag) /\ \A k \in 1 .. Len(x) : i <= k /\ k < j => ~Closes(x[k], tag)

\* What opens or closes a block of a tag can be told from the tags of a document.
LEMMA Cleared ==
    ASSUME NEW x, NEW tag
    PROVE  /\ BeginsWith(tag, tag)
           /\ Clear(x, tag) => tag \notin Tags(x)
           /\ Clear(x, tag) => \A i \in 1 .. Len(x) : ~Opens(x[i], tag)
           /\ tag \notin Tags(x) => \A i \in 1 .. Len(x) : ~Closes(x[i], tag)
  <1>1. BeginsWith(tag, tag)
    BY DEF BeginsWith
  <1>2. \A i \in 1 .. Len(x) : x[i].tag \in Tags(x)
    BY DEF Tags
  <1> QED
    BY <1>1, <1>2 DEF Clear, Opens, Closes

\* `xml_blocks` finds the first block of a tag (ojp.rs:93-107).
LEMMA BlockRead ==
    ASSUME NEW x \in Documents, NEW tag, NEW y, FirstBlock(x, tag, y)
    PROVE  /\ y \in Documents
           /\ BlocksOf(x, tag) # <<>>
           /\ BlocksOf(x, tag)[1] = y
  <1>1. PICK L : L = Len(x) /\ L \in Nat
    BY LenProperties DEF Documents
  <1>2. PICK i, j \in 1 .. L :
          /\ i <= j /\ y = SubSeq(x, i, j)
          /\ Opens(x[i], tag) /\ \A k \in 1 .. L : k < i => ~Opens(x[k], tag)
          /\ Closes(x[j], tag) /\ \A k \in 1 .. L : i <= k /\ k < j => ~Closes(x[k], tag)
    BY <1>1 DEF FirstBlock
  <1>3. PICK op, cl : /\ op = {k \in 1 .. L : Opens(x[k], tag)}
                      /\ cl = {k \in 1 .. L : Closes(x[k], tag)}
    OBVIOUS
  <1>4. PICK ends : ends = {k \in cl : k >= i}
    OBVIOUS
  <1>5. /\ ends \subseteq 1 .. L /\ j \in ends
        /\ \A k \in ends : j <= k
    BY <1>1, <1>2, <1>3, <1>4
  <1>6. Min(ends) = j
    BY <1>1, <1>5, Smallest
  <1>7. PICK starts : starts = {k \in op : {e \in cl : e >= k} # {}}
    OBVIOUS
  <1>8. /\ starts \subseteq 1 .. L /\ i \in starts
        /\ \A k \in starts : i <= k
    BY <1>1, <1>2, <1>3, <1>4, <1>5, <1>7
  <1>9. 1 \in DOMAIN FromLeft(starts) /\ FromLeft(starts)[1] = i
    BY <1>1, <1>8, LeftFirst
  <1>10. BlocksOf(x, tag) = [n \in DOMAIN FromLeft(starts) |->
                               SubSeq(x, FromLeft(starts)[n],
                                         Min({e \in cl : e >= FromLeft(starts)[n]}))]
    BY <1>1, <1>3, <1>7 DEF BlocksOf, Between
  <1>11. BlocksOf(x, tag)[1] = y
    BY <1>2, <1>4, <1>6, <1>9, <1>10
  <1>12. BlocksOf(x, tag) # <<>>
    <2>1. 1 \in DOMAIN BlocksOf(x, tag)
      BY <1>9, <1>10
    <2> QED
      BY <2>1
  <1>13. y \in Documents
    <2>1. i \in Int /\ j \in Int /\ \A k \in i .. j : x[k] \in Tokens
      <3>1. \A k \in i .. j : k \in 1 .. L
        BY <1>1, <1>2
      <3>2. \A k \in 1 .. L : x[k] \in Tokens
        BY <1>1, ElementOfSeq DEF Documents
      <3> QED
        BY <3>1, <3>2
    <2> QED
      BY <1>2, <2>1, SubSeqProperties DEF Documents
  <1> QED
    BY <1>11, <1>12, <1>13

\* Where no tag of this very name closes there is no block.
LEMMA NoBlock ==
    ASSUME NEW x \in Documents, NEW tag, tag \notin Tags(x)
    PROVE  BlocksOf(x, tag) = <<>>
  <1>1. PICK op, cl : /\ op = {k \in 1 .. Len(x) : Opens(x[k], tag)}
                      /\ cl = {k \in 1 .. Len(x) : Closes(x[k], tag)}
    OBVIOUS
  <1>2. cl = {}
    BY <1>1, Cleared
  <1>3. PICK starts : starts = {k \in op : {e \in cl : e >= k} # {}}
    OBVIOUS
  <1>4. starts = {}
    BY <1>2, <1>3
  <1>5. Cardinality(starts) = 0
    BY <1>4, FS_EmptySet
  <1>6. DOMAIN FromLeft(starts) = {}
    BY <1>5 DEF FromLeft
  <1>7. BlocksOf(x, tag) = [n \in DOMAIN FromLeft(starts) |->
                              SubSeq(x, FromLeft(starts)[n],
                                        Min({e \in cl : e >= FromLeft(starts)[n]}))]
    BY <1>1, <1>3 DEF BlocksOf, Between
  <1> QED
    BY <1>6, <1>7

\* A first block stays the first behind what does not open one,
LEMMA BlockAfter ==
    ASSUME NEW w \in Documents, NEW x \in Documents, NEW tag, NEW y,
           Clear(w, tag), FirstBlock(x, tag, y)
    PROVE  FirstBlock(w \o x, tag, y)
  <1>1. PICK L, M, z : L = Len(x) /\ M = Len(w) /\ z = w \o x
    OBVIOUS
  <1>2. /\ L \in Nat /\ M \in Nat /\ z \in Documents /\ Len(z) = M + L
        /\ \A i \in 1 .. M : z[i] = w[i]
        /\ \A i \in 1 .. L : z[M + i] = x[i]
    BY <1>1, Joined
  <1>3. PICK i, j \in 1 .. L :
          /\ i <= j /\ y = SubSeq(x, i, j)
          /\ Opens(x[i], tag) /\ \A k \in 1 .. L : k < i => ~Opens(x[k], tag)
          /\ Closes(x[j], tag) /\ \A k \in 1 .. L : i <= k /\ k < j => ~Closes(x[k], tag)
    BY <1>1 DEF FirstBlock
  <1>4. PICK a, b : a = M + i /\ b = M + j
    OBVIOUS
  <1>5. /\ a \in 1 .. Len(z) /\ b \in 1 .. Len(z) /\ a <= b
        /\ Opens(z[a], tag) /\ Closes(z[b], tag)
    BY <1>2, <1>3, <1>4
  <1>6. SubSeq(z, a, b) = y
    <2>1. w \in Seq(Tokens) /\ x \in Seq(Tokens)
      BY DEF Documents
    <2>2. a \in M + 1 .. M + L /\ b \in M + 1 .. M + L /\ a - M = i /\ b - M = j
      BY <1>2, <1>4
    <2>3. SubSeq(w \o x, a, b) = SubSeq(x, a - M, b - M)
      BY <1>1, <2>1, <2>2, SubSeqOfConcat2
    <2> QED
      BY <1>1, <1>3, <2>2, <2>3
  <1>7. \A k \in 1 .. Len(z) : k \in 1 .. M \/ (k - M \in 1 .. L /\ k = M + (k - M))
    BY <1>2
  <1>8. \A k \in 1 .. L : z[M + k] = x[k]
    BY <1>2
  <1>9. ASSUME NEW k \in 1 .. Len(z), k < a
        PROVE  ~Opens(z[k], tag)
    <2>1. CASE k \in 1 .. M
      <3>1. ~Opens(w[k], tag)
        BY <2>1, <1>1, Cleared
      <3> QED
        BY <1>2, <2>1, <3>1
    <2>2. CASE k - M \in 1 .. L
      <3>1. PICK n \in 1 .. L : n = k - M
        BY <2>2
      <3>2. k = M + n /\ n < i
        BY <1>2, <1>4, <1>9, <3>1
      <3> QED
        BY <1>3, <1>8, <3>2
    <2> QED
      BY <1>7, <2>1, <2>2
  <1>10. ASSUME NEW k \in 1 .. Len(z), a <= k, k < b
         PROVE  ~Closes(z[k], tag)
    <2>1. PICK n : n = k - M
      OBVIOUS
    <2>2. n \in 1 .. L /\ k = M + n /\ i <= n /\ n < j
      BY <1>2, <1>4, <1>10, <2>1
    <2> QED
      BY <1>3, <1>8, <2>2
  <1> QED
    BY <1>1, <1>5, <1>6, <1>9, <1>10 DEF FirstBlock

\* and whatever follows.
LEMMA BlockBefore ==
    ASSUME NEW x \in Documents, NEW w \in Documents, NEW tag, NEW y,
           FirstBlock(x, tag, y)
    PROVE  FirstBlock(x \o w, tag, y)
  <1>1. PICK L, z : L = Len(x) /\ z = x \o w
    OBVIOUS
  <1>2. /\ L \in Nat /\ Len(w) \in Nat /\ z \in Documents /\ Len(z) = L + Len(w)
        /\ \A i \in 1 .. L : z[i] = x[i]
    BY <1>1, Joined
  <1>3. PICK i, j \in 1 .. L :
          /\ i <= j /\ y = SubSeq(x, i, j)
          /\ Opens(x[i], tag) /\ \A k \in 1 .. L : k < i => ~Opens(x[k], tag)
          /\ Closes(x[j], tag) /\ \A k \in 1 .. L : i <= k /\ k < j => ~Closes(x[k], tag)
    BY <1>1 DEF FirstBlock
  <1>4. SubSeq(z, i, j) = y
    <2>1. w \in Seq(Tokens) /\ x \in Seq(Tokens)
      BY DEF Documents
    <2> QED
      BY <1>1, <1>3, <2>1, SubSeqOfConcat1
  <1>5. i \in 1 .. Len(z) /\ j \in 1 .. Len(z)
    BY <1>2
  <1>6. \A k \in 1 .. Len(z) : k < i => k \in 1 .. L /\ ~Opens(z[k], tag)
    BY <1>2, <1>3
  <1>7. \A k \in 1 .. Len(z) : i <= k /\ k < j => k \in 1 .. L /\ ~Closes(z[k], tag)
    BY <1>2, <1>3
  <1> QED
    BY <1>1, <1>2, <1>3, <1>4, <1>5, <1>6, <1>7 DEF FirstBlock

\* An element is its own first block,
LEMMA BlockWhole ==
    ASSUME NEW tag \in Elements, NEW x \in Documents, tag \notin Tags(x)
    PROVE  FirstBlock(In(tag, x), tag, In(tag, x))
  <1>1. PICK L, z : L = Len(x) + 2 /\ z = In(tag, x)
    OBVIOUS
  <1>2. /\ z \in Documents /\ Len(x) \in Nat /\ Len(z) = L
        /\ z[1] = Open(tag)[1] /\ z[L] = Close(tag)[1]
        /\ \A i \in 1 .. Len(x) : z[i + 1] = x[i]
    BY <1>1, Element
  <1>3. /\ z[1] = [kind |-> "open", tag |-> tag, means |-> None]
        /\ z[L] = [kind |-> "close", tag |-> tag, means |-> None]
    BY <1>2, Single
  <1>4. Opens(z[1], tag) /\ ~Closes(z[1], tag) /\ Closes(z[L], tag)
    BY <1>3 DEF Opens, Closes, BeginsWith
  <1>5. \A k \in 1 .. L : 1 <= k /\ k < L => ~Closes(z[k], tag)
    <2> SUFFICES ASSUME NEW k \in 1 .. L, k < L, k # 1
                 PROVE  ~Closes(z[k], tag)
      BY <1>4
    <2>1. PICK n : n = k - 1
      OBVIOUS
    <2>2. n \in 1 .. Len(x) /\ k = n + 1
      BY <1>1, <1>2, <2>1
    <2>3. z[k] = x[n]
      BY <1>2, <2>2
    <2> QED
      BY <2>2, <2>3, Cleared
  <1>6. SubSeq(z, 1, L) = z
    BY <1>2, SubSeqFull DEF Documents
  <1>7. 1 \in 1 .. L /\ L \in 1 .. L /\ 1 <= L /\ \A k \in 1 .. L : ~(k < 1)
    BY <1>1, <1>2
  <1> QED
    BY <1>1, <1>2, <1>4, <1>5, <1>6, <1>7 DEF FirstBlock

\* keeps a first block of another tag that is in it,
LEMMA BlockInside ==
    ASSUME NEW t \in Elements, NEW x \in Documents, NEW tag, NEW y,
           ~BeginsWith(t, tag), FirstBlock(x, tag, y)
    PROVE  FirstBlock(In(t, x), tag, y)
  <1>1. PICK o, c : o = Open(t) /\ c = Close(t)
    OBVIOUS
  <1>2. o \in Documents /\ c \in Documents /\ Tags(o) = {t}
    BY <1>1, Single
  <1>3. Clear(o, tag)
    BY <1>2 DEF Clear
  <1>4. FirstBlock(o \o x, tag, y)
    BY <1>2, <1>3, BlockAfter
  <1>5. o \o x \in Documents
    BY <1>2, Joined
  <1>6. FirstBlock((o \o x) \o c, tag, y)
    BY <1>2, <1>4, <1>5, BlockBefore
  <1> QED
    BY <1>1, <1>6 DEF In

\* and is the end of a block that a tag before it, beginning with its name, has opened: `Service`
\* of one that begins at a ServiceDeparture (ojp.rs:95).
LEMMA BlockOpenedBefore ==
    ASSUME NEW tag \in Elements, NEW x \in Documents, NEW in \in Documents,
           tag \notin Tags(x), tag \notin Tags(in),
           NEW n \in 1 .. Len(x), Opens(x[n], tag)
    PROVE  \E y \in Documents :
             /\ Tags(y) \subseteq Tags(x)
             /\ FirstBlock(x \o In(tag, in), tag, y \o In(tag, in))
  <1>1. PICK e : e = In(tag, in)
    OBVIOUS
  <1>2. PICK L, M, z : L = Len(x) /\ M = Len(e) /\ z = x \o e
    OBVIOUS
  <1>3. /\ e \in Documents /\ Len(in) \in Nat /\ M = Len(in) + 2 /\ M \in Nat \ {0}
        /\ e[1] = Open(tag)[1] /\ e[M] = Close(tag)[1]
        /\ \A k \in 1 .. Len(in) : e[k + 1] = in[k]
    <2>1. /\ In(tag, in) \in Documents /\ Len(in) \in Nat /\ Len(In(tag, in)) = Len(in) + 2
          /\ In(tag, in)[1] = Open(tag)[1] /\ In(tag, in)[Len(in) + 2] = Close(tag)[1]
          /\ \A k \in 1 .. Len(in) : In(tag, in)[k + 1] = in[k]
      BY Element
    <2>2. M = Len(in) + 2 /\ M \in Nat \ {0}
      BY <1>1, <1>2, <2>1
    <2> QED
      BY <1>1, <2>1, <2>2
  <1>4. /\ L \in Nat /\ z \in Documents /\ Len(z) = L + M
        /\ \A i \in 1 .. L : z[i] = x[i]
        /\ \A i \in 1 .. M : z[L + i] = e[i]
    <2>1. /\ Len(x) \in Nat /\ x \o e \in Documents /\ Len(x \o e) = Len(x) + Len(e)
          /\ \A i \in 1 .. Len(x) : (x \o e)[i] = x[i]
          /\ \A i \in 1 .. Len(e) : (x \o e)[Len(x) + i] = e[i]
      BY <1>3, Joined
    <2> QED
      BY <1>2, <2>1
  <1>5. PICK op : op = {k \in 1 .. L : Opens(x[k], tag)}
    OBVIOUS
  <1>6. PICK i : i = Min(op)
    OBVIOUS
  <1>7. i \in 1 .. L /\ Opens(x[i], tag) /\ \A k \in 1 .. L : Opens(x[k], tag) => i <= k
    <2>1. op \subseteq 1 .. L /\ op # {}
      BY <1>2, <1>5
    <2>2. i \in op /\ \A k \in op : i <= k
      BY <1>4, <1>6, <2>1, Smallest
    <2> QED
      BY <1>5, <2>2
  <1>8. PICK y, j : y = SubSeq(x, i, L) /\ j = L + M
    OBVIOUS
  <1>9. x \in Seq(Tokens) /\ e \in Seq(Tokens) /\ z \in Seq(Tokens)
    BY <1>3, <1>4 DEF Documents
  <1>10. /\ y \in Documents /\ Len(y) = L - i + 1
         /\ \A k \in 1 .. L - i + 1 : y[k] = x[i + k - 1]
    <2>1. i \in Int /\ L \in Int /\ i <= L /\ \A k \in i .. L : k \in 1 .. L
      BY <1>4, <1>7
    <2>2. \A k \in i .. L : x[k] \in Tokens
      BY <1>2, <1>9, <2>1, ElementOfSeq
    <2> QED
      BY <1>8, <2>1, <2>2, SubSeqProperties DEF Documents
  <1>11. Tags(y) \subseteq Tags(x)
    <2>1. \A k \in 1 .. Len(y) : i + k - 1 \in 1 .. Len(x) /\ y[k] = x[i + k - 1]
      BY <1>2, <1>4, <1>7, <1>10
    <2> QED
      BY <2>1 DEF Tags
  <1>12. SubSeq(z, i, j) = y \o e
    <2>1. i \in 1 .. Len(z) + 1 /\ L \in i - 1 .. Len(z) /\ j \in L .. Len(z)
      BY <1>3, <1>4, <1>7, <1>8
    <2>2. SubSeq(z, i, L) \o SubSeq(z, L + 1, j) = SubSeq(z, i, j)
      BY <1>9, <2>1, ConcatAdjacentSubSeq
    <2>3. i \in 1 .. Len(x) /\ L \in 1 .. Len(x)
      BY <1>2, <1>4, <1>7
    <2>4. SubSeq(z, i, L) = y
      BY <1>2, <1>8, <1>9, <2>3, SubSeqOfConcat1
    <2>5. /\ L + 1 \in Len(x) + 1 .. Len(x) + Len(e) /\ j \in Len(x) + 1 .. Len(x) + Len(e)
          /\ L + 1 - Len(x) = 1 /\ j - Len(x) = M
      BY <1>2, <1>3, <1>4, <1>8
    <2>6. SubSeq(z, L + 1, j) = SubSeq(e, 1, M)
      BY <1>2, <1>9, <2>5, SubSeqOfConcat2
    <2>7. SubSeq(e, 1, M) = e
      BY <1>2, <1>9, SubSeqFull
    <2> QED
      BY <2>2, <2>4, <2>6, <2>7
  <1>13. i \in 1 .. Len(z) /\ j \in 1 .. Len(z) /\ i <= j
    BY <1>3, <1>4, <1>7, <1>8
  <1>14. Opens(z[i], tag) /\ \A k \in 1 .. Len(z) : k < i => ~Opens(z[k], tag)
    <2>1. \A k \in 1 .. Len(z) : k < i => k \in 1 .. L /\ z[k] = x[k]
      <3> SUFFICES ASSUME NEW k \in 1 .. Len(z), k < i
                   PROVE  k \in 1 .. L /\ z[k] = x[k]
        OBVIOUS
      <3>1. i \in 1 .. L /\ L \in Nat /\ M \in Nat /\ Len(z) = L + M
        BY <1>3, <1>4, <1>7
      <3>2. k \in 1 .. L
        BY <3>1
      <3> QED
        BY <1>4, <3>2
    <2>2. \A k \in 1 .. L : k < i => ~Opens(x[k], tag)
      <3>1. \A k \in 1 .. L : k < i => ~(i <= k)
        BY <1>4, <1>7
      <3> QED
        BY <1>7, <3>1
    <2> QED
      BY <1>4, <1>7, <2>1, <2>2
  <1>15. \A k \in 1 .. M : k < M => ~Closes(e[k], tag)
    <2> SUFFICES ASSUME NEW k \in 1 .. M, k < M
                 PROVE  ~Closes(e[k], tag)
      OBVIOUS
    <2>1. CASE k = 1
      <3>1. e[k] = [kind |-> "open", tag |-> tag, means |-> None]
        BY <1>3, <2>1, Single
      <3> QED
        BY <3>1 DEF Closes
    <2>2. CASE k # 1
      <3>1. PICK m : m = k - 1
        OBVIOUS
      <3>2. m \in 1 .. Len(in) /\ k = m + 1
        BY <1>3, <2>2, <3>1
      <3>3. e[k] = in[m]
        BY <1>3, <3>2
      <3> QED
        BY <3>2, <3>3, Cleared
    <2> QED
      BY <2>1, <2>2
  <1>16. Closes(z[j], tag)
    <2>1. e[M] = [kind |-> "close", tag |-> tag, means |-> None]
      BY <1>3, Single
    <2>2. M \in 1 .. M
      BY <1>3
    <2>3. z[j] = e[M]
      BY <1>4, <1>8, <2>2
    <2> QED
      BY <2>1, <2>3 DEF Closes
  <1>17. \A k \in 1 .. Len(z) : i <= k /\ k < j => ~Closes(z[k], tag)
    <2> SUFFICES ASSUME NEW k \in 1 .. Len(z), k < j
                 PROVE  ~Closes(z[k], tag)
      OBVIOUS
    <2>1. CASE k \in 1 .. L
      BY <1>2, <1>4, <2>1, Cleared
    <2>2. CASE k \notin 1 .. L
      <3>1. PICK m : m = k - L
        OBVIOUS
      <3>2. m \in 1 .. M /\ m < M /\ k = L + m
        BY <1>3, <1>4, <1>8, <2>2, <3>1
      <3> QED
        BY <1>4, <1>15, <3>2
    <2> QED
      BY <2>1, <2>2
  <1>18. FirstBlock(z, tag, y \o e)
    BY <1>12, <1>13, <1>14, <1>16, <1>17 DEF FirstBlock
  <1> QED
    BY <1>1, <1>2, <1>10, <1>11, <1>18

----
(* Texts.                                                                  *)

\* Where the leaves of a tag are.
LeavesOf(x, tag) == {i \in 1 .. Len(x) : x[i].kind = "leaf" /\ x[i].tag = tag}

\* A document without the tag has no text of it.
LEMMA NoText ==
    ASSUME NEW x \in Documents, NEW tag, tag \notin Tags(x)
    PROVE  TextOf(x, tag) = None
  <1>1. LeavesOf(x, tag) = {}
    BY DEF LeavesOf, Tags
  <1> QED
    BY <1>1 DEF TextOf, LeavesOf

\* `xml_text` of two documents is that of the one with the tag.
LEMMA TextJoined ==
    ASSUME NEW x \in Documents, NEW y \in Documents, NEW tag
    PROVE  /\ tag \notin Tags(x) => TextOf(x \o y, tag) = TextOf(y, tag)
           /\ tag \notin Tags(y) => TextOf(x \o y, tag) = TextOf(x, tag)
  <1>1. PICK L, M, z : L = Len(x) /\ M = Len(y) /\ z = x \o y
    OBVIOUS
  <1>2. /\ L \in Nat /\ M \in Nat /\ Len(z) = L + M
        /\ \A i \in 1 .. L : z[i] = x[i]
        /\ \A i \in 1 .. M : z[L + i] = y[i]
    BY <1>1, Joined
  <1>3. PICK lx, ly, lz : lx = LeavesOf(x, tag) /\ ly = LeavesOf(y, tag) /\ lz = LeavesOf(z, tag)
    OBVIOUS
  <1>4. lx \subseteq 1 .. L /\ ly \subseteq 1 .. M /\ lz \subseteq 1 .. L + M
    BY <1>1, <1>2, <1>3 DEF LeavesOf
  <1>5. /\ \A i \in 1 .. L : i \in lz <=> i \in lx
        /\ \A i \in 1 .. M : L + i \in lz <=> i \in ly
    <2>1. \A i \in 1 .. L : i \in 1 .. L + M
      BY <1>2
    <2>2. \A i \in 1 .. M : L + i \in 1 .. L + M
      BY <1>2
    <2> QED
      BY <1>1, <1>2, <1>3, <2>1, <2>2 DEF LeavesOf
  <1>6. \A i \in lz : i \in 1 .. L \/ (i - L \in 1 .. M /\ i = L + (i - L))
    BY <1>2, <1>4
  <1>7. /\ TextOf(x, tag) = IF lx = {} THEN None ELSE x[Min(lx)].means
        /\ TextOf(y, tag) = IF ly = {} THEN None ELSE y[Min(ly)].means
        /\ TextOf(z, tag) = IF lz = {} THEN None ELSE z[Min(lz)].means
    BY <1>3 DEF TextOf, LeavesOf
  <1>8. ASSUME tag \notin Tags(x)
        PROVE  TextOf(z, tag) = TextOf(y, tag)
    <2>1. lx = {}
      BY <1>8, <1>3 DEF LeavesOf, Tags
    <2>2. \A i \in lz : i - L \in ly /\ i = L + (i - L)
      BY <1>5, <1>6, <2>1
    <2>3. CASE ly = {}
      BY <1>7, <2>2, <2>3
    <2>4. CASE ly # {}
      <3>1. PICK m : m = Min(ly)
        OBVIOUS
      <3>2. m \in ly /\ \A i \in ly : m <= i
        BY <1>2, <1>4, <2>4, <3>1, Smallest
      <3>3. m \in 1 .. M /\ L + m \in lz
        BY <1>4, <1>5, <3>2
      <3>4. \A i \in lz : L + m <= i
        <4> SUFFICES ASSUME NEW i \in lz PROVE L + m <= i
          OBVIOUS
        <4>1. m <= i - L
          BY <2>2, <3>2
        <4>2. i \in Nat
          BY <1>2, <1>4
        <4> QED
          BY <1>2, <3>3, <4>1, <4>2
      <3>5. L + M \in Nat /\ lz # {}
        BY <1>2, <3>3
      <3>6. L + m = Min(lz)
        BY <1>4, <3>3, <3>4, <3>5, Smallest
      <3>7. z[L + m] = y[m]
        BY <1>2, <3>3
      <3> QED
        BY <1>7, <2>4, <3>1, <3>5, <3>6, <3>7
    <2> QED
      BY <2>3, <2>4
  <1>9. ASSUME tag \notin Tags(y)
        PROVE  TextOf(z, tag) = TextOf(x, tag)
    <2>1. ly = {}
      BY <1>9, <1>3 DEF LeavesOf, Tags
    <2>2. \A i \in lz : i \in lx
      BY <1>5, <1>6, <2>1
    <2>3. lz = lx
      BY <1>4, <1>5, <2>2
    <2>4. lx # {} => Min(lx) \in 1 .. L
      BY <1>2, <1>4, Smallest
    <2> QED
      BY <1>2, <1>7, <2>3, <2>4
  <1> QED
    BY <1>1, <1>8, <1>9

\* The text of an element is that of what is in it; that of a leaf is its own.
LEMMA TextInside ==
    ASSUME NEW t \in Elements, NEW x \in Documents, NEW tag, t # tag
    PROVE  TextOf(In(t, x), tag) = TextOf(x, tag)
  <1>1. PICK o, c : o = Open(t) /\ c = Close(t)
    OBVIOUS
  <1>2. o \in Documents /\ c \in Documents /\ Tags(o) = {t} /\ Tags(c) = {t}
    BY <1>1, Single
  <1>3. o \o x \in Documents /\ TextOf(o \o x, tag) = TextOf(x, tag)
    BY <1>2, Joined, TextJoined
  <1>4. TextOf((o \o x) \o c, tag) = TextOf(o \o x, tag)
    BY <1>2, <1>3, TextJoined
  <1> QED
    BY <1>1, <1>3, <1>4 DEF In

\* A leaf that is asked for by its own name gives what it stands for.
LEMMA TextItself ==
    ASSUME NEW tag \in Elements, NEW m \in Meanings
    PROVE  TextOf(Leaf(tag, m), tag) = m
  <1>1. PICK x : x = Leaf(tag, m)
    OBVIOUS
  <1>2. Len(x) = 1 /\ x[1] = [kind |-> "leaf", tag |-> tag, means |-> m]
    BY <1>1, Single
  <1>3. LeavesOf(x, tag) = {1}
    BY <1>2 DEF LeavesOf
  <1>4. PICK l, L : l = LeavesOf(x, tag) /\ L = 1
    OBVIOUS
  <1>5. l \subseteq 1 .. L /\ l # {} /\ L \in Nat
    BY <1>3, <1>4
  <1>6. Min(l) \in l
    BY <1>5, Smallest
  <1>7. Min(l) = 1
    BY <1>3, <1>4, <1>6
  <1>8. TextOf(x, tag) = x[Min(l)].means
    BY <1>4, <1>5 DEF TextOf, LeavesOf
  <1> QED
    BY <1>1, <1>2, <1>7, <1>8

\* An element with a text in it.
LEMMA Labelled ==
    ASSUME NEW tag \in Elements, NEW m \in Meanings, tag # "Text"
    PROVE  /\ In(tag, Leaf("Text", m)) \in Documents
           /\ Tags(In(tag, Leaf("Text", m))) = {tag, "Text"}
           /\ TextOf(In(tag, Leaf("Text", m)), "Text") = m
           /\ FirstBlock(In(tag, Leaf("Text", m)), tag, In(tag, Leaf("Text", m)))
  <1>1. PICK l : l = Leaf("Text", m)
    OBVIOUS
  <1>0. "Text" \in Elements
    BY DEF Elements
  <1>2. l \in Documents /\ Tags(l) = {"Text"}
    BY <1>0, <1>1, Single
  <1>3. TextOf(l, "Text") = m
    BY <1>0, <1>1, TextItself
  <1>4. TextOf(In(tag, l), "Text") = m
    BY <1>2, <1>3, TextInside
  <1>5. In(tag, l) \in Documents /\ Tags(In(tag, l)) = {tag, "Text"}
    BY <1>2, Element
  <1>6. FirstBlock(In(tag, l), tag, In(tag, l))
    BY <1>2, BlockWhole
  <1> QED
    BY <1>1, <1>4, <1>5, <1>6

\* `xml_lang_text` finds it, if it is there (ojp.rs:110-113).
LEMMA LabelRead ==
    ASSUME NEW x \in Documents, NEW tag \in Elements, tag # "Text"
    PROVE  /\ \A m \in Meanings :
                FirstBlock(x, tag, In(tag, Leaf("Text", m))) => LangTextOf(x, tag) = m
           /\ tag \notin Tags(x) => LangTextOf(x, tag) = None
  <1>1. ASSUME NEW m \in Meanings, FirstBlock(x, tag, In(tag, Leaf("Text", m)))
        PROVE  LangTextOf(x, tag) = m
    <2>1. BlocksOf(x, tag) # <<>> /\ BlocksOf(x, tag)[1] = In(tag, Leaf("Text", m))
      BY <1>1, BlockRead
    <2> QED
      BY <2>1, Labelled DEF LangTextOf
  <1>2. ASSUME tag \notin Tags(x)
        PROVE  LangTextOf(x, tag) = None
    BY <1>2, NoBlock DEF LangTextOf
  <1> QED
    BY <1>1, <1>2

----
(* What upstream sends.                                                    *)

\* The tags of a call, of the calls of a train, and of its service.
CallTags == {"CallAtStop", "StopPointName", "Text", "ServiceArrival", "TimetabledTime",
             "EstimatedTime", "ServiceDeparture", "PlannedQuay", "EstimatedQuay"}
CallsTags == CallTags \cup {"PreviousCall", "ThisCall", "OnwardCall"}
ServiceTags == {"Service", "OperatingDayRef", "JourneyRef", "Mode", "Name", "ShortName",
                "PublishedServiceName", "OriginText", "DestinationText", "TrainNumber", "OperatorRef",
                "Text"}

\* What `xml_text` finds of a departure, and `xml_lang_text` of a quay, if e has one.
LEMMA CallRead ==
    ASSUME NEW n \in Nat, NEW c \in {"previous", "this", "onward"}, NEW e \in StopEvents
    PROVE  /\ Call(n, c, e) \in Documents
           /\ Tags(Call(n, c, e)) \subseteq CallTags
           /\ \E i \in 1 .. Len(Call(n, c, e)) : Opens(Call(n, c, e)[i], "Service")
           /\ FirstBlock(In("ThisCall", Call(n, c, e)), "CallAtStop", Call(n, c, e))
           /\ \E dep : /\ FirstBlock(Call(n, c, e), "ServiceDeparture", dep)
                       /\ TextOf(dep, "TimetabledTime") = <<n, c, "timetabled">>
                       /\ TextOf(dep, "EstimatedTime") =
                            IF e.late # None THEN <<n, c, "estimated">> ELSE None
           /\ LangTextOf(Call(n, c, e), "PlannedQuay") =
                IF e.planned # None THEN <<n, c, "planned">> ELSE None
           /\ LangTextOf(Call(n, c, e), "EstimatedQuay") =
                IF e.estimated # None THEN <<n, c, "estimatedQuay">> ELSE None
  <1> DEFINE M(what) == <<n, c, what>>
             stop == In("StopPointName", Leaf("Text", M("stop")))
             arrTimes == Leaf("TimetabledTime", M("arrival")) \o Leaf("EstimatedTime", M("arrival"))
             arr == If(e.arrives, In("ServiceArrival", arrTimes))
             est == If(e.late # None, Leaf("EstimatedTime", M("estimated")))
             depTimes == Leaf("TimetabledTime", M("timetabled")) \o est
             dep == In("ServiceDeparture", depTimes)
             planned == If(e.planned # None, In("PlannedQuay", Leaf("Text", M("planned"))))
             estimated == If(e.estimated # None, In("EstimatedQuay", Leaf("Text", M("estimatedQuay"))))
             inner == (((stop \o arr) \o dep) \o planned) \o estimated
  <1>1. Call(n, c, e) = In("CallAtStop", inner)
    BY DEF Call
  <1>2. /\ M("stop") \in Meanings /\ M("arrival") \in Meanings /\ M("timetabled") \in Meanings
        /\ M("estimated") \in Meanings /\ M("planned") \in Meanings
        /\ M("estimatedQuay") \in Meanings
    BY DEF Meanings
  <1>3. CallTags \subseteq Elements
    BY DEF CallTags, Elements
  <1> HIDE DEF M
  <1>4. stop \in Documents /\ Tags(stop) = {"StopPointName", "Text"}
    BY <1>2, <1>3, Labelled DEF CallTags
  <1>5. arr \in Documents /\ Tags(arr) \subseteq {"ServiceArrival", "TimetabledTime", "EstimatedTime"}
    <2>1. PICK a, b : /\ a = Leaf("TimetabledTime", M("arrival"))
                      /\ b = Leaf("EstimatedTime", M("arrival"))
      OBVIOUS
    <2>2. /\ a \in Documents /\ Tags(a) = {"TimetabledTime"}
          /\ b \in Documents /\ Tags(b) = {"EstimatedTime"}
      BY <1>2, <1>3, <2>1, Single DEF CallTags
    <2>3. a \o b \in Documents /\ Tags(a \o b) = Tags(a) \cup Tags(b)
      BY <2>2, Joined
    <2>4. "ServiceArrival" \in Elements
      BY DEF Elements
    <2>5. /\ In("ServiceArrival", a \o b) \in Documents
          /\ Tags(In("ServiceArrival", a \o b)) = {"ServiceArrival"} \cup Tags(a \o b)
      BY <2>3, <2>4, Element
    <2>6. In("ServiceArrival", a \o b) = In("ServiceArrival", arrTimes)
      BY <2>1
    <2>7. arr = IF e.arrives THEN In("ServiceArrival", a \o b) ELSE <<>>
      BY <2>6 DEF If
    <2>8. <<>> \in Documents /\ Tags(<<>>) = {}
      BY Single
    <2> HIDE DEF arr
    <2> QED
      BY <2>2, <2>3, <2>5, <2>7, <2>8
  <1>6. /\ est \in Documents /\ Tags(est) \subseteq {"EstimatedTime"}
        /\ TextOf(est, "EstimatedTime") = IF e.late # None THEN M("estimated") ELSE None
    <2>1. CASE e.late # None
      <3>1. est = Leaf("EstimatedTime", M("estimated"))
        BY <2>1 DEF If
      <3>2. "EstimatedTime" \in Elements
        BY DEF Elements
      <3>3. est \in Documents /\ Tags(est) = {"EstimatedTime"}
        BY <1>2, <3>1, <3>2, Single
      <3>4. TextOf(est, "EstimatedTime") = M("estimated")
        BY <1>2, <3>1, <3>2, TextItself
      <3> QED
        BY <2>1, <3>3, <3>4
    <2>2. CASE e.late = None
      <3>1. est = <<>>
        BY <2>2 DEF If
      <3> QED
        BY <2>2, <3>1, Single, NoText
    <2> QED
      BY <2>1, <2>2
  <1>7. /\ dep \in Documents
        /\ Tags(dep) \subseteq {"ServiceDeparture", "TimetabledTime", "EstimatedTime"}
        /\ FirstBlock(dep, "ServiceDeparture", dep)
        /\ TextOf(dep, "TimetabledTime") = M("timetabled")
        /\ TextOf(dep, "EstimatedTime") = IF e.late # None THEN M("estimated") ELSE None
    <2>1. PICK a : a = Leaf("TimetabledTime", M("timetabled"))
      OBVIOUS
    <2>2. a \in Documents /\ Tags(a) = {"TimetabledTime"} /\ TextOf(a, "TimetabledTime") = M("timetabled")
      BY <1>2, <1>3, <2>1, Single, TextItself DEF CallTags
    <2>3. PICK b : b = est
      OBVIOUS
    <2>4. PICK t : t = a \o b
      OBVIOUS
    <2>13. b \in Documents /\ Tags(b) \subseteq {"EstimatedTime"}
      BY <1>6, <2>3
    <2>14. a \o b \in Documents /\ Tags(a \o b) = Tags(a) \cup Tags(b)
      BY <2>2, <2>13, Joined
    <2>5. t \in Documents /\ Tags(t) \subseteq {"TimetabledTime", "EstimatedTime"}
      BY <2>2, <2>4, <2>13, <2>14
    <2>6. TextOf(t, "TimetabledTime") = M("timetabled")
      BY <1>6, <2>2, <2>3, <2>4, TextJoined
    <2>7. TextOf(t, "EstimatedTime") = TextOf(b, "EstimatedTime")
      BY <1>6, <2>2, <2>3, <2>4, TextJoined
    <2>8. dep = In("ServiceDeparture", t)
      BY <2>1, <2>3, <2>4
    <2>9. "ServiceDeparture" \in Elements
      BY DEF Elements
    <2> HIDE DEF dep, est
    <2>10. dep \in Documents /\ Tags(dep) = {"ServiceDeparture"} \cup Tags(t)
      BY <2>5, <2>8, <2>9, Element
    <2>11. FirstBlock(dep, "ServiceDeparture", dep)
      BY <2>5, <2>8, <2>9, BlockWhole
    <2>12. /\ TextOf(dep, "TimetabledTime") = TextOf(t, "TimetabledTime")
           /\ TextOf(dep, "EstimatedTime") = TextOf(t, "EstimatedTime")
      BY <2>5, <2>8, <2>9, TextInside
    <2> QED
      BY <1>6, <2>3, <2>5, <2>6, <2>7, <2>10, <2>11, <2>12
  <1>8. /\ planned \in Documents /\ Tags(planned) \subseteq {"PlannedQuay", "Text"}
        /\ IF e.planned # None
           THEN FirstBlock(planned, "PlannedQuay", In("PlannedQuay", Leaf("Text", M("planned"))))
           ELSE Tags(planned) = {}
    <2>1. "PlannedQuay" \in Elements /\ "PlannedQuay" # "Text"
      BY DEF Elements
    <2>2. CASE e.planned # None
      <3>1. planned = In("PlannedQuay", Leaf("Text", M("planned")))
        BY <2>2 DEF If
      <3> QED
        BY <1>2, <2>1, <2>2, <3>1, Labelled
    <2>3. CASE e.planned = None
      <3>1. planned = <<>>
        BY <2>3 DEF If
      <3> QED
        BY <2>3, <3>1, Single
    <2> QED
      BY <2>2, <2>3
  <1>9. /\ estimated \in Documents /\ Tags(estimated) \subseteq {"EstimatedQuay", "Text"}
        /\ IF e.estimated # None
           THEN FirstBlock(estimated, "EstimatedQuay",
                           In("EstimatedQuay", Leaf("Text", M("estimatedQuay"))))
           ELSE Tags(estimated) = {}
    <2>1. "EstimatedQuay" \in Elements /\ "EstimatedQuay" # "Text"
      BY DEF Elements
    <2>2. CASE e.estimated # None
      <3>1. estimated = In("EstimatedQuay", Leaf("Text", M("estimatedQuay")))
        BY <2>2 DEF If
      <3> QED
        BY <1>2, <2>1, <2>2, <3>1, Labelled
    <2>3. CASE e.estimated = None
      <3>1. estimated = <<>>
        BY <2>3 DEF If
      <3> QED
        BY <2>3, <3>1, Single
    <2> QED
      BY <2>2, <2>3
  <1> HIDE DEF stop, arr, est, depTimes, dep, planned, estimated
  <1>10. PICK d1, d2, d3, d4 : /\ d1 = stop \o arr /\ d2 = d1 \o dep
                               /\ d3 = d2 \o planned /\ d4 = d3 \o estimated
    OBVIOUS
  <1>11. d1 \in Documents /\ Tags(d1) = Tags(stop) \cup Tags(arr)
    BY <1>4, <1>5, <1>10, Joined
  <1>12. d2 \in Documents /\ Tags(d2) = Tags(d1) \cup Tags(dep)
    BY <1>7, <1>10, <1>11, Joined
  <1>13. d3 \in Documents /\ Tags(d3) = Tags(d2) \cup Tags(planned)
    BY <1>8, <1>10, <1>12, Joined
  <1>14. d4 \in Documents /\ Tags(d4) = Tags(d3) \cup Tags(estimated)
    BY <1>9, <1>10, <1>13, Joined
  <1>15. PICK call : call = In("CallAtStop", d4)
    OBVIOUS
  <1>16. call = Call(n, c, e)
    BY <1>1, <1>10, <1>15
  <1>17. "CallAtStop" \in Elements /\ "ThisCall" \in Elements
    BY DEF Elements
  <1>18. call \in Documents /\ Tags(call) = {"CallAtStop"} \cup Tags(d4)
    BY <1>14, <1>15, <1>17, Element
  <1>19. Tags(call) \subseteq CallTags
    BY <1>4, <1>5, <1>7, <1>8, <1>9, <1>11, <1>12, <1>13, <1>14, <1>18 DEF CallTags
  <1>20. FirstBlock(In("ThisCall", call), "CallAtStop", call)
    <2>1. "CallAtStop" \notin Tags(d4)
      BY <1>4, <1>5, <1>7, <1>8, <1>9, <1>11, <1>12, <1>13, <1>14
    <2>2. FirstBlock(call, "CallAtStop", call)
      BY <1>14, <1>15, <1>17, <2>1, BlockWhole
    <2>3. ~BeginsWith("ThisCall", "CallAtStop")
      BY DEF BeginsWith
    <2> QED
      BY <1>17, <1>18, <2>2, <2>3, BlockInside
  <1>21. FirstBlock(call, "ServiceDeparture", dep)
    <2>1. Clear(d1, "ServiceDeparture") /\ ~BeginsWith("CallAtStop", "ServiceDeparture")
      BY <1>4, <1>5, <1>11 DEF Clear, BeginsWith
    <2>2. FirstBlock(d2, "ServiceDeparture", dep)
      BY <1>7, <1>10, <1>11, <2>1, BlockAfter
    <2>3. FirstBlock(d3, "ServiceDeparture", dep)
      BY <1>8, <1>10, <1>12, <2>2, BlockBefore
    <2>4. FirstBlock(d4, "ServiceDeparture", dep)
      BY <1>9, <1>10, <1>13, <2>3, BlockBefore
    <2> QED
      BY <1>14, <1>15, <1>17, <2>1, <2>4, BlockInside
  <1>22. LangTextOf(call, "PlannedQuay") = IF e.planned # None THEN M("planned") ELSE None
    <2>0. "PlannedQuay" \in Elements /\ "PlannedQuay" # "Text"
      BY DEF Elements
    <2>1. CASE e.planned # None
      <3>1. PICK b : b = In("PlannedQuay", Leaf("Text", M("planned")))
        OBVIOUS
      <3>2. Clear(d2, "PlannedQuay") /\ ~BeginsWith("CallAtStop", "PlannedQuay")
        BY <1>4, <1>5, <1>7, <1>11, <1>12 DEF Clear, BeginsWith
      <3>3. FirstBlock(d3, "PlannedQuay", b)
        BY <1>8, <1>10, <1>12, <2>1, <3>1, <3>2, BlockAfter
      <3>4. FirstBlock(d4, "PlannedQuay", b)
        BY <1>9, <1>10, <1>13, <3>3, BlockBefore
      <3>5. FirstBlock(call, "PlannedQuay", b)
        BY <1>14, <1>15, <1>17, <3>2, <3>4, BlockInside
      <3> QED
        BY <1>2, <1>18, <2>0, <2>1, <3>1, <3>5, LabelRead
    <2>2. CASE e.planned = None
      <3>1. "PlannedQuay" \notin Tags(call)
        BY <1>4, <1>5, <1>7, <1>8, <1>9, <1>11, <1>12, <1>13, <1>14, <1>18, <2>2
      <3> QED
        BY <1>18, <2>0, <2>2, <3>1, LabelRead
    <2> QED
      BY <2>1, <2>2
  <1>23. LangTextOf(call, "EstimatedQuay") = IF e.estimated # None THEN M("estimatedQuay") ELSE None
    <2>0. "EstimatedQuay" \in Elements /\ "EstimatedQuay" # "Text"
      BY DEF Elements
    <2>1. CASE e.estimated # None
      <3>1. PICK b : b = In("EstimatedQuay", Leaf("Text", M("estimatedQuay")))
        OBVIOUS
      <3>2. Clear(d3, "EstimatedQuay") /\ ~BeginsWith("CallAtStop", "EstimatedQuay")
        BY <1>4, <1>5, <1>7, <1>8, <1>11, <1>12, <1>13 DEF Clear, BeginsWith
      <3>3. FirstBlock(d4, "EstimatedQuay", b)
        BY <1>9, <1>10, <1>13, <2>1, <3>1, <3>2, BlockAfter
      <3>4. FirstBlock(call, "EstimatedQuay", b)
        BY <1>14, <1>15, <1>17, <3>2, <3>3, BlockInside
      <3> QED
        BY <1>2, <1>18, <2>0, <2>1, <3>1, <3>4, LabelRead
    <2>2. CASE e.estimated = None
      <3>1. "EstimatedQuay" \notin Tags(call)
        BY <1>4, <1>5, <1>7, <1>8, <1>9, <1>11, <1>12, <1>13, <1>14, <1>18, <2>2
      <3> QED
        BY <1>18, <2>0, <2>2, <3>1, LabelRead
    <2> QED
      BY <2>1, <2>2
  <1>24. \E i \in 1 .. Len(call) : Opens(call[i], "Service")
    <2>1. PICK i \in 1 .. Len(call) : Opens(call[i], "ServiceDeparture")
      BY <1>21 DEF FirstBlock
    <2>2. Opens(call[i], "Service")
      BY <2>1 DEF Opens, BeginsWith
    <2> QED
      BY <2>2
  <1>25. \E d : /\ FirstBlock(call, "ServiceDeparture", d)
                /\ TextOf(d, "TimetabledTime") = M("timetabled")
                /\ TextOf(d, "EstimatedTime") = IF e.late # None THEN M("estimated") ELSE None
    BY <1>7, <1>21
  <1> QED
    BY <1>16, <1>18, <1>19, <1>20, <1>22, <1>23, <1>24, <1>25 DEF M

\* A service, as an element.
LEMMA ServiceSent ==
    ASSUME NEW n \in Nat
    PROVE  \E in \in Documents :
             /\ Service(n) = In("Service", in)
             /\ "Service" \notin Tags(in)
             /\ Service(n) \in Documents /\ Tags(Service(n)) \subseteq ServiceTags
             /\ TextOf(in, "OperatingDayRef") = <<n, "service", "day">>
             /\ TextOf(in, "JourneyRef") = <<n, "service", "journey">>
             /\ TextOf(in, "TrainNumber") = <<n, "service", "train">>
             /\ TextOf(in, "OperatorRef") = <<n, "service", "operator">>
             /\ \E mode : /\ FirstBlock(in, "Mode", mode)
                          /\ LangTextOf(mode, "ShortName") = <<n, "service", "category">>
             /\ FirstBlock(in, "PublishedServiceName",
                           In("PublishedServiceName", Leaf("Text", <<n, "service", "number">>)))
             /\ FirstBlock(in, "DestinationText",
                           In("DestinationText", Leaf("Text", <<n, "service", "to">>)))
  <1> DEFINE M(what) == <<n, "service", what>>
             day == Leaf("OperatingDayRef", M("day"))
             journey == Leaf("JourneyRef", M("journey"))
             name == In("Name", Leaf("Text", M("modeName")))
             short == In("ShortName", Leaf("Text", M("category")))
             number == In("PublishedServiceName", Leaf("Text", M("number")))
             origin == In("OriginText", Leaf("Text", M("origin")))
             dest == In("DestinationText", Leaf("Text", M("to")))
             train == Leaf("TrainNumber", M("train"))
             operator == Leaf("OperatorRef", M("operator"))
  <1>1. Service(n) = In("Service", ((((((day \o journey) \o In("Mode", name \o short)) \o number)
                                       \o origin) \o dest) \o train) \o operator)
    BY DEF Service
  <1>2. /\ M("day") \in Meanings /\ M("journey") \in Meanings /\ M("modeName") \in Meanings
        /\ M("category") \in Meanings /\ M("number") \in Meanings /\ M("origin") \in Meanings
        /\ M("to") \in Meanings /\ M("train") \in Meanings /\ M("operator") \in Meanings
    BY DEF Meanings
  <1>3. /\ "Service" \in Elements /\ "OperatingDayRef" \in Elements /\ "JourneyRef" \in Elements
        /\ "Mode" \in Elements /\ "Name" \in Elements /\ "ShortName" \in Elements
        /\ "PublishedServiceName" \in Elements /\ "OriginText" \in Elements
        /\ "DestinationText" \in Elements /\ "TrainNumber" \in Elements
        /\ "OperatorRef" \in Elements
    BY DEF Elements
  <1>4. /\ "Name" # "Text" /\ "ShortName" # "Text" /\ "PublishedServiceName" # "Text"
        /\ "OriginText" # "Text" /\ "DestinationText" # "Text"
    OBVIOUS
  <1> HIDE DEF M
  <1>5. /\ day \in Documents /\ Tags(day) = {"OperatingDayRef"}
        /\ TextOf(day, "OperatingDayRef") = M("day")
    BY <1>2, <1>3, Single, TextItself
  <1>6. /\ journey \in Documents /\ Tags(journey) = {"JourneyRef"}
        /\ TextOf(journey, "JourneyRef") = M("journey")
    BY <1>2, <1>3, Single, TextItself
  <1>7. name \in Documents /\ Tags(name) = {"Name", "Text"}
    BY <1>2, <1>3, <1>4, Labelled
  <1>8. short \in Documents /\ Tags(short) = {"ShortName", "Text"} /\ FirstBlock(short, "ShortName", short)
    BY <1>2, <1>3, <1>4, Labelled
  <1>9. /\ number \in Documents /\ Tags(number) = {"PublishedServiceName", "Text"}
        /\ FirstBlock(number, "PublishedServiceName", number)
    BY <1>2, <1>3, <1>4, Labelled
  <1>10. origin \in Documents /\ Tags(origin) = {"OriginText", "Text"}
    BY <1>2, <1>3, <1>4, Labelled
  <1>11. /\ dest \in Documents /\ Tags(dest) = {"DestinationText", "Text"}
         /\ FirstBlock(dest, "DestinationText", dest)
    BY <1>2, <1>3, <1>4, Labelled
  <1>12. /\ train \in Documents /\ Tags(train) = {"TrainNumber"}
         /\ TextOf(train, "TrainNumber") = M("train")
    BY <1>2, <1>3, Single, TextItself
  <1>13. /\ operator \in Documents /\ Tags(operator) = {"OperatorRef"}
         /\ TextOf(operator, "OperatorRef") = M("operator")
    BY <1>2, <1>3, Single, TextItself
  <1>14. PICK kinds, mode : kinds = name \o short /\ mode = In("Mode", kinds)
    OBVIOUS
  <1> HIDE DEF day, journey, name, number, origin, dest, train, operator
  <1>15. /\ mode \in Documents /\ Tags(mode) = {"Mode", "Name", "ShortName", "Text"}
         /\ FirstBlock(mode, "Mode", mode)
         /\ LangTextOf(mode, "ShortName") = M("category")
    <2>1. PICK k : k = short
      OBVIOUS
    <2>2. k \in Documents /\ Tags(k) = {"ShortName", "Text"} /\ FirstBlock(k, "ShortName", k)
      BY <1>8, <2>1
    <2>3. kinds \in Documents /\ Tags(kinds) = Tags(name) \cup Tags(k)
      BY <1>7, <1>14, <2>1, <2>2, Joined
    <2>4. mode \in Documents /\ Tags(mode) = {"Mode"} \cup Tags(kinds)
      BY <1>3, <1>14, <2>3, Element
    <2>5. "Mode" \notin Tags(kinds)
      BY <1>7, <2>2, <2>3
    <2>6. FirstBlock(mode, "Mode", mode)
      BY <1>3, <1>14, <2>3, <2>5, BlockWhole
    <2>7. Clear(name, "ShortName") /\ ~BeginsWith("Mode", "ShortName")
      BY <1>7 DEF Clear, BeginsWith
    <2>8. FirstBlock(kinds, "ShortName", k)
      BY <1>7, <1>14, <2>1, <2>2, <2>7, BlockAfter
    <2>9. FirstBlock(mode, "ShortName", k)
      BY <1>3, <1>14, <2>3, <2>7, <2>8, BlockInside
    <2>10. LangTextOf(mode, "ShortName") = M("category")
      BY <1>2, <1>3, <1>4, <2>1, <2>4, <2>9, LabelRead
    <2> QED
      BY <1>7, <2>2, <2>3, <2>4, <2>6, <2>10
  <1> HIDE DEF short
  <1>16. PICK s1, s2, s3, s4, s5, s6, s7 :
           /\ s1 = day \o journey /\ s2 = s1 \o mode /\ s3 = s2 \o number
           /\ s4 = s3 \o origin /\ s5 = s4 \o dest
           /\ s6 = s5 \o train /\ s7 = s6 \o operator
    OBVIOUS
  <1>17. s1 \in Documents /\ Tags(s1) = Tags(day) \cup Tags(journey)
    BY <1>5, <1>6, <1>16, Joined
  <1>18. s2 \in Documents /\ Tags(s2) = Tags(s1) \cup Tags(mode)
    BY <1>15, <1>16, <1>17, Joined
  <1>19. s3 \in Documents /\ Tags(s3) = Tags(s2) \cup Tags(number)
    BY <1>9, <1>16, <1>18, Joined
  <1>20. s4 \in Documents /\ Tags(s4) = Tags(s3) \cup Tags(origin)
    BY <1>10, <1>16, <1>19, Joined
  <1>21. s5 \in Documents /\ Tags(s5) = Tags(s4) \cup Tags(dest)
    BY <1>11, <1>16, <1>20, Joined
  <1>22. s6 \in Documents /\ Tags(s6) = Tags(s5) \cup Tags(train)
    BY <1>16, <1>21, <1>12, Joined
  <1>23. s7 \in Documents /\ Tags(s7) = Tags(s6) \cup Tags(operator)
    BY <1>16, <1>13, <1>22, Joined
  <1>24. Service(n) = In("Service", s7)
    BY <1>1, <1>14, <1>16
  <1>25. Service(n) \in Documents /\ Tags(Service(n)) = {"Service"} \cup Tags(s7)
    <2>1. /\ In("Service", s7) \in Documents
          /\ Tags(In("Service", s7)) = {"Service"} \cup Tags(s7)
      BY <1>3, <1>23, Element
    <2> QED
      BY <1>24, <2>1
  <1>26. Tags(s5) = {"OperatingDayRef", "JourneyRef", "Mode", "Name", "ShortName",
                     "PublishedServiceName", "OriginText", "DestinationText", "Text"}
    BY <1>5, <1>6, <1>9, <1>10, <1>11, <1>15, <1>17, <1>18, <1>19, <1>20, <1>21
  <1>27. Tags(Service(n)) \subseteq ServiceTags /\ "Service" \notin Tags(s7)
    BY <1>25, <1>12, <1>13, <1>22, <1>23, <1>26 DEF ServiceTags
  <1>28. /\ "OperatingDayRef" \notin Tags(journey) /\ "JourneyRef" \notin Tags(day)
         /\ "OperatingDayRef" \notin Tags(mode) /\ "JourneyRef" \notin Tags(mode)
         /\ "OperatingDayRef" \notin Tags(number) /\ "JourneyRef" \notin Tags(number)
         /\ "OperatingDayRef" \notin Tags(origin) /\ "JourneyRef" \notin Tags(origin)
         /\ "OperatingDayRef" \notin Tags(dest) /\ "JourneyRef" \notin Tags(dest)
    BY <1>5, <1>6, <1>9, <1>10, <1>11, <1>15
  <1>29. TextOf(s5, "OperatingDayRef") = M("day")
    <2>1. TextOf(s1, "OperatingDayRef") = M("day")
      BY <1>5, <1>6, <1>16, <1>28, TextJoined
    <2>2. TextOf(s2, "OperatingDayRef") = M("day")
      BY <1>15, <1>16, <1>17, <1>28, <2>1, TextJoined
    <2>3. TextOf(s3, "OperatingDayRef") = M("day")
      <3>1. TextOf(s2 \o number, "OperatingDayRef") = TextOf(s2, "OperatingDayRef")
        BY <1>9, <1>18, <1>28, TextJoined
      <3> QED
        BY <1>16, <2>2, <3>1
    <2>4. TextOf(s4, "OperatingDayRef") = M("day")
      <3>1. TextOf(s3 \o origin, "OperatingDayRef") = TextOf(s3, "OperatingDayRef")
        BY <1>10, <1>19, <1>28, TextJoined
      <3> QED
        BY <1>16, <2>3, <3>1
    <2>5. TextOf(s4 \o dest, "OperatingDayRef") = TextOf(s4, "OperatingDayRef")
      BY <1>11, <1>20, <1>28, TextJoined
    <2> QED
      BY <1>16, <2>4, <2>5
  <1>30. TextOf(s5, "JourneyRef") = M("journey")
    <2>1. TextOf(s1, "JourneyRef") = M("journey")
      BY <1>5, <1>6, <1>16, <1>28, TextJoined
    <2>2. TextOf(s2, "JourneyRef") = M("journey")
      BY <1>15, <1>16, <1>17, <1>28, <2>1, TextJoined
    <2>3. TextOf(s3, "JourneyRef") = M("journey")
      <3>1. TextOf(s2 \o number, "JourneyRef") = TextOf(s2, "JourneyRef")
        BY <1>9, <1>18, <1>28, TextJoined
      <3> QED
        BY <1>16, <2>2, <3>1
    <2>4. TextOf(s4, "JourneyRef") = M("journey")
      <3>1. TextOf(s3 \o origin, "JourneyRef") = TextOf(s3, "JourneyRef")
        BY <1>10, <1>19, <1>28, TextJoined
      <3> QED
        BY <1>16, <2>3, <3>1
    <2>5. TextOf(s4 \o dest, "JourneyRef") = TextOf(s4, "JourneyRef")
      BY <1>11, <1>20, <1>28, TextJoined
    <2> QED
      BY <1>16, <2>4, <2>5
  <1>31. FirstBlock(s5, "Mode", mode)
    <2>1. Clear(s1, "Mode")
      BY <1>5, <1>6, <1>17 DEF Clear, BeginsWith
    <2>2. FirstBlock(s2, "Mode", mode)
      BY <1>15, <1>16, <1>17, <2>1, BlockAfter
    <2>3. FirstBlock(s3, "Mode", mode)
      BY <1>9, <1>16, <1>18, <2>2, BlockBefore
    <2>4. FirstBlock(s4, "Mode", mode)
      BY <1>10, <1>16, <1>19, <2>3, BlockBefore
    <2> QED
      BY <1>11, <1>16, <1>20, <2>4, BlockBefore
  <1>32. FirstBlock(s5, "PublishedServiceName", number)
    <2>1. Clear(s2, "PublishedServiceName")
      BY <1>5, <1>6, <1>15, <1>17, <1>18 DEF Clear, BeginsWith
    <2>2. FirstBlock(s3, "PublishedServiceName", number)
      BY <1>9, <1>16, <1>18, <2>1, BlockAfter
    <2>3. FirstBlock(s4, "PublishedServiceName", number)
      BY <1>10, <1>16, <1>19, <2>2, BlockBefore
    <2> QED
      BY <1>11, <1>16, <1>20, <2>3, BlockBefore
  <1>33. FirstBlock(s5, "DestinationText", dest)
    <2>1. Clear(s4, "DestinationText")
      BY <1>5, <1>6, <1>9, <1>10, <1>15, <1>17, <1>18, <1>19, <1>20 DEF Clear, BeginsWith
    <2> QED
      BY <1>11, <1>16, <1>20, <2>1, BlockAfter
  \* The number and the operator behind them change nothing of that.
  <1>34. /\ TextOf(s7, "OperatingDayRef") = M("day") /\ TextOf(s7, "JourneyRef") = M("journey")
    <2>1. /\ TextOf(s6, "OperatingDayRef") = M("day") /\ TextOf(s6, "JourneyRef") = M("journey")
      BY <1>16, <1>21, <1>29, <1>30, <1>12, TextJoined
    <2>2. /\ TextOf(s6 \o operator, "OperatingDayRef") = TextOf(s6, "OperatingDayRef")
          /\ TextOf(s6 \o operator, "JourneyRef") = TextOf(s6, "JourneyRef")
      BY <1>13, <1>22, TextJoined
    <2> QED
      BY <1>16, <2>1, <2>2
  <1>35. TextOf(s7, "TrainNumber") = M("train")
    <2>1. TextOf(s5 \o train, "TrainNumber") = TextOf(train, "TrainNumber")
      BY <1>21, <1>12, <1>26, TextJoined
    <2>2. TextOf(s6 \o operator, "TrainNumber") = TextOf(s6, "TrainNumber")
      BY <1>13, <1>22, TextJoined
    <2> QED
      BY <1>16, <1>12, <2>1, <2>2
  <1>36. TextOf(s7, "OperatorRef") = M("operator")
    <2>1. TextOf(s6 \o operator, "OperatorRef") = TextOf(operator, "OperatorRef")
      BY <1>12, <1>13, <1>22, <1>26, TextJoined
    <2> QED
      BY <1>16, <1>13, <2>1
  <1>37. ASSUME NEW tag, NEW y, FirstBlock(s5, tag, y)
         PROVE  FirstBlock(s7, tag, y)
    <2>1. FirstBlock(s5 \o train, tag, y)
      BY <1>21, <1>12, <1>37, BlockBefore
    <2>2. FirstBlock(s6 \o operator, tag, y)
      BY <1>16, <1>13, <1>22, <2>1, BlockBefore
    <2> QED
      BY <1>16, <2>2
  <1>38. \E m : FirstBlock(s7, "Mode", m) /\ LangTextOf(m, "ShortName") = M("category")
    BY <1>15, <1>31, <1>37
  <1>39. FirstBlock(s7, "PublishedServiceName", number) /\ FirstBlock(s7, "DestinationText", dest)
    BY <1>32, <1>33, <1>37
  <1> QED
    BY <1>24, <1>25, <1>27, <1>38, <1>23, <1>34, <1>35, <1>36, <1>39 DEF M, number, dest

\* What is read of a service that begins with part of the calls before it (ojp.rs:138-160) is
\* what the service says.
LEMMA ServiceRead ==
    ASSUME NEW n \in Nat, NEW y \in Documents, Tags(y) \subseteq CallsTags
    PROVE  /\ LangTextOf(y \o Service(n), "DestinationText") = <<n, "service", "to">>
           /\ LangTextOf(y \o Service(n), "PublishedServiceName") = <<n, "service", "number">>
           /\ BlocksOf(y \o Service(n), "Mode") # <<>>
           /\ LangTextOf(BlocksOf(y \o Service(n), "Mode")[1], "ShortName")
                = <<n, "service", "category">>
           /\ TextOf(y \o Service(n), "OperatingDayRef") = <<n, "service", "day">>
           /\ TextOf(y \o Service(n), "JourneyRef") = <<n, "service", "journey">>
           /\ TextOf(y \o Service(n), "TrainNumber") = <<n, "service", "train">>
           /\ TextOf(y \o Service(n), "OperatorRef") = <<n, "service", "operator">>
  <1>1. PICK in \in Documents :
          /\ Service(n) = In("Service", in)
          /\ Service(n) \in Documents
          /\ TextOf(in, "OperatingDayRef") = <<n, "service", "day">>
          /\ TextOf(in, "JourneyRef") = <<n, "service", "journey">>
          /\ TextOf(in, "TrainNumber") = <<n, "service", "train">>
          /\ TextOf(in, "OperatorRef") = <<n, "service", "operator">>
          /\ \E mode : /\ FirstBlock(in, "Mode", mode)
                       /\ LangTextOf(mode, "ShortName") = <<n, "service", "category">>
          /\ FirstBlock(in, "PublishedServiceName",
                        In("PublishedServiceName", Leaf("Text", <<n, "service", "number">>)))
          /\ FirstBlock(in, "DestinationText",
                        In("DestinationText", Leaf("Text", <<n, "service", "to">>)))
    BY ServiceSent
  <1>2. PICK x, s : x = Service(n) /\ s = y \o x
    OBVIOUS
  <1>3. x \in Documents /\ s \in Documents
    BY <1>1, <1>2, Joined
  <1>4. /\ Clear(y, "DestinationText") /\ Clear(y, "PublishedServiceName") /\ Clear(y, "Mode")
        /\ Clear(y, "OperatingDayRef") /\ Clear(y, "JourneyRef")
        /\ Clear(y, "TrainNumber") /\ Clear(y, "OperatorRef")
    BY DEF CallsTags, CallTags, Clear, BeginsWith
  <1>5. /\ ~BeginsWith("Service", "DestinationText") /\ ~BeginsWith("Service", "Mode")
        /\ ~BeginsWith("Service", "PublishedServiceName")
    BY DEF BeginsWith
  <1>6. /\ "Service" \in Elements /\ "DestinationText" \in Elements
        /\ "PublishedServiceName" \in Elements
    BY DEF Elements
  <1>7. <<n, "service", "to">> \in Meanings /\ <<n, "service", "number">> \in Meanings
    BY DEF Meanings
  <1>8. LangTextOf(s, "DestinationText") = <<n, "service", "to">>
    <2>1. PICK d : d = In("DestinationText", Leaf("Text", <<n, "service", "to">>))
      OBVIOUS
    <2>2. FirstBlock(x, "DestinationText", d)
      BY <1>1, <1>2, <1>5, <1>6, <2>1, BlockInside
    <2>3. FirstBlock(s, "DestinationText", d)
      BY <1>2, <1>3, <1>4, <2>2, BlockAfter
    <2> QED
      BY <1>3, <1>6, <1>7, <2>1, <2>3, LabelRead
  <1>9. LangTextOf(s, "PublishedServiceName") = <<n, "service", "number">>
    <2>1. PICK d : d = In("PublishedServiceName", Leaf("Text", <<n, "service", "number">>))
      OBVIOUS
    <2>2. FirstBlock(x, "PublishedServiceName", d)
      BY <1>1, <1>2, <1>5, <1>6, <2>1, BlockInside
    <2>3. FirstBlock(s, "PublishedServiceName", d)
      BY <1>2, <1>3, <1>4, <2>2, BlockAfter
    <2> QED
      BY <1>3, <1>6, <1>7, <2>1, <2>3, LabelRead
  <1>10. /\ BlocksOf(s, "Mode") # <<>>
         /\ LangTextOf(BlocksOf(s, "Mode")[1], "ShortName") = <<n, "service", "category">>
    <2>1. PICK d : FirstBlock(in, "Mode", d) /\ LangTextOf(d, "ShortName") = <<n, "service", "category">>
      BY <1>1
    <2>2. FirstBlock(x, "Mode", d)
      BY <1>1, <1>2, <1>5, <1>6, <2>1, BlockInside
    <2>3. FirstBlock(s, "Mode", d)
      BY <1>2, <1>3, <1>4, <2>2, BlockAfter
    <2>4. BlocksOf(s, "Mode") # <<>> /\ BlocksOf(s, "Mode")[1] = d
      BY <1>3, <2>3, BlockRead
    <2> QED
      BY <2>1, <2>4
  <1>11. TextOf(s, "OperatingDayRef") = <<n, "service", "day">>
    <2>1. TextOf(x, "OperatingDayRef") = <<n, "service", "day">>
      <3>1. TextOf(In("Service", in), "OperatingDayRef") = TextOf(in, "OperatingDayRef")
        BY <1>6, TextInside
      <3> QED
        BY <1>1, <1>2, <3>1
    <2> QED
      BY <1>2, <1>3, <1>4, <2>1, Cleared, TextJoined
  <1>12. TextOf(s, "JourneyRef") = <<n, "service", "journey">>
    <2>1. TextOf(x, "JourneyRef") = <<n, "service", "journey">>
      <3>1. TextOf(In("Service", in), "JourneyRef") = TextOf(in, "JourneyRef")
        BY <1>6, TextInside
      <3> QED
        BY <1>1, <1>2, <3>1
    <2> QED
      BY <1>2, <1>3, <1>4, <2>1, Cleared, TextJoined
  <1>13. TextOf(s, "TrainNumber") = <<n, "service", "train">>
    <2>1. TextOf(x, "TrainNumber") = <<n, "service", "train">>
      <3>1. TextOf(In("Service", in), "TrainNumber") = TextOf(in, "TrainNumber")
        BY <1>6, TextInside
      <3> QED
        BY <1>1, <1>2, <3>1
    <2> QED
      BY <1>2, <1>3, <1>4, <2>1, Cleared, TextJoined
  <1>14. TextOf(s, "OperatorRef") = <<n, "service", "operator">>
    <2>1. TextOf(x, "OperatorRef") = <<n, "service", "operator">>
      <3>1. TextOf(In("Service", in), "OperatorRef") = TextOf(in, "OperatorRef")
        BY <1>6, TextInside
      <3> QED
        BY <1>1, <1>2, <3>1
    <2> QED
      BY <1>2, <1>3, <1>4, <2>1, Cleared, TextJoined
  <1> QED
    BY <1>2, <1>8, <1>9, <1>10, <1>11, <1>12, <1>13, <1>14

\* `StopEvent` also matches the result around the event (ojp.rs:95): what is cut out begins there,
\* and has the event in it.
LEMMA EventCut ==
    ASSUME NEW in \in Documents, "StopEvent" \notin Tags(in)
    PROVE  \E event \in Documents :
             /\ FirstBlock(In("StopEventResult", In("StopEvent", in)), "StopEvent", event)
             /\ Tags(event) \subseteq {"StopEventResult", "StopEvent"} \cup Tags(in)
             /\ \A b : FirstBlock(in, "Service", b) => FirstBlock(event, "Service", b)
             /\ \A b : FirstBlock(in, "ThisCall", b) => FirstBlock(event, "ThisCall", b)
  <1>1. PICK o, c, ev : /\ o = Open("StopEventResult") /\ c = Close("StopEventResult")
                        /\ ev = In("StopEvent", in)
    OBVIOUS
  <1>2. "StopEventResult" \in Elements /\ "StopEvent" \in Elements
    BY DEF Elements
  <1>3. /\ o \in Documents /\ Tags(o) = {"StopEventResult"} /\ Len(o) = 1
        /\ o[1] = [kind |-> "open", tag |-> "StopEventResult", means |-> None]
        /\ c \in Documents
    BY <1>1, <1>2, Single
  <1>4. ev \in Documents /\ Tags(ev) = {"StopEvent"} \cup Tags(in)
    BY <1>1, <1>2, Element
  <1>5. PICK n : n = 1
    OBVIOUS
  <1>6. n \in 1 .. Len(o) /\ Opens(o[n], "StopEvent") /\ "StopEvent" \notin Tags(o)
    BY <1>3, <1>5 DEF Opens, BeginsWith
  <1>7. PICK y \in Documents :
          /\ Tags(y) \subseteq Tags(o)
          /\ FirstBlock(o \o In("StopEvent", in), "StopEvent", y \o In("StopEvent", in))
    BY <1>2, <1>3, <1>6, BlockOpenedBefore
  <1>8. PICK event : event = y \o ev
    OBVIOUS
  <1>9. event \in Documents /\ Tags(event) = Tags(y) \cup Tags(ev)
    BY <1>4, <1>8, Joined
  <1>10. o \o ev \in Documents
    BY <1>3, <1>4, Joined
  <1>11. FirstBlock((o \o ev) \o c, "StopEvent", event)
    BY <1>1, <1>3, <1>7, <1>8, <1>10, BlockBefore
  <1>12. FirstBlock(In("StopEventResult", ev), "StopEvent", event)
    BY <1>1, <1>11 DEF In
  <1>13. /\ Clear(y, "Service") /\ Clear(y, "ThisCall")
         /\ ~BeginsWith("StopEvent", "Service") /\ ~BeginsWith("StopEvent", "ThisCall")
    BY <1>3, <1>7 DEF Clear, BeginsWith
  <1>14. ASSUME NEW b, FirstBlock(in, "Service", b)
         PROVE  FirstBlock(event, "Service", b)
    <2>1. FirstBlock(ev, "Service", b)
      BY <1>1, <1>2, <1>13, <1>14, BlockInside
    <2> QED
      BY <1>4, <1>8, <1>13, <2>1, BlockAfter
  <1>15. ASSUME NEW b, FirstBlock(in, "ThisCall", b)
         PROVE  FirstBlock(event, "ThisCall", b)
    <2>1. FirstBlock(ev, "ThisCall", b)
      BY <1>1, <1>2, <1>13, <1>15, BlockInside
    <2> QED
      BY <1>4, <1>8, <1>13, <2>1, BlockAfter
  <1>16. Tags(event) \subseteq {"StopEventResult", "StopEvent"} \cup Tags(in)
    BY <1>3, <1>4, <1>7, <1>9
  <1> QED
    BY <1>1, <1>9, <1>12, <1>14, <1>15, <1>16

\* The calls of a train: this one is found among them, whatever comes before and after it.
LEMMA CallsSent ==
    ASSUME NEW n \in Nat, NEW e \in StopEvents
    PROVE  LET this  == In("ThisCall", Call(n, "this", e))
               calls == If(e.passes, In("PreviousCall", Call(n, "previous", e))) \o this
                          \o If(e.passes, In("OnwardCall", Call(n, "onward", e)))
           IN  /\ calls \in Documents /\ Tags(calls) \subseteq CallsTags
               /\ FirstBlock(calls, "ThisCall", this)
               /\ \E i \in 1 .. Len(calls) : Opens(calls[i], "Service")
  <1>1. PICK t, before, after : /\ t = In("ThisCall", Call(n, "this", e))
                                /\ before = If(e.passes, In("PreviousCall", Call(n, "previous", e)))
                                /\ after = If(e.passes, In("OnwardCall", Call(n, "onward", e)))
    OBVIOUS
  <1>2. "ThisCall" \in Elements /\ "PreviousCall" \in Elements /\ "OnwardCall" \in Elements
    BY DEF Elements
  <1>3. ASSUME NEW c \in {"previous", "this", "onward"}
        PROVE  /\ Call(n, c, e) \in Documents /\ Tags(Call(n, c, e)) \subseteq CallTags
               /\ \E i \in 1 .. Len(Call(n, c, e)) : Opens(Call(n, c, e)[i], "Service")
    BY CallRead
  <1>4. /\ t \in Documents /\ Tags(t) \subseteq {"ThisCall"} \cup CallTags
        /\ FirstBlock(t, "ThisCall", t)
        /\ \E i \in 1 .. Len(t) : Opens(t[i], "Service")
    <2>1. PICK c : c = Call(n, "this", e)
      OBVIOUS
    <2>2. /\ c \in Documents /\ Tags(c) \subseteq CallTags
          /\ \E i \in 1 .. Len(c) : Opens(c[i], "Service")
      BY <1>3, <2>1
    <2>3. /\ t \in Documents /\ Tags(t) = {"ThisCall"} \cup Tags(c)
          /\ Len(c) \in Nat /\ Len(t) = Len(c) + 2 /\ \A i \in 1 .. Len(c) : t[i + 1] = c[i]
      BY <1>1, <1>2, <2>1, <2>2, Element
    <2>4. "ThisCall" \notin Tags(c)
      BY <2>2 DEF CallTags
    <2>5. FirstBlock(t, "ThisCall", t)
      BY <1>1, <1>2, <2>1, <2>2, <2>4, BlockWhole
    <2>6. \E i \in 1 .. Len(t) : Opens(t[i], "Service")
      <3>1. PICK i \in 1 .. Len(c) : Opens(c[i], "Service")
        BY <2>2
      <3>2. i + 1 \in 1 .. Len(t) /\ Opens(t[i + 1], "Service")
        BY <2>3, <3>1
      <3> QED
        BY <3>2
    <2> QED
      BY <2>2, <2>3, <2>5, <2>6
  <1>5. before \in Documents /\ Tags(before) \subseteq {"PreviousCall"} \cup CallTags
    <2>1. PICK c : c = Call(n, "previous", e)
      OBVIOUS
    <2>2. c \in Documents /\ Tags(c) \subseteq CallTags
      BY <1>3, <2>1
    <2>3. In("PreviousCall", c) \in Documents /\ Tags(In("PreviousCall", c)) = {"PreviousCall"} \cup Tags(c)
      BY <1>2, <2>2, Element
    <2>4. before = IF e.passes THEN In("PreviousCall", c) ELSE <<>>
      BY <1>1, <2>1 DEF If
    <2>5. <<>> \in Documents /\ Tags(<<>>) = {}
      BY Single
    <2> QED
      BY <2>2, <2>3, <2>4, <2>5
  <1>6. after \in Documents /\ Tags(after) \subseteq {"OnwardCall"} \cup CallTags
    <2>1. PICK c : c = Call(n, "onward", e)
      OBVIOUS
    <2>2. c \in Documents /\ Tags(c) \subseteq CallTags
      BY <1>3, <2>1
    <2>3. In("OnwardCall", c) \in Documents /\ Tags(In("OnwardCall", c)) = {"OnwardCall"} \cup Tags(c)
      BY <1>2, <2>2, Element
    <2>4. after = IF e.passes THEN In("OnwardCall", c) ELSE <<>>
      BY <1>1, <2>1 DEF If
    <2>5. <<>> \in Documents /\ Tags(<<>>) = {}
      BY Single
    <2> QED
      BY <2>2, <2>3, <2>4, <2>5
  <1>7. PICK part, calls : part = before \o t /\ calls = part \o after
    OBVIOUS
  <1>8. /\ part \in Documents /\ Tags(part) = Tags(before) \cup Tags(t)
        /\ Len(before) \in Nat /\ Len(t) \in Nat /\ Len(part) = Len(before) + Len(t)
        /\ \A i \in 1 .. Len(t) : part[Len(before) + i] = t[i]
    <2>1. /\ before \o t \in Documents /\ Tags(before \o t) = Tags(before) \cup Tags(t)
          /\ Len(before) \in Nat /\ Len(t) \in Nat /\ Len(before \o t) = Len(before) + Len(t)
          /\ \A i \in 1 .. Len(t) : (before \o t)[Len(before) + i] = t[i]
      BY <1>4, <1>5, Joined
    <2> QED
      BY <1>7, <2>1
  <1>9. /\ calls \in Documents /\ Tags(calls) = Tags(part) \cup Tags(after)
        /\ Len(after) \in Nat /\ Len(calls) = Len(part) + Len(after)
        /\ \A i \in 1 .. Len(part) : calls[i] = part[i]
    <2>1. /\ part \o after \in Documents /\ Tags(part \o after) = Tags(part) \cup Tags(after)
          /\ Len(after) \in Nat /\ Len(part \o after) = Len(part) + Len(after)
          /\ \A i \in 1 .. Len(part) : (part \o after)[i] = part[i]
      BY <1>6, <1>8, Joined
    <2> QED
      BY <1>7, <2>1
  <1>10. Tags(calls) \subseteq CallsTags
    BY <1>4, <1>5, <1>6, <1>8, <1>9 DEF CallsTags
  <1>11. FirstBlock(calls, "ThisCall", t)
    <2>1. Clear(before, "ThisCall")
      BY <1>5 DEF Clear, BeginsWith, CallTags
    <2>2. FirstBlock(part, "ThisCall", t)
      BY <1>4, <1>5, <1>7, <2>1, BlockAfter
    <2> QED
      BY <1>6, <1>7, <1>8, <2>2, BlockBefore
  <1>12. \E i \in 1 .. Len(calls) : Opens(calls[i], "Service")
    <2>1. PICK i \in 1 .. Len(t) : Opens(t[i], "Service")
      BY <1>4
    <2>2. PICK k : k = Len(before) + i
      OBVIOUS
    <2>3. k \in 1 .. Len(part) /\ part[k] = t[i]
      BY <1>8, <2>2
    <2>4. k \in 1 .. Len(calls) /\ calls[k] = t[i]
      BY <1>8, <1>9, <2>3
    <2> QED
      BY <2>1, <2>4
  <1>13. calls = If(e.passes, In("PreviousCall", Call(n, "previous", e))) \o In("ThisCall", Call(n, "this", e))
                   \o If(e.passes, In("OnwardCall", Call(n, "onward", e)))
    BY <1>1, <1>7
  <1> QED
    BY <1>1, <1>9, <1>10, <1>11, <1>12, <1>13

\* What is cut out of a result as its service ends with the service, though it may begin at a
\* ServiceDeparture of the calls before it; what is cut out as this call is this call.
LEMMA ResultRead ==
    ASSUME NEW n \in Nat, NEW e \in StopEvents, e # Incomplete
    PROVE  \E event, y \in Documents :
             /\ FirstBlock(Result(n, e), "StopEvent", event)
             /\ Tags(y) \subseteq CallsTags
             /\ FirstBlock(event, "Service", y \o Service(n))
             /\ FirstBlock(event, "ThisCall", In("ThisCall", Call(n, "this", e)))
             /\ \E in \in Documents : /\ Result(n, e) = In("StopEventResult", in)
                                      /\ "StopEventResult" \notin Tags(in)
  <1> DEFINE all == If(e.passes, In("PreviousCall", Call(n, "previous", e)))
                      \o In("ThisCall", Call(n, "this", e))
                      \o If(e.passes, In("OnwardCall", Call(n, "onward", e)))
  <1>1. Result(n, e) = In("StopEventResult", In("StopEvent",
                         IF e.serviceFirst THEN Service(n) \o all ELSE all \o Service(n)))
    BY DEF Result
  <1>2. PICK calls, t : calls = all /\ t = In("ThisCall", Call(n, "this", e))
    OBVIOUS
  <1>3. /\ calls \in Documents /\ Tags(calls) \subseteq CallsTags
        /\ FirstBlock(calls, "ThisCall", t)
        /\ \E i \in 1 .. Len(calls) : Opens(calls[i], "Service")
    BY <1>2, CallsSent
  <1> HIDE DEF all
  <1>4. PICK x, s \in Documents : /\ s = Service(n) /\ s = In("Service", x)
                                  /\ "Service" \notin Tags(x) /\ Tags(s) \subseteq ServiceTags
    BY ServiceSent
  <1>5. PICK in : in = IF e.serviceFirst THEN s \o calls ELSE calls \o s
    OBVIOUS
  <1>6. in \in Documents /\ Tags(in) = Tags(calls) \cup Tags(s)
    <2>1. s \o calls \in Documents /\ Tags(s \o calls) = Tags(s) \cup Tags(calls)
      BY <1>3, <1>4, Joined
    <2>2. calls \o s \in Documents /\ Tags(calls \o s) = Tags(calls) \cup Tags(s)
      BY <1>3, <1>4, Joined
    <2> QED
      BY <1>5, <2>1, <2>2
  <1>7. "Service" \in Elements /\ "StopEvent" \in Elements
    BY DEF Elements
  <1>8. FirstBlock(in, "ThisCall", t)
    <2>1. Clear(s, "ThisCall")
      BY <1>4 DEF Clear, BeginsWith, ServiceTags
    <2>2. FirstBlock(s \o calls, "ThisCall", t)
      BY <1>3, <1>4, <2>1, BlockAfter
    <2>3. FirstBlock(calls \o s, "ThisCall", t)
      BY <1>3, <1>4, BlockBefore
    <2> QED
      BY <1>5, <2>2, <2>3
  <1>9. PICK y \in Documents : Tags(y) \subseteq CallsTags /\ FirstBlock(in, "Service", y \o s)
    <2>1. CASE e.serviceFirst
      <3>1. FirstBlock(s, "Service", s)
        BY <1>4, <1>7, BlockWhole
      <3>2. FirstBlock(s \o calls, "Service", s)
        BY <1>3, <1>4, <3>1, BlockBefore
      <3>3. <<>> \o s = s
        BY <1>4, ConcatEmptySeq DEF Documents
      <3>4. <<>> \in Documents /\ Tags(<<>>) \subseteq CallsTags
        BY Single
      <3>5. FirstBlock(in, "Service", <<>> \o s)
        BY <1>5, <2>1, <3>2, <3>3
      <3> QED
        BY <3>4, <3>5
    <2>2. CASE ~e.serviceFirst
      <3>1. PICK i \in 1 .. Len(calls) : Opens(calls[i], "Service")
        BY <1>3
      <3>2. "Service" \notin Tags(calls)
        BY <1>3 DEF CallsTags, CallTags
      <3>3. PICK y \in Documents :
              Tags(y) \subseteq Tags(calls) /\ FirstBlock(calls \o In("Service", x), "Service", y \o In("Service", x))
        BY <1>3, <1>4, <1>7, <3>1, <3>2, BlockOpenedBefore
      <3>4. FirstBlock(in, "Service", y \o s)
        BY <1>4, <1>5, <2>2, <3>3
      <3> QED
        BY <1>3, <3>3, <3>4
    <2> QED
      BY <2>1, <2>2
  <1>10. "StopEvent" \notin Tags(in) /\ "StopEventResult" \notin Tags(in)
    BY <1>3, <1>4, <1>6 DEF CallsTags, CallTags, ServiceTags
  <1>11. PICK r : r = In("StopEvent", in)
    OBVIOUS
  <1>12. PICK event \in Documents :
           /\ FirstBlock(In("StopEventResult", r), "StopEvent", event)
           /\ \A b : FirstBlock(in, "Service", b) => FirstBlock(event, "Service", b)
           /\ \A b : FirstBlock(in, "ThisCall", b) => FirstBlock(event, "ThisCall", b)
    BY <1>6, <1>10, <1>11, EventCut
  <1>13. Result(n, e) = In("StopEventResult", r)
    BY <1>1, <1>2, <1>4, <1>5, <1>11
  <1>14. r \in Documents /\ "StopEventResult" \notin Tags(r)
    BY <1>6, <1>7, <1>10, <1>11, Element
  <1>15. /\ FirstBlock(event, "Service", y \o Service(n))
         /\ FirstBlock(event, "ThisCall", In("ThisCall", Call(n, "this", e)))
    BY <1>2, <1>4, <1>8, <1>9, <1>12
  <1>16. \E d \in Documents : Result(n, e) = In("StopEventResult", d) /\ "StopEventResult" \notin Tags(d)
    BY <1>13, <1>14
  <1> QED
    BY <1>9, <1>12, <1>13, <1>15, <1>16

\* A result without a service has an event in which no service is found.
LEMMA IncompleteRead ==
    ASSUME NEW n \in Nat
    PROVE  \E event \in Documents :
             /\ FirstBlock(Result(n, Incomplete), "StopEvent", event)
             /\ "Service" \notin Tags(event)
             /\ \E in \in Documents : /\ Result(n, Incomplete) = In("StopEventResult", in)
                                      /\ "StopEventResult" \notin Tags(in)
  <1>1. PICK o, c, in, r : /\ o = Open("ServiceDeparture") /\ c = Close("ServiceDeparture")
                           /\ in = o \o c /\ r = In("StopEvent", in)
    OBVIOUS
  <1>2. "ServiceDeparture" \in Elements /\ "StopEvent" \in Elements
    BY DEF Elements
  <1>3. /\ o \in Documents /\ Tags(o) = {"ServiceDeparture"}
        /\ c \in Documents /\ Tags(c) = {"ServiceDeparture"}
    BY <1>1, <1>2, Single
  <1>4. in \in Documents /\ Tags(in) = Tags(o) \cup Tags(c)
    BY <1>1, <1>3, Joined
  <1>5. r \in Documents /\ Tags(r) = {"StopEvent"} \cup Tags(in)
    BY <1>1, <1>2, <1>4, Element
  <1>6. Result(n, Incomplete) = In("StopEventResult", r)
    BY <1>1 DEF Result
  <1>7. "StopEvent" \notin Tags(in)
    BY <1>3, <1>4
  <1>8. PICK event \in Documents :
          /\ FirstBlock(In("StopEventResult", r), "StopEvent", event)
          /\ Tags(event) \subseteq {"StopEventResult", "StopEvent"} \cup Tags(in)
    BY <1>1, <1>4, <1>7, EventCut
  <1>9. "Service" \notin Tags(event) /\ "StopEventResult" \notin Tags(r)
    BY <1>3, <1>4, <1>5, <1>8
  <1>10. \E d \in Documents : /\ Result(n, Incomplete) = In("StopEventResult", d)
                              /\ "StopEventResult" \notin Tags(d)
    BY <1>5, <1>6, <1>9
  <1> QED
    BY <1>6, <1>8, <1>9, <1>10

----
(* The rows.                                                               *)

\* The row of a result tells what the result says.
LEMMA RowRead ==
    ASSUME NEW n \in Nat, published[n] \in StopEvents,
           NEW event \in Documents, NEW y \in Documents, Tags(y) \subseteq CallsTags,
           FirstBlock(event, "ThisCall", In("ThisCall", Call(n, "this", published[n])))
    PROVE  Row(event, y \o Service(n)) = Told(n)
  <1>0. PICK e \in StopEvents : e = published[n]
    OBVIOUS
  <1>1. PICK c, t, s : /\ e = published[n] /\ c = Call(n, "this", e)
                       /\ t = In("ThisCall", c) /\ s = y \o Service(n)
    BY <1>0
  <1> DEFINE M(what) == <<n, "this", what>>
             S(what) == <<n, "service", what>>
  <1>2. /\ c \in Documents
        /\ FirstBlock(t, "CallAtStop", c)
        /\ \E dep : /\ FirstBlock(c, "ServiceDeparture", dep)
                    /\ TextOf(dep, "TimetabledTime") = M("timetabled")
                    /\ TextOf(dep, "EstimatedTime") = IF e.late # None THEN M("estimated") ELSE None
        /\ LangTextOf(c, "PlannedQuay") = IF e.planned # None THEN M("planned") ELSE None
        /\ LangTextOf(c, "EstimatedQuay") = IF e.estimated # None THEN M("estimatedQuay") ELSE None
    <2>1. "this" \in {"previous", "this", "onward"}
      OBVIOUS
    <2> HIDE DEF M
    <2>2. /\ Call(n, "this", e) \in Documents
          /\ FirstBlock(In("ThisCall", Call(n, "this", e)), "CallAtStop", Call(n, "this", e))
          /\ \E dep : /\ FirstBlock(Call(n, "this", e), "ServiceDeparture", dep)
                      /\ TextOf(dep, "TimetabledTime") = M("timetabled")
                      /\ TextOf(dep, "EstimatedTime") =
                           IF e.late # None THEN M("estimated") ELSE None
          /\ LangTextOf(Call(n, "this", e), "PlannedQuay") =
               IF e.planned # None THEN M("planned") ELSE None
          /\ LangTextOf(Call(n, "this", e), "EstimatedQuay") =
               IF e.estimated # None THEN M("estimatedQuay") ELSE None
      BY <2>1, CallRead DEF M
    <2> QED
      BY <1>1, <2>2
  <1>3. PICK dep : /\ FirstBlock(c, "ServiceDeparture", dep)
                   /\ TextOf(dep, "TimetabledTime") = M("timetabled")
                   /\ TextOf(dep, "EstimatedTime") = IF e.late # None THEN M("estimated") ELSE None
    BY <1>2
  <1>4. /\ LangTextOf(s, "DestinationText") = S("to")
        /\ LangTextOf(s, "PublishedServiceName") = S("number")
        /\ BlocksOf(s, "Mode") # <<>>
        /\ LangTextOf(BlocksOf(s, "Mode")[1], "ShortName") = S("category")
        /\ TextOf(s, "OperatingDayRef") = S("day")
        /\ TextOf(s, "JourneyRef") = S("journey")
        /\ TextOf(s, "TrainNumber") = S("train")
        /\ TextOf(s, "OperatorRef") = S("operator")
    BY <1>1, ServiceRead
  <1>5. BlocksOf(event, "ThisCall") # <<>> /\ BlocksOf(event, "ThisCall")[1] = t /\ t \in Documents
    BY <1>1, BlockRead
  <1>6. FirstOr(t, "CallAtStop", t) = c
    BY <1>2, <1>5, BlockRead DEF FirstOr
  <1>7. FirstOr(c, "ServiceDeparture", c) = dep
    BY <1>2, <1>3, BlockRead DEF FirstOr
  <1>8. /\ M("estimated") # None /\ M("planned") # None /\ M("estimatedQuay") # None
    <2>1. /\ M("estimated") \in Meanings /\ M("planned") \in Meanings
          /\ M("estimatedQuay") \in Meanings
      BY DEF Meanings
    <2> QED
      BY <2>1, BlocksAssumption
  <1>9. /\ Late(M("estimated")) = e.late
        /\ Quay(M("planned")) = e.planned /\ Quay(M("estimatedQuay")) = e.estimated
    BY <1>1 DEF Late, Quay
  <1> HIDE DEF M, S
  <1>10. PICK m, pl, es : /\ m = TextOf(dep, "EstimatedTime")
                          /\ pl = LangTextOf(c, "PlannedQuay") /\ es = LangTextOf(c, "EstimatedQuay")
    OBVIOUS
  <1>11. (IF m # None THEN Delay(Late(m)) ELSE None) = IF e.late = None THEN None ELSE Delay(e.late)
    BY <1>3, <1>8, <1>9, <1>10
  <1>12. (IF es # None THEN es ELSE pl) = IF e.estimated # None THEN M("estimatedQuay")
                                          ELSE IF e.planned # None THEN M("planned") ELSE None
    BY <1>2, <1>8, <1>10
  <1>13. (es # None /\ (pl = None \/ Quay(es) # Quay(pl)))
           = (e.estimated # None /\ e.estimated # e.planned)
    <2>1. CASE e.estimated = None
      BY <1>2, <1>10, <2>1
    <2>2. CASE e.estimated # None /\ e.planned = None
      BY <1>2, <1>8, <1>10, <2>2
    <2>3. CASE e.estimated # None /\ e.planned # None
      BY <1>2, <1>8, <1>9, <1>10, <2>3
    <2> QED
      BY <2>1, <2>2, <2>3
  <1>14. Row(event, s) =
           [to        |-> S("to"),
            category  |-> S("category"),
            number    |-> S("number"),
            trainNumber |-> S("train"),
            operator  |-> S("operator"),
            journey   |-> <<S("day"), S("journey")>>,
            departure |-> M("timetabled"),
            delay     |-> IF m # None THEN Delay(Late(m)) ELSE None,
            platform  |-> IF es # None THEN es ELSE pl,
            platformChanged |-> es # None /\ (pl = None \/ Quay(es) # Quay(pl))]
    BY <1>3, <1>4, <1>5, <1>6, <1>7, <1>10 DEF Row
  <1>15. Told(n) =
           [to        |-> S("to"),
            category  |-> S("category"),
            number    |-> S("number"),
            trainNumber |-> S("train"),
            operator  |-> S("operator"),
            journey   |-> <<S("day"), S("journey")>>,
            departure |-> M("timetabled"),
            delay     |-> IF e.late = None THEN None ELSE Delay(e.late),
            platform  |-> IF e.estimated # None THEN M("estimatedQuay")
                          ELSE IF e.planned # None THEN M("planned") ELSE None,
            platformChanged |-> e.estimated # None /\ e.estimated # e.planned]
    BY <1>1 DEF Told, M, S
  <1> QED
    BY <1>1, <1>11, <1>12, <1>13, <1>14, <1>15

\* Each result that begins in a document also ends in it.
Ended(x) == \A i \in 1 .. Len(x) : Opens(x[i], "StopEventResult") =>
               \E j \in 1 .. Len(x) : i <= j /\ Closes(x[j], "StopEventResult")

\* Another result is cut out of a document behind those before it.
LEMMA ResultAppended ==
    ASSUME NEW x \in Documents, Ended(x),
           NEW in \in Documents, "StopEventResult" \notin Tags(in)
    PROVE  /\ Ended(x \o In("StopEventResult", in))
           /\ \E N \in Nat :
                /\ DOMAIN BlocksOf(x, "StopEventResult") = 1 .. N
                /\ BlocksOf(x \o In("StopEventResult", in), "StopEventResult")
                     = [n \in 1 .. N + 1 |-> IF n <= N THEN BlocksOf(x, "StopEventResult")[n]
                                             ELSE In("StopEventResult", in)]
  <1> DEFINE tag == "StopEventResult"
  <1>1. PICK z, w, L, M : /\ z = In(tag, in) /\ w = x \o z /\ L = Len(x) /\ M = Len(z)
    OBVIOUS
  <1>2. tag \in Elements
    BY DEF Elements
  <1>3. /\ z \in Documents /\ Len(in) \in Nat /\ M = Len(in) + 2
        /\ z[1] = [kind |-> "open", tag |-> tag, means |-> None]
        /\ z[M] = [kind |-> "close", tag |-> tag, means |-> None]
        /\ \A i \in 1 .. Len(in) : z[i + 1] = in[i]
    <2>1. /\ In(tag, in) \in Documents /\ Len(in) \in Nat /\ Len(In(tag, in)) = Len(in) + 2
          /\ In(tag, in)[1] = Open(tag)[1] /\ In(tag, in)[Len(in) + 2] = Close(tag)[1]
          /\ \A i \in 1 .. Len(in) : In(tag, in)[i + 1] = in[i]
      BY <1>2, Element
    <2> QED
      BY <1>1, <1>2, <2>1, Single
  <1>4. /\ w \in Documents /\ L \in Nat /\ M \in Nat /\ M > 1 /\ Len(w) = L + M
        /\ \A i \in 1 .. L : w[i] = x[i]
        /\ \A i \in 1 .. M : w[L + i] = z[i]
    <2>1. /\ x \o z \in Documents /\ Len(x) \in Nat /\ Len(z) \in Nat /\ Len(x \o z) = Len(x) + Len(z)
          /\ \A i \in 1 .. Len(x) : (x \o z)[i] = x[i]
          /\ \A i \in 1 .. Len(z) : (x \o z)[Len(x) + i] = z[i]
      BY <1>3, Joined
    <2> QED
      BY <1>1, <1>3, <2>1
  <1>5. /\ Opens(z[1], tag) /\ ~Closes(z[1], tag)
        /\ Closes(z[M], tag) /\ ~Opens(z[M], tag)
    BY <1>3 DEF Opens, Closes, BeginsWith
  <1>6. \A i \in 1 .. M : i # 1 /\ i # M => ~Opens(z[i], tag) /\ ~Closes(z[i], tag)
    <2> SUFFICES ASSUME NEW i \in 1 .. M, i # 1, i # M
                 PROVE  ~Opens(z[i], tag) /\ ~Closes(z[i], tag)
      OBVIOUS
    <2>1. PICK k : k = i - 1
      OBVIOUS
    <2>2. k \in 1 .. Len(in) /\ i = k + 1
      BY <1>3, <2>1
    <2>3. in[k].tag \in Tags(in)
      BY <2>2 DEF Tags
    <2>4. in[k].tag # tag
      BY <2>3
    <2>5. z[i] = in[k]
      BY <1>3, <2>2
    <2> QED
      BY <2>4, <2>5 DEF Opens, Closes, BeginsWith
  <1> HIDE DEF tag
  <1>7. PICK ox, cx, ow, cw : /\ ox = {k \in 1 .. L : Opens(x[k], tag)}
                              /\ cx = {k \in 1 .. L : Closes(x[k], tag)}
                              /\ ow = {k \in 1 .. L + M : Opens(w[k], tag)}
                              /\ cw = {k \in 1 .. L + M : Closes(w[k], tag)}
    OBVIOUS
  <1>8. \A k \in 1 .. L + M :
          \/ k \in 1 .. L /\ w[k] = x[k]
          \/ k - L \in 1 .. M /\ k \notin 1 .. L /\ w[k] = z[k - L]
    <2> SUFFICES ASSUME NEW k \in 1 .. L + M, k \notin 1 .. L
                 PROVE  k - L \in 1 .. M /\ w[k] = z[k - L]
      BY <1>4
    <2>1. PICK i : i = k - L
      OBVIOUS
    <2>2. i \in 1 .. M /\ k = L + i
      BY <1>4, <2>1
    <2> QED
      BY <1>4, <2>1, <2>2
  <1>9. /\ L + 1 \in 1 .. L + M /\ L + 1 \notin 1 .. L /\ w[L + 1] = z[1]
        /\ L + M \in 1 .. L + M /\ L + M \notin 1 .. L /\ w[L + M] = z[M]
    BY <1>4
  <1>10. ow = ox \cup {L + 1}
    <2>1. \A k \in 1 .. L : k \in 1 .. L + M
      BY <1>4
    <2>2. \A k \in ox \cup {L + 1} : k \in ow
      BY <1>4, <1>5, <1>7, <1>9, <2>1
    <2>3. ASSUME NEW k \in ow
          PROVE  k \in ox \cup {L + 1}
      <3>1. k \in 1 .. L + M /\ Opens(w[k], tag)
        BY <1>7
      <3>2. CASE k \in 1 .. L /\ w[k] = x[k]
        BY <1>7, <3>1, <3>2
      <3>3. CASE k - L \in 1 .. M /\ w[k] = z[k - L]
        <4>1. k - L = 1
          BY <1>5, <1>6, <3>1, <3>3
        <4>2. k = L + 1
          BY <1>4, <3>1, <4>1
        <4> QED
          BY <4>2
      <3> QED
        BY <1>8, <3>1, <3>2, <3>3
    <2> QED
      BY <2>2, <2>3
  <1>11. cw = cx \cup {L + M}
    <2>1. \A k \in 1 .. L : k \in 1 .. L + M
      BY <1>4
    <2>2. \A k \in cx \cup {L + M} : k \in cw
      BY <1>4, <1>5, <1>7, <1>9, <2>1
    <2>3. ASSUME NEW k \in cw
          PROVE  k \in cx \cup {L + M}
      <3>1. k \in 1 .. L + M /\ Closes(w[k], tag)
        BY <1>7
      <3>2. CASE k \in 1 .. L /\ w[k] = x[k]
        BY <1>7, <3>1, <3>2
      <3>3. CASE k - L \in 1 .. M /\ w[k] = z[k - L]
        <4>1. k - L = M
          BY <1>5, <1>6, <3>1, <3>3
        <4>2. k = L + M
          BY <1>4, <3>1, <4>1
        <4> QED
          BY <4>2
      <3> QED
        BY <1>8, <3>1, <3>2, <3>3
    <2> QED
      BY <2>2, <2>3
  <1>12. \A k \in ox : k \in 1 .. L /\ \E j \in cx : j >= k
    <2>1. \A k \in 1 .. L : Opens(x[k], tag) => \E j \in 1 .. L : k <= j /\ Closes(x[j], tag)
      BY <1>1 DEF Ended, tag
    <2>2. \A k \in ox : k \in 1 .. L /\ Opens(x[k], tag)
      BY <1>7
    <2>3. \A j \in 1 .. L : Closes(x[j], tag) => j \in cx
      BY <1>7
    <2> QED
      BY <1>4, <2>1, <2>2, <2>3
  <1>13. \A k \in ow : L + M >= k /\ L + M \in cw
    BY <1>4, <1>7, <1>11
  <1>14. {k \in ox : {j \in cx : j >= k} # {}} = ox /\ {k \in ow : {j \in cw : j >= k} # {}} = ow
    <2>1. {k \in ox : {j \in cx : j >= k} # {}} = ox
      BY <1>12
    <2>2. {k \in ow : {j \in cw : j >= k} # {}} = ow
      BY <1>13
    <2> QED
      BY <2>1, <2>2
  <1>15. PICK N : N = Cardinality(ox)
    OBVIOUS
  <1>16. PICK f : f = FromLeft(ox)
    OBVIOUS
  <1>17. /\ N \in Nat /\ DOMAIN f = 1 .. N /\ \A n \in 1 .. N : f[n] \in ox
         /\ DOMAIN FromLeft(ow) = 1 .. N + 1 /\ FromLeft(ow)[N + 1] = L + 1
         /\ \A n \in 1 .. N : FromLeft(ow)[n] = f[n]
    <2>1. ox \in SUBSET (1 .. L) /\ L \in Nat
      BY <1>4, <1>7
    <2>2. /\ Cardinality(ox) \in Nat
          /\ DOMAIN FromLeft(ox) = 1 .. Cardinality(ox)
          /\ \A n \in 1 .. Cardinality(ox) : FromLeft(ox)[n] \in ox
          /\ DOMAIN FromLeft(ox \cup {L + 1}) = 1 .. Cardinality(ox) + 1
          /\ \A n \in 1 .. Cardinality(ox) : FromLeft(ox \cup {L + 1})[n] = FromLeft(ox)[n]
          /\ FromLeft(ox \cup {L + 1})[Cardinality(ox) + 1] = L + 1
      BY <2>1, LeftAppend
    <2> QED
      BY <1>10, <1>15, <1>16, <2>2
  <1>18. BlocksOf(x, tag) = [n \in 1 .. N |-> SubSeq(x, f[n], Min({j \in cx : j >= f[n]}))]
    <2>1. BlocksOf(x, tag) = Between(x, ox, cx)
      BY <1>1, <1>7 DEF BlocksOf
    <2>2. Between(x, ox, cx) = [n \in DOMAIN f |-> SubSeq(x, f[n], Min({j \in cx : j >= f[n]}))]
      BY <1>14, <1>16 DEF Between
    <2> QED
      BY <1>17, <2>1, <2>2
  <1>19. PICK g : g = FromLeft(ow)
    OBVIOUS
  <1>20. DOMAIN g = 1 .. N + 1 /\ g[N + 1] = L + 1 /\ \A n \in 1 .. N : g[n] = f[n]
    BY <1>17, <1>19
  <1>21. BlocksOf(w, tag) = [n \in 1 .. N + 1 |-> SubSeq(w, g[n], Min({j \in cw : j >= g[n]}))]
    BY <1>4, <1>7, <1>14, <1>19, <1>20 DEF BlocksOf, Between
  <1>22. x \in Seq(Tokens) /\ z \in Seq(Tokens)
    BY <1>3 DEF Documents
  <1>23. ASSUME NEW n \in 1 .. N
         PROVE  SubSeq(w, g[n], Min({j \in cw : j >= g[n]})) = BlocksOf(x, tag)[n]
    <2>1. n \in 1 .. N + 1 /\ n <= N
      BY <1>17
    <2>2. PICK k : k = f[n] /\ k = g[n] /\ k \in ox
      BY <1>17, <1>20, <2>1
    <2>3. PICK ex, ew : ex = {j \in cx : j >= k} /\ ew = {j \in cw : j >= k}
      OBVIOUS
    <2>4. k \in 1 .. L /\ ex # {} /\ ex \subseteq 1 .. L
      BY <1>7, <1>12, <2>2, <2>3
    <2>5. PICK m : m = Min(ex)
      OBVIOUS
    <2>6. m \in ex /\ \A j \in ex : m <= j
      BY <1>4, <2>4, <2>5, Smallest
    <2>7. ew \subseteq 1 .. L + M /\ L + M \in Nat
      BY <1>4, <1>7, <2>3
    <2>8. m \in ew
      BY <1>11, <2>3, <2>6
    <2>9. \A j \in ew : m <= j
      <3> SUFFICES ASSUME NEW j \in ew PROVE m <= j
        OBVIOUS
      <3>1. CASE j \in cx
        BY <2>3, <2>6, <3>1
      <3>2. CASE j = L + M
        BY <1>4, <2>4, <2>6, <3>2
      <3> QED
        BY <1>11, <2>3, <3>1, <3>2
    <2>10. Min(ew) = m
      BY <2>7, <2>8, <2>9, Smallest
    <2>11. SubSeq(w, k, m) = SubSeq(x, k, m)
      <3>1. k \in 1 .. Len(x) /\ m \in 1 .. Len(x)
        BY <1>1, <2>4, <2>6
      <3> QED
        BY <1>1, <1>22, <3>1, SubSeqOfConcat1
    <2>12. BlocksOf(x, tag)[n] = SubSeq(x, k, m)
      BY <1>18, <2>2, <2>3, <2>5
    <2> QED
      BY <2>2, <2>3, <2>10, <2>11, <2>12
  <1>24. SubSeq(w, g[N + 1], Min({j \in cw : j >= g[N + 1]})) = z
    <2>1. g[N + 1] = L + 1
      BY <1>17, <1>20
    <2>2. PICK ew : ew = {j \in cw : j >= L + 1}
      OBVIOUS
    <2>3. ew = {L + M}
      <3>1. \A j \in cx : ~(j >= L + 1)
        BY <1>4, <1>7
      <3>2. L + M >= L + 1
        BY <1>4
      <3> QED
        BY <1>11, <2>2, <3>1, <3>2
    <2>4. ew \subseteq 1 .. L + M /\ L + M \in Nat /\ ew # {}
      BY <1>4, <2>3
    <2>5. Min(ew) \in ew
      BY <2>4, Smallest
    <2>6. Min(ew) = L + M
      BY <2>3, <2>5
    <2>7. /\ L + 1 \in Len(x) + 1 .. Len(x) + Len(z) /\ L + M \in Len(x) + 1 .. Len(x) + Len(z)
          /\ L + 1 - Len(x) = 1 /\ L + M - Len(x) = M
      BY <1>1, <1>4
    <2>8. SubSeq(w, L + 1, L + M) = SubSeq(z, 1, M)
      BY <1>1, <1>22, <2>7, SubSeqOfConcat2
    <2>9. SubSeq(z, 1, M) = z
      BY <1>1, <1>22, SubSeqFull
    <2> QED
      BY <2>1, <2>2, <2>6, <2>8, <2>9
  <1>25. BlocksOf(w, tag) = [n \in 1 .. N + 1 |-> IF n <= N THEN BlocksOf(x, tag)[n] ELSE z]
    <2>1. \A n \in 1 .. N + 1 : (n \in 1 .. N /\ n <= N) \/ (n = N + 1 /\ ~(n <= N))
      BY <1>17
    <2> QED
      BY <1>21, <1>23, <1>24, <2>1
  <1>26. Ended(w)
    <2>1. \A i \in 1 .. Len(w) : i <= L + M
      BY <1>4
    <2>2. L + M \in 1 .. Len(w) /\ Closes(w[L + M], tag)
      BY <1>4, <1>5, <1>9
    <2> QED
      BY <2>1, <2>2 DEF Ended, tag
  <1>27. DOMAIN BlocksOf(x, tag) = 1 .. N
    BY <1>18
  <1> QED
    BY <1>1, <1>17, <1>25, <1>26, <1>27 DEF tag

\* The results among the first k that have a service, and the rows they make.
Complete(k) == {n \in 1 .. k : published[n] # Incomplete}
AllTold(k) == [i \in DOMAIN FromLeft(Complete(k)) |-> Told(FromLeft(Complete(k))[i])]

\* Before the answer is cut every result in it can be cut out; after that the blocks left are
\* those of the last results, and the rows those of the others.
BlocksInv ==
    /\ BlocksTypeOK
    /\ results = None =>
         /\ rows = <<>> /\ Ended(document)
         /\ BlocksOf(document, "StopEventResult")
              = [n \in 1 .. Len(published) |-> Result(n, published[n])]
    /\ results # None =>
         /\ Len(results) <= Len(published)
         /\ \A n \in 1 .. Len(results) :
              results[n] = Result(Len(published) - Len(results) + n,
                                  published[Len(published) - Len(results) + n])
         /\ rows = AllTold(Len(published) - Len(results))

\* A result without a service adds no row, any other one its own.
LEMMA ToldNext ==
    ASSUME NEW k \in Nat
    PROVE  /\ Complete(0) = {} /\ AllTold(0) = <<>>
           /\ AllTold(k) \in Seq({Told(n) : n \in Nat})
           /\ published[k + 1] = Incomplete => AllTold(k + 1) = AllTold(k)
           /\ published[k + 1] # Incomplete => AllTold(k + 1) = Append(AllTold(k), Told(k + 1))
  <1>1. Complete(0) = {}
    BY DEF Complete
  <1>2. AllTold(0) = <<>>
    <2>1. Cardinality(Complete(0)) = 0
      BY <1>1, FS_EmptySet
    <2>2. DOMAIN FromLeft(Complete(0)) = {}
      BY <2>1 DEF FromLeft
    <2> QED
      BY <2>2 DEF AllTold
  <1>3. PICK C : C = Complete(k)
    OBVIOUS
  <1>4. k \in Nat /\ C \in SUBSET (1 .. k)
    BY <1>3 DEF Complete
  <1>5. PICK N : N = Cardinality(C)
    OBVIOUS
  <1>6. /\ N \in Nat
        /\ DOMAIN FromLeft(C) = 1 .. N
        /\ \A n \in 1 .. N : FromLeft(C)[n] \in C
        /\ DOMAIN FromLeft(C \cup {k + 1}) = 1 .. N + 1
        /\ \A n \in 1 .. N : FromLeft(C \cup {k + 1})[n] = FromLeft(C)[n]
        /\ FromLeft(C \cup {k + 1})[N + 1] = k + 1
    <2>1. /\ Cardinality(C) \in Nat
          /\ DOMAIN FromLeft(C) = 1 .. Cardinality(C)
          /\ \A n \in 1 .. Cardinality(C) : FromLeft(C)[n] \in C
          /\ DOMAIN FromLeft(C \cup {k + 1}) = 1 .. Cardinality(C) + 1
          /\ \A n \in 1 .. Cardinality(C) : FromLeft(C \cup {k + 1})[n] = FromLeft(C)[n]
          /\ FromLeft(C \cup {k + 1})[Cardinality(C) + 1] = k + 1
      BY <1>4, LeftAppend
    <2> QED
      BY <1>5, <2>1
  <1>7. PICK f : f = FromLeft(C)
    OBVIOUS
  <1>8. AllTold(k) = [i \in 1 .. N |-> Told(f[i])]
    BY <1>3, <1>6, <1>7 DEF AllTold
  <1>9. \A i \in 1 .. N : f[i] \in Nat
    <2> SUFFICES ASSUME NEW i \in 1 .. N
                 PROVE  f[i] \in Nat
      OBVIOUS
    <2>1. f[i] \in C
      BY <1>6, <1>7
    <2>2. f[i] \in 1 .. k
      BY <1>4, <2>1
    <2> QED
      BY <1>4, <2>2
  <1>10. PICK S : S = {Told(n) : n \in Nat}
    OBVIOUS
  <1>11. AllTold(k) \in Seq(S) /\ Len(AllTold(k)) = N
    <2>1. PICK a : a = AllTold(k)
      OBVIOUS
    <2>2. \A i \in 1 .. N : Told(f[i]) \in S
      BY <1>9, <1>10
    <2>3. a \in [1 .. N -> S]
      BY <1>8, <2>1, <2>2
    <2> QED
      BY <1>6, <2>1, <2>3
  <1>12. ASSUME published[k + 1] = Incomplete
         PROVE  AllTold(k + 1) = AllTold(k)
    <2>1. Complete(k + 1) = Complete(k)
      <3>1. 1 .. k + 1 = (1 .. k) \cup {k + 1}
        OBVIOUS
      <3> QED
        BY <1>12, <3>1 DEF Complete
    <2> QED
      BY <2>1 DEF AllTold
  <1>13. ASSUME published[k + 1] # Incomplete
         PROVE  AllTold(k + 1) = Append(AllTold(k), Told(k + 1))
    <2>1. Complete(k + 1) = C \cup {k + 1}
      <3>1. 1 .. k + 1 = (1 .. k) \cup {k + 1}
        OBVIOUS
      <3> QED
        BY <1>3, <1>13, <3>1 DEF Complete
    <2>2. PICK g : g = FromLeft(C \cup {k + 1})
      OBVIOUS
    <2>3. DOMAIN g = 1 .. N + 1 /\ g[N + 1] = k + 1 /\ \A i \in 1 .. N : g[i] = f[i]
      BY <1>6, <1>7, <2>2
    <2>4. AllTold(k + 1) = [i \in 1 .. N + 1 |-> Told(g[i])]
      BY <2>1, <2>2, <2>3 DEF AllTold
    <2>5. PICK a, b, t : a = AllTold(k) /\ b = AllTold(k + 1) /\ t = Told(k + 1)
      OBVIOUS
    <2>6. t \in S /\ a \in Seq(S) /\ Len(a) = N
      BY <1>10, <1>11, <2>5
    <2>7. /\ Append(a, t) \in Seq(S) /\ Len(Append(a, t)) = N + 1
          /\ \A i \in 1 .. N : Append(a, t)[i] = a[i]
          /\ Append(a, t)[N + 1] = t
      BY <2>6, AppendProperties
    <2>8. \A i \in 1 .. N + 1 : (i \in 1 .. N) \/ i = N + 1
      BY <1>6
    <2>9. \A i \in 1 .. N : i \in 1 .. N + 1
      BY <1>6
    <2>10. N + 1 \in 1 .. N + 1
      BY <1>6
    <2>11. \A i \in 1 .. N : b[i] = a[i]
      BY <1>8, <2>3, <2>4, <2>5, <2>9
    <2>12. b[N + 1] = t
      BY <2>3, <2>4, <2>5, <2>10
    <2>13. b \in [1 .. N + 1 -> S]
      <3>1. DOMAIN b = 1 .. N + 1 /\ b = [i \in 1 .. N + 1 |-> b[i]]
        BY <2>4, <2>5
      <3>2. \A i \in 1 .. N : a[i] \in S
        BY <2>6
      <3>3. \A i \in 1 .. N + 1 : b[i] \in S
        BY <2>6, <2>8, <2>11, <2>12, <3>2
      <3> QED
        BY <3>1, <3>3
    <2>14. b \in Seq(S) /\ Len(b) = N + 1
      BY <1>6, <2>13
    <2>15. b = Append(a, t)
      BY <2>7, <2>8, <2>11, <2>12, <2>14, SeqEqual
    <2> QED
      BY <2>5, <2>15
  <1> QED
    BY <1>1, <1>2, <1>10, <1>11, <1>12, <1>13

\* Nothing has been published at first.
LEMMA BlocksStart == BlocksInit => BlocksInv
  <1> SUFFICES ASSUME BlocksInit
               PROVE  BlocksInv
    OBVIOUS
  <1>1. published = <<>> /\ document = <<>> /\ results = None /\ rows = <<>>
    BY DEF BlocksInit
  <1>2. Len(published) = 0 /\ published \in Seq(StopEvents \cup {Incomplete})
    BY <1>1, EmptySeq
  <1>3. document \in Documents /\ Tags(document) = {} /\ Len(document) = 0
    BY <1>1, Single
  <1>4. BlocksTypeOK
    BY <1>1, <1>2, <1>3, BlocksAssumption DEF BlocksTypeOK
  <1>5. BlocksOf(document, "StopEventResult") = <<>>
    BY <1>3, NoBlock
  <1>6. Ended(document)
    BY <1>3 DEF Ended
  <1>7. [n \in 1 .. Len(published) |-> Result(n, published[n])] = <<>>
    BY <1>2
  <1> QED
    BY <1>1, <1>4, <1>5, <1>6, <1>7 DEF BlocksInv

\* Another result is published.
LEMMA PublishKeeps ==
    ASSUME BlocksInv, NEW e \in StopEvents \cup {Incomplete}, Publish(e)
    PROVE  BlocksInv'
  <1>1. PICK N, pub, doc : N = Len(published) /\ pub = published /\ doc = document
    OBVIOUS
  <1>2. /\ results = None /\ results' = None /\ rows = <<>> /\ rows' = <<>>
        /\ N < MAX_RESULTS
        /\ published' = Append(pub, e)
        /\ document' = doc \o Result(N + 1, e)
    BY <1>1 DEF Publish, BlocksInv
  <1>3. /\ pub \in Seq(StopEvents \cup {Incomplete}) /\ doc \in Documents /\ Ended(doc)
        /\ BlocksOf(doc, "StopEventResult") = [n \in 1 .. N |-> Result(n, pub[n])]
    BY <1>1, <1>2 DEF BlocksInv, BlocksTypeOK
  <1>4. N \in Nat /\ N = Len(pub)
    BY <1>1, <1>3, LenProperties
  <1>5. PICK new : new = Append(pub, e)
    OBVIOUS
  <1>6. /\ new \in Seq(StopEvents \cup {Incomplete}) /\ Len(new) = N + 1
        /\ \A n \in 1 .. N : new[n] = pub[n]
        /\ new[N + 1] = e
    BY <1>3, <1>4, <1>5, AppendProperties
  <1>7. PICK in \in Documents : /\ Result(N + 1, e) = In("StopEventResult", in)
                                /\ "StopEventResult" \notin Tags(in)
    <2>1. N + 1 \in Nat
      BY <1>4
    <2>2. CASE e = Incomplete
      BY <2>1, <2>2, IncompleteRead
    <2>3. CASE e # Incomplete
      <3>1. e \in StopEvents
        BY <2>3
      <3> QED
        BY <2>1, <2>3, <3>1, ResultRead
    <2> QED
      BY <2>2, <2>3
  <1>8. PICK z, w : z = In("StopEventResult", in) /\ w = doc \o z
    OBVIOUS
  <1>9. w \in Documents
    <2>1. "StopEventResult" \in Elements
      BY DEF Elements
    <2>2. z \in Documents
      BY <1>8, <2>1, Element
    <2> QED
      BY <1>3, <1>8, <2>2, Joined
  <1>10. /\ Ended(doc \o In("StopEventResult", in))
         /\ \E M \in Nat :
              /\ DOMAIN BlocksOf(doc, "StopEventResult") = 1 .. M
              /\ BlocksOf(doc \o In("StopEventResult", in), "StopEventResult")
                   = [n \in 1 .. M + 1 |-> IF n <= M THEN BlocksOf(doc, "StopEventResult")[n]
                                           ELSE In("StopEventResult", in)]
    BY <1>3, <1>7, ResultAppended
  <1>11. PICK M \in Nat :
           /\ DOMAIN BlocksOf(doc, "StopEventResult") = 1 .. M
           /\ BlocksOf(doc \o In("StopEventResult", in), "StopEventResult")
                = [n \in 1 .. M + 1 |-> IF n <= M THEN BlocksOf(doc, "StopEventResult")[n]
                                        ELSE In("StopEventResult", in)]
    BY <1>10
  <1>12. M = N
    <2>1. 1 .. M = 1 .. N
      BY <1>3, <1>11
    <2>2. M > N => M \in 1 .. M /\ M \notin 1 .. N
      BY <1>4
    <2>3. N > M => N \in 1 .. N /\ N \notin 1 .. M
      BY <1>4
    <2> QED
      BY <1>4, <2>1, <2>2, <2>3
  <1>13. BlocksOf(w, "StopEventResult") = [n \in 1 .. N + 1 |-> Result(n, new[n])]
    <2>1. \A n \in 1 .. N + 1 : (n \in 1 .. N /\ n <= N) \/ (n = N + 1 /\ ~(n <= N))
      BY <1>4
    <2>2. \A n \in 1 .. N : BlocksOf(doc, "StopEventResult")[n] = Result(n, new[n])
      BY <1>3, <1>6
    <2>3. z = Result(N + 1, new[N + 1])
      BY <1>6, <1>7, <1>8
    <2>4. BlocksOf(w, "StopEventResult")
            = [n \in 1 .. N + 1 |-> IF n <= N THEN BlocksOf(doc, "StopEventResult")[n] ELSE z]
      BY <1>8, <1>11, <1>12
    <2> QED
      BY <2>1, <2>2, <2>3, <2>4
  <1>14. published' = new /\ document' = w /\ Len(published') = N + 1
    BY <1>2, <1>5, <1>6, <1>7, <1>8
  <1>15. BlocksTypeOK'
    <2>1. N + 1 <= MAX_RESULTS
      BY <1>2, <1>4, BlocksAssumption
    <2> QED
      BY <1>2, <1>6, <1>9, <1>14, <2>1 DEF BlocksTypeOK
  <1>16. Ended(document')
    BY <1>8, <1>10, <1>14
  <1>17. BlocksOf(document', "StopEventResult") = [n \in 1 .. Len(published') |-> Result(n, published'[n])]
    BY <1>13, <1>14
  <1> QED
    BY <1>2, <1>15, <1>16, <1>17 DEF BlocksInv

\* What upstream sends are documents.
LEMMA ResultSent ==
    ASSUME NEW n \in Nat, NEW e \in StopEvents \cup {Incomplete}
    PROVE  Result(n, e) \in Documents
  <1>1. \E in \in Documents : Result(n, e) = In("StopEventResult", in)
    <2>1. CASE e = Incomplete
      BY <2>1, IncompleteRead
    <2>2. CASE e # Incomplete
      <3>1. e \in StopEvents
        BY <2>2
      <3> QED
        BY <2>2, <3>1, ResultRead
    <2> QED
      BY <2>1, <2>2
  <1>2. "StopEventResult" \in Elements
    BY DEF Elements
  <1> QED
    BY <1>1, <1>2, Element

\* The answer is cut into its results.
LEMMA CutKeeps ==
    ASSUME BlocksInv, Cut
    PROVE  BlocksInv'
  <1>1. PICK N, pub : N = Len(published) /\ pub = published
    OBVIOUS
  <1>2. PICK r : r = [n \in 1 .. N |-> Result(n, pub[n])]
    OBVIOUS
  <1>3. /\ published' = pub /\ document' = document /\ rows' = <<>> /\ results' = r
        /\ pub \in Seq(StopEvents \cup {Incomplete}) /\ N <= MAX_RESULTS /\ document \in Documents
    BY <1>1, <1>2 DEF Cut, BlocksInv, BlocksTypeOK
  <1>4. N \in Nat /\ N = Len(pub)
    BY <1>1, <1>3, LenProperties
  <1>5. \A n \in 1 .. N : Result(n, pub[n]) \in Documents
    <2> SUFFICES ASSUME NEW n \in 1 .. N
                 PROVE  Result(n, pub[n]) \in Documents
      OBVIOUS
    <2>1. n \in Nat /\ pub[n] \in StopEvents \cup {Incomplete}
      BY <1>3, <1>4, ElementOfSeq
    <2> QED
      BY <2>1, ResultSent
  <1>6. r \in [1 .. N -> Documents]
    BY <1>2, <1>5
  <1>7. r \in Seq(Documents) /\ Len(r) = N
    BY <1>4, <1>6
  <1>8. r # None
    BY <1>7, BlocksAssumption
  <1>9. Len(rows') = 0 /\ Len(rows') + Len(r) <= Len(published')
    BY <1>3, <1>4, <1>7, EmptySeq
  <1>10. BlocksTypeOK'
    BY <1>1, <1>3, <1>4, <1>7, <1>9 DEF BlocksTypeOK
  <1>11. Len(published') - Len(results') = 0
    BY <1>1, <1>3, <1>4, <1>7
  <1>12. \A n \in 1 .. Len(results') : /\ n \in 1 .. N /\ 0 + n = n
                                       /\ results'[n] = Result(n, published'[n])
    BY <1>2, <1>3, <1>4, <1>7
  <1>13. rows' = AllTold(0)'
    <2>1. 0 \in Nat
      OBVIOUS
    <2>2. Complete(0)' = {}
      BY DEF Complete
    <2>3. AllTold(0)' = <<>>
      <3>1. Cardinality(Complete(0)') = 0
        BY <2>2, FS_EmptySet
      <3>2. DOMAIN FromLeft(Complete(0)') = {}
        BY <3>1 DEF FromLeft
      <3> QED
        BY <3>2 DEF AllTold
    <2> QED
      BY <1>3, <2>3
  <1>14. \A n \in 1 .. Len(results') :
           results'[n] = Result(Len(published') - Len(results') + n,
                                published'[Len(published') - Len(results') + n])
    BY <1>11, <1>12
  <1>15. rows' = AllTold(Len(published) - Len(results))'
    BY <1>11, <1>13
  <1>16. Len(results') <= Len(published')
    BY <1>1, <1>3, <1>4, <1>7
  <1> QED
    BY <1>3, <1>8, <1>10, <1>14, <1>15, <1>16 DEF BlocksInv

\* A round of the loop reads the next result.
LEMMA ReadKeeps ==
    ASSUME BlocksInv, ReadResult
    PROVE  BlocksInv'
  <1>1. PICK N, K, k, pub, res, old :
          /\ N = Len(published) /\ K = Len(results) /\ k = N - K
          /\ pub = published /\ res = results /\ old = rows
    OBVIOUS
  <1>2. /\ published' = pub /\ document' = document /\ results' = Tail(res)
        /\ pub \in Seq(StopEvents \cup {Incomplete}) /\ N <= MAX_RESULTS /\ document \in Documents
        /\ res \in Seq(Documents) /\ res # <<>> /\ Len(old) + K <= N
        /\ K <= N
        /\ \A n \in 1 .. K : res[n] = Result(k + n, pub[k + n])
        /\ old = AllTold(k)
    BY <1>1 DEF ReadResult, BlocksInv, BlocksTypeOK
  <1>3. N \in Nat /\ N = Len(pub) /\ K \in Nat /\ K = Len(res) /\ K >= 1
    <2>1. Len(pub) \in Nat /\ Len(res) \in Nat
      BY <1>2, LenProperties
    <2>2. Len(res) # 0
      BY <1>2, EmptySeq
    <2> QED
      BY <1>1, <2>1, <2>2
  <1>4. k \in Nat /\ k + 1 \in 1 .. N
    BY <1>1, <1>2, <1>3
  <1>5. pub[k + 1] \in StopEvents \cup {Incomplete}
    BY <1>2, <1>3, <1>4, ElementOfSeq
  <1>6. res[1] = Result(k + 1, pub[k + 1])
    BY <1>2, <1>3
  <1>7. /\ Tail(res) \in Seq(Documents) /\ Len(Tail(res)) = K - 1
        /\ \A n \in 1 .. K - 1 : Tail(res)[n] = res[n + 1]
    BY <1>2, <1>3, HeadTailProperties
  <1>8. /\ AllTold(k) \in Seq({Told(n) : n \in Nat})
        /\ published[k + 1] = Incomplete => AllTold(k + 1) = AllTold(k)
        /\ published[k + 1] # Incomplete => AllTold(k + 1) = Append(AllTold(k), Told(k + 1))
    BY <1>4, ToldNext
  <1>9. rows' = AllTold(k + 1)
    <2>1. k + 1 \in Nat
      BY <1>4
    <2>2. PICK first : first = res[1] /\ first = results[1]
      BY <1>1
    <2>3. CASE pub[k + 1] = Incomplete
      <3>1. PICK event \in Documents :
              /\ FirstBlock(Result(k + 1, Incomplete), "StopEvent", event)
              /\ "Service" \notin Tags(event)
        BY <2>1, IncompleteRead
      <3>2. first \in Documents /\ FirstBlock(first, "StopEvent", event)
        BY <1>2, <1>3, <1>6, <2>2, <2>3, <3>1, ElementOfSeq
      <3>3. BlocksOf(first, "StopEvent") # <<>> /\ BlocksOf(first, "StopEvent")[1] = event
        BY <3>2, BlockRead
      <3>4. BlocksOf(event, "Service") = <<>>
        BY <3>1, NoBlock
      <3>5. rows' = rows
        BY <2>2, <3>3, <3>4 DEF ReadResult
      <3> QED
        BY <1>1, <1>2, <1>8, <2>3, <3>5
    <2>4. CASE pub[k + 1] # Incomplete
      <3>1. PICK e \in StopEvents : e = pub[k + 1] /\ e # Incomplete
        BY <1>5, <2>4
      <3>2. PICK event, y \in Documents :
              /\ FirstBlock(Result(k + 1, e), "StopEvent", event)
              /\ Tags(y) \subseteq CallsTags
              /\ FirstBlock(event, "Service", y \o Service(k + 1))
              /\ FirstBlock(event, "ThisCall", In("ThisCall", Call(k + 1, "this", e)))
        BY <2>1, <3>1, ResultRead
      <3>3. PICK s : s = y \o Service(k + 1)
        OBVIOUS
      <3>4. first \in Documents /\ FirstBlock(first, "StopEvent", event)
        BY <1>2, <1>3, <1>6, <2>2, <3>1, <3>2, ElementOfSeq
      <3>5. BlocksOf(first, "StopEvent") # <<>> /\ BlocksOf(first, "StopEvent")[1] = event
        BY <3>4, BlockRead
      <3>6. FirstBlock(event, "Service", s)
        BY <3>2, <3>3
      <3>7. BlocksOf(event, "Service") # <<>> /\ BlocksOf(event, "Service")[1] = s
        BY <3>6, BlockRead
      <3>8. rows' = Append(rows, Row(event, s))
        BY <2>2, <3>5, <3>7 DEF ReadResult
      <3>9. published[k + 1] = e
        BY <1>1, <3>1
      <3>10. Row(event, y \o Service(k + 1)) = Told(k + 1)
        <4>1. published[k + 1] \in StopEvents
          BY <3>1, <3>9
        <4>2. FirstBlock(event, "ThisCall", In("ThisCall", Call(k + 1, "this", published[k + 1])))
          BY <3>2, <3>9
        <4> QED
          BY <2>1, <3>2, <4>1, <4>2, RowRead
      <3>11. rows' = Append(old, Told(k + 1))
        BY <1>1, <3>3, <3>8, <3>10
      <3> QED
        BY <1>2, <1>8, <3>1, <3>9, <3>11
    <2> QED
      BY <2>3, <2>4
  <1>10. AllTold(k + 1)' = AllTold(k + 1)
    <2>1. published' = published
      BY <1>1, <1>2
    <2> QED
      BY <2>1 DEF AllTold, Complete, Told
  <1>11. Len(rows') + (K - 1) <= N
    <2>1. Len(old) \in Nat
      BY <1>2, <1>8, LenProperties
    <2>2. Len(AllTold(k + 1)) <= Len(old) + 1
      <3>1. CASE published[k + 1] = Incomplete
        BY <1>2, <1>8, <2>1, <3>1
      <3>2. CASE published[k + 1] # Incomplete
        <4>1. PICK t : t = Told(k + 1)
          OBVIOUS
        <4>2. k + 1 \in Nat
          BY <1>4
        <4>3. PICK S : S = {Told(n) : n \in Nat} /\ t \in S
          BY <4>1, <4>2
        <4>4. old \in Seq(S)
          BY <1>2, <1>8, <4>3
        <4>5. Len(Append(old, t)) = Len(old) + 1
          BY <4>3, <4>4, AppendProperties
        <4> QED
          BY <1>2, <1>8, <2>1, <3>2, <4>1, <4>5
      <3> QED
        BY <3>1, <3>2
    <2>3. Len(AllTold(k + 1)) \in Nat
      <3>1. k + 1 \in Nat
        BY <1>4
      <3>2. AllTold(k + 1) \in Seq({Told(n) : n \in Nat})
        BY <3>1, ToldNext
      <3> QED
        BY <3>2, LenProperties
    <2> QED
      BY <1>2, <1>3, <1>9, <2>1, <2>2, <2>3
  <1>12. Len(published') = N /\ Len(results') = K - 1 /\ N - (K - 1) = k + 1
    BY <1>1, <1>2, <1>3, <1>7
  <1>13. results' # None
    BY <1>2, <1>7, BlocksAssumption
  <1>14. BlocksTypeOK'
    BY <1>1, <1>2, <1>7, <1>11, <1>12 DEF BlocksTypeOK
  <1>15. \A n \in 1 .. Len(results') :
           results'[n] = Result(Len(published') - Len(results') + n,
                                published'[Len(published') - Len(results') + n])
    <2>1. \A n \in 1 .. K - 1 : n + 1 \in 1 .. K /\ k + (n + 1) = k + 1 + n
      BY <1>3, <1>4
    <2>2. \A n \in 1 .. K - 1 : Tail(res)[n] = Result(k + 1 + n, pub[k + 1 + n])
      BY <1>2, <1>7, <2>1
    <2> QED
      BY <1>2, <1>12, <2>2
  <1>16. rows' = AllTold(Len(published) - Len(results))'
    <2>1. rows' = AllTold(k + 1)'
      BY <1>9, <1>10
    <2>2. (Len(published) - Len(results))' = k + 1
      BY <1>12
    <2> QED
      BY <2>1, <2>2 DEF AllTold, Complete
  <1>17. Len(results') <= Len(published')
    BY <1>2, <1>3, <1>12
  <1> QED
    BY <1>13, <1>14, <1>15, <1>16, <1>17 DEF BlocksInv

\* The invariant is inductive.
LEMMA BlocksGoOn == BlocksInv /\ [BlocksNext]_blocks => BlocksInv'
  <1> SUFFICES ASSUME BlocksInv, [BlocksNext]_blocks
               PROVE  BlocksInv'
    OBVIOUS
  <1>1. CASE \E e \in StopEvents \cup {Incomplete} : Publish(e)
    BY <1>1, PublishKeeps
  <1>2. CASE Cut
    BY <1>2, CutKeeps
  <1>3. CASE ReadResult
    BY <1>3, ReadKeeps
  <1>4. CASE UNCHANGED blocks
    BY <1>4 DEF blocks, BlocksInv, BlocksTypeOK, AllTold, Complete, Told, Late, Quay
  <1> QED
    BY <1>1, <1>2, <1>3, <1>4 DEF BlocksNext

\* It holds in every behaviour.
LEMMA BlocksHold == BlocksSpec => []BlocksInv
  <1> QED
    BY BlocksStart, BlocksGoOn, PTL DEF BlocksSpec

\* However many results an answer holds, the loop of `parse_stop_events` (ojp.rs:116) reads
\* documents only, and never makes more rows than results.
THEOREM BlocksTyped == BlocksSpec => []BlocksTypeOK
  <1>1. BlocksInv => BlocksTypeOK
    BY DEF BlocksInv
  <1> QED
    BY <1>1, BlocksHold, PTL

\* Cutting by the beginning of a tag's name (ojp.rs:95) mixes nothing up, for answers of any
\* length: the rows are those of the results that have a service, in order.
THEOREM EventIsRead == BlocksSpec => []EventRead
  <1>1. BlocksInv => EventRead
    <2> SUFFICES ASSUME BlocksInv, results = <<>>
                 PROVE  rows = AllTold(Len(published))
      BY DEF EventRead, AllTold, Complete
    <2>1. <<>> \in Seq(Documents) /\ Len(<<>>) = 0
      OBVIOUS
    <2>2. results # None
      BY <2>1, BlocksAssumption
    <2>3. Len(published) \in Nat
      BY LenProperties DEF BlocksInv, BlocksTypeOK
    <2>4. Len(published) - Len(results) = Len(published)
      BY <2>1, <2>3
    <2> QED
      BY <2>2, <2>4 DEF BlocksInv
  <1> QED
    BY <1>1, BlocksHold, PTL

====
