---------------------------- MODULE HttpTextProofs ----------------------------
(***************************************************************************)
(* What the operators of HttpText compute, for texts of any length: the    *)
(* lemmas the proofs about the parser rest on.  Induction is over sets of  *)
(* numbers: a set with 0 in it and n + 1 for each n in it holds them all.  *)
(***************************************************************************)
EXTENDS HttpText, WellFoundedInduction, SequenceTheorems, TLAPS

(* Less-than as a relation. *)
Less == {p \in Nat \X Nat : p[1] < p[2]}

LEMMA LessIsWellFounded == IsWellFoundedOn(Less, Nat)
<1>1. OpToRel(<, Nat) = Less
  BY Zenon DEF OpToRel, Less
<1> QED
  BY <1>1, NatLessThanWellFounded, Zenon

(* A set of numbers has a least one. *)
LEMMA LeastOne ==
    ASSUME NEW T, T \subseteq Nat, T # {} PROVE \E x \in T : \A y \in T : x <= y
<1>1. PICK x \in T : \A y \in T : ~ (<<y, x>> \in Less)
  BY LessIsWellFounded, WFMin
<1>2. ASSUME NEW y \in T PROVE x <= y
  <2>1. x \in Nat /\ y \in Nat /\ <<y, x>> \notin Less
    BY <1>1
  <2>2. y < x => <<y, x>> \in Less
    BY <2>1 DEF Less
  <2> QED
    BY <2>1, <2>2
<1> QED
  BY <1>2

LEMMA SetInduction ==
    ASSUME NEW T, 0 \in T, \A n \in Nat : n \in T => n + 1 \in T
    PROVE  \A n \in Nat : n \in T
<1> DEFINE U == {n \in Nat : n \notin T}
<1>1. SUFFICES ASSUME U # {} PROVE FALSE
  OBVIOUS
<1>2. PICK x \in U : \A y \in U : x <= y
  <2>1. U \subseteq Nat
    OBVIOUS
  <2> HIDE DEF U
  <2> QED
    BY <1>1, <2>1, LeastOne
<1>3. x # 0 /\ x \in Nat /\ x \notin T
  OBVIOUS
<1>4. x - 1 \in Nat /\ x - 1 \in T
  <2>1. x - 1 \in Nat /\ ~ (x <= x - 1)
    BY <1>3
  <2>2. x - 1 \notin U
    BY <1>2, <2>1
  <2> QED
    BY <2>1, <2>2
<1> QED
  BY <1>3, <1>4

(* Induction downwards, from n to 1. *)
LEMMA DownInduction ==
    ASSUME NEW T, NEW n \in Nat, n + 1 \in T,
           \A j \in 1 .. n : (\A k \in j + 1 .. n + 1 : k \in T) => j \in T
    PROVE  \A j \in 1 .. n + 1 : j \in T
<1> DEFINE S == {m \in Nat : \A k \in 1 .. n + 1 : k >= n + 1 - m => k \in T}
<1>1. 0 \in S
  OBVIOUS
<1>2. ASSUME NEW m \in Nat, m \in S PROVE m + 1 \in S
  <2>1. SUFFICES ASSUME NEW k \in 1 .. n + 1, k = n - m PROVE k \in T
    BY <1>2
  <2>2. \A l \in k + 1 .. n + 1 : l \in T
    BY <1>2, <2>1
  <2> QED
    BY <2>1, <2>2
<1>3. n \in S
  <2> HIDE DEF S
  <2> QED
    BY <1>1, <1>2, SetInduction
<1> QED
  BY <1>3
-----------------------------------------------------------------------------
(* The first place with a property.                                        *)
LEMMA FirstOne ==
    ASSUME NEW P, NEW i \in Nat, NEW n \in Nat, NEW j \in i .. n, j \in P
    PROVE  \E k \in i .. n : k \in P /\ \A l \in i .. k - 1 : l \notin P
<1> DEFINE T == {k \in i .. n : k \in P}
<1>1. PICK x \in T : \A y \in T : x <= y
  <2>1. T \subseteq Nat /\ T # {}
    OBVIOUS
  <2> HIDE DEF T
  <2> QED
    BY <2>1, LeastOne
<1>2. \A l \in i .. x - 1 : l \notin P
  BY <1>1
<1> QED
  BY <1>2

(* strpbrk finds the first of the bytes asked for, when there is one.      *)
LEMMA FirstOfIs ==
    ASSUME NEW s, Len(s) \in Nat, NEW i \in Nat, NEW C
    PROVE  \/ FirstOf(s, i, C) = 0 /\ \A j \in i .. Len(s) : s[j] \notin C
           \/ /\ FirstOf(s, i, C) \in i .. Len(s)
              /\ s[FirstOf(s, i, C)] \in C
              /\ \A j \in i .. FirstOf(s, i, C) - 1 : s[j] \notin C
<1>1. CASE \A j \in i .. Len(s) : s[j] \notin C
  BY <1>1 DEF FirstOf
<1>2. CASE \E j \in i .. Len(s) : s[j] \in C
  <2> DEFINE Q(j) == s[j] \in C /\ \A k \in i .. j - 1 : s[k] \notin C
             P == {j \in i .. Len(s) : s[j] \in C}
  <2>1. \E j \in i .. Len(s) : j \in P /\ \A k \in i .. j - 1 : k \notin P
    <3>1. PICK j \in i .. Len(s) : j \in P
      BY <1>2
    <3> HIDE DEF P
    <3> QED
      BY <3>1, FirstOne
  <2>2. \E j \in i .. Len(s) : Q(j)
    BY <2>1
  <2>3. FirstOf(s, i, C) = CHOOSE j \in i .. Len(s) : Q(j)
    BY <1>2, Zenon DEF FirstOf
  <2> HIDE DEF Q
  <2>4. FirstOf(s, i, C) \in i .. Len(s) /\ Q(FirstOf(s, i, C))
    BY <2>2, <2>3, Zenon
  <2> QED
    BY <2>4 DEF Q
<1> QED
  BY <1>1, <1>2

(* When a place is the first, strpbrk finds it. *)
LEMMA FirstOfAt ==
    ASSUME NEW s, Len(s) \in Nat, NEW i \in Nat \ {0}, NEW C, NEW k \in i .. Len(s), s[k] \in C,
           \A j \in i .. k - 1 : s[j] \notin C
    PROVE  FirstOf(s, i, C) = k
<1> DEFINE f == FirstOf(s, i, C)
<1>1. \/ f = 0 /\ \A j \in i .. Len(s) : s[j] \notin C
      \/ f \in i .. Len(s) /\ s[f] \in C /\ \A j \in i .. f - 1 : s[j] \notin C
  BY FirstOfIs
<1> HIDE DEF f
<1>2. f \in i .. Len(s) /\ s[f] \in C /\ \A j \in i .. f - 1 : s[j] \notin C
  BY <1>1
<1>3. ~ (f < k) /\ ~ (f > k)
  BY <1>2
<1>4. f = k
  BY <1>2, <1>3
<1> QED
  BY <1>4 DEF f

(* strspn stops at the first byte that is no space, or at the end. *)
LEMMA SkipSpacesIs ==
    ASSUME NEW s, Len(s) \in Nat, NEW i \in 1 .. Len(s) + 1
    PROVE  /\ SkipSpaces(s, i) \in i .. Len(s) + 1
           /\ SkipSpaces(s, i) = Len(s) + 1 \/ s[SkipSpaces(s, i)] # SP
           /\ \A k \in i .. SkipSpaces(s, i) - 1 : s[k] = SP
<1> DEFINE Q(j) == /\ j = Len(s) + 1 \/ s[j] # SP
                   /\ \A k \in i .. j - 1 : s[k] = SP
           P == {j \in i .. Len(s) + 1 : j = Len(s) + 1 \/ s[j] # SP}
<1>1. \E j \in i .. Len(s) + 1 : j \in P /\ \A k \in i .. j - 1 : k \notin P
  <2>1. Len(s) + 1 \in i .. Len(s) + 1 /\ Len(s) + 1 \in P /\ i \in Nat /\ Len(s) + 1 \in Nat
    OBVIOUS
  <2> HIDE DEF P
  <2> QED
    BY <2>1, FirstOne
<1>2. \E j \in i .. Len(s) + 1 : Q(j)
  BY <1>1
<1>3. SkipSpaces(s, i) = CHOOSE j \in i .. Len(s) + 1 : Q(j)
  BY Zenon DEF SkipSpaces
<1> HIDE DEF Q
<1>4. SkipSpaces(s, i) \in i .. Len(s) + 1 /\ Q(SkipSpaces(s, i))
  BY <1>2, <1>3, Zenon
<1> QED
  BY <1>4 DEF Q

LEMMA SkipSpacesAt ==
    ASSUME NEW s, Len(s) \in Nat, NEW i \in 1 .. Len(s) + 1, NEW k \in i .. Len(s), s[k] # SP,
           \A j \in i .. k - 1 : s[j] = SP
    PROVE  SkipSpaces(s, i) = k
<1> DEFINE f == SkipSpaces(s, i)
<1>1. /\ f \in i .. Len(s) + 1
      /\ f = Len(s) + 1 \/ s[f] # SP
      /\ \A j \in i .. f - 1 : s[j] = SP
  BY SkipSpacesIs
<1> HIDE DEF f
<1>2. ~ (f < k) /\ ~ (f > k)
  BY <1>1
<1>3. f = k
  BY <1>1, <1>2
<1> QED
  BY <1>3 DEF f
-----------------------------------------------------------------------------
(* g puts together, from place k on, what A says of each place and what it *)
(* has at a place further on, nx.                                          *)
PutTogether(g, k, n, A, nx) ==
    /\ g \in [k .. n + 1 -> Seq(Nat)]
    /\ g[n + 1] = <<>>
    /\ \A i \in k .. n : g[i] = A[i] \o g[nx[i]]

LEMMA Recursion ==
    ASSUME NEW n \in Nat, NEW A \in [1 .. n -> Seq(Nat)],
           NEW nx \in [1 .. n -> 1 .. n + 1], \A i \in 1 .. n : nx[i] > i
    PROVE  \E g : PutTogether(g, 1, n, A, nx)
<1> DEFINE T == {k \in 1 .. n + 1 : \E g : PutTogether(g, k, n, A, nx)}
<1>1. n + 1 \in T
  <2> DEFINE g == [i \in n + 1 .. n + 1 |-> <<>>]
  <2>1. \A i \in n + 1 .. n + 1 : <<>> \in Seq(Nat)
    OBVIOUS
  <2>2. g \in [n + 1 .. n + 1 -> Seq(Nat)]
    BY <2>1, Zenon
  <2>3. n + 1 \in n + 1 .. n + 1 /\ n + 1 \in 1 .. n + 1
    OBVIOUS
  <2>4. g[n + 1] = <<>>
    BY <2>3, Zenon
  <2>5. n + 1 .. n = {}
    OBVIOUS
  <2>6. PutTogether(g, n + 1, n, A, nx)
    BY <2>2, <2>4, <2>5, Zenon DEF PutTogether
  <2> QED
    BY <2>3, <2>6, Zenon
<1>2. ASSUME NEW j \in 1 .. n, \A k \in j + 1 .. n + 1 : k \in T PROVE j \in T
  <2>1. PICK g : PutTogether(g, j + 1, n, A, nx)
    <3>1. j + 1 \in j + 1 .. n + 1
      OBVIOUS
    <3> QED
      BY <1>2, <3>1, Zenon
  <2> DEFINE new == A[j] \o g[nx[j]]
             h == [i \in j .. n + 1 |-> IF i = j THEN new ELSE g[i]]
  <2>2. nx[j] \in j + 1 .. n + 1 /\ new \in Seq(Nat)
    <3>1. nx[j] \in j + 1 .. n + 1
      <4>1. nx[j] \in 1 .. n + 1 /\ nx[j] > j
        OBVIOUS
      <4> QED
        BY <4>1
    <3>2. g[nx[j]] \in Seq(Nat) /\ A[j] \in Seq(Nat)
      BY <2>1, <3>1 DEF PutTogether
    <3> QED
      BY <3>1, <3>2
  <2> HIDE DEF new
  <2>3. h \in [j .. n + 1 -> Seq(Nat)]
    <3>1. ASSUME NEW i \in j .. n + 1, i # j PROVE g[i] \in Seq(Nat)
      <4>1. i \in j + 1 .. n + 1
        BY <3>1
      <4> QED
        BY <2>1, <4>1 DEF PutTogether
    <3> QED
      BY <2>2, <3>1
  <2>4. h[j] = A[j] \o h[nx[j]]
    <3>1. h[j] = new /\ h[nx[j]] = g[nx[j]]
      BY <2>2
    <3> QED
      BY <3>1 DEF new
  <2>5. ASSUME NEW i \in j + 1 .. n PROVE h[i] = A[i] \o h[nx[i]]
    <3>1. i \in 1 .. n /\ nx[i] \in 1 .. n + 1 /\ nx[i] > i
      OBVIOUS
    <3>2. h[i] = g[i] /\ h[nx[i]] = g[nx[i]]
      BY <3>1
    <3> QED
      BY <2>1, <3>2 DEF PutTogether
  <2>6. \A i \in j .. n : i = j \/ i \in j + 1 .. n
    OBVIOUS
  <2>7. h[n + 1] = <<>>
    BY <2>1 DEF PutTogether
  <2> HIDE DEF h
  <2>8. \A i \in j .. n : h[i] = A[i] \o h[nx[i]]
    BY <2>4, <2>5, <2>6, Zenon
  <2>9. PutTogether(h, j, n, A, nx)
    BY <2>3, <2>7, <2>8, Zenon DEF PutTogether
  <2> QED
    BY <2>9
<1>3. 1 \in T
  <2> HIDE DEF T
  <2> QED
    BY <1>1, <1>2, DownInduction
<1> QED
  BY <1>3
-----------------------------------------------------------------------------
(* What stands in a form for one byte of a name, and the bytes it takes.   *)
Cell(c) == IF isalnum(c) THEN <<c>> ELSE <<PERCENT, Hex(c \div 16), Hex(c % 16)>>

Safe == {c \in Nat : isalnum(c) \/ c = PERCENT}

LEMMA CellIs ==
    ASSUME NEW c \in 0 .. 255
    PROVE  /\ Cell(c) \in Seq(Safe)
           /\ isalnum(c) => Cell(c) = <<c>>
           /\ ~isalnum(c) => /\ Cell(c) = <<PERCENT, Hex(c \div 16), Hex(c % 16)>>
                             /\ isalnum(Hex(c \div 16)) /\ isalnum(Hex(c % 16))
                             /\ (16 * dec_tab(Hex(c \div 16)) + dec_tab(Hex(c % 16))) % 256 = c
<1>1. /\ c \div 16 \in 0 .. 15 /\ c % 16 \in 0 .. 15
      /\ 16 * (c \div 16) + (c % 16) = c
  OBVIOUS
<1>2. ASSUME NEW d \in 0 .. 15
      PROVE  Hex(d) \in Nat /\ isalnum(Hex(d)) /\ dec_tab(Hex(d)) = d
  BY DEF Hex, isalnum, dec_tab
<1>3. Hex(c \div 16) \in Safe /\ Hex(c % 16) \in Safe /\ PERCENT \in Safe
  BY <1>1, <1>2 DEF Safe, PERCENT
<1>4. c % 256 = c
  OBVIOUS
<1>5. (16 * dec_tab(Hex(c \div 16)) + dec_tab(Hex(c % 16))) % 256 = c
  BY <1>1, <1>2, <1>4
<1>6. CASE isalnum(c)
  BY <1>6 DEF Cell, Safe
<1>7. CASE ~isalnum(c)
  <2>1. Cell(c) = <<PERCENT, Hex(c \div 16), Hex(c % 16)>>
    BY <1>7, Zenon DEF Cell
  <2> QED
    BY <1>1, <1>2, <1>3, <1>5, <1>7, <2>1
<1> QED
  BY <1>6, <1>7

LEMMA EncodedIs ==
    ASSUME NEW s \in Seq(0 .. 255)
    PROVE  \E code \in [1 .. Len(s) + 1 -> Seq(Safe)] :
              /\ Encoded(s) = code[1]
              /\ code[Len(s) + 1] = <<>>
              /\ \A i \in 1 .. Len(s) : code[i] = Cell(s[i]) \o code[i + 1]
<1> DEFINE n == Len(s)
           F(g) == [i \in 1 .. Len(s) + 1 |->
                       IF i > Len(s) THEN <<>>
                       ELSE (IF isalnum(s[i]) THEN <<s[i]>>
                             ELSE <<PERCENT, Hex(s[i] \div 16), Hex(s[i] % 16)>>) \o g[i + 1]]
           code == CHOOSE g : g = F(g)
<1>0. \A i \in 1 .. n : s[i] \in 0 .. 255 /\ Cell(s[i]) \in Seq(Safe)
  <2>1. \A i \in 1 .. n : s[i] \in 0 .. 255
    BY ElementOfSeq
  <2> QED
    BY <2>1, CellIs
<1>1. \E g : g = F(g)
  <2> DEFINE A == [i \in 1 .. n |-> Cell(s[i])]
             nx == [i \in 1 .. n |-> i + 1]
  <2>1. \A i \in 1 .. n : Cell(s[i]) \in Seq(Nat)
    <3>1. Safe \subseteq Nat
      BY DEF Safe
    <3> QED
      BY <1>0, <3>1, SeqMonotonic
  <2>2. /\ n \in Nat /\ A \in [1 .. n -> Seq(Nat)] /\ nx \in [1 .. n -> 1 .. n + 1]
        /\ \A i \in 1 .. n : nx[i] > i
    BY <2>1
  <2>3. PICK g : PutTogether(g, 1, n, A, nx)
    <3> HIDE DEF A, nx, n
    <3> QED
      BY <2>2, Recursion
  <2>4. g \in [1 .. n + 1 -> Seq(Nat)] /\ g[n + 1] = <<>>
    BY <2>3, Zenon DEF PutTogether
  <2>5. ASSUME NEW i \in 1 .. n PROVE g[i] = Cell(s[i]) \o g[i + 1]
    <3>1. g[i] = A[i] \o g[nx[i]]
      BY <2>3, Zenon DEF PutTogether
    <3> QED
      BY <3>1
  <2>6. ASSUME NEW i \in 1 .. n + 1
        PROVE  g[i] = IF i > n THEN <<>> ELSE Cell(s[i]) \o g[i + 1]
    <3>1. CASE i = n + 1
      BY <2>4, <3>1
    <3>2. CASE i # n + 1
      <4>1. i \in 1 .. n /\ ~ (i > n)
        BY <3>2
      <4> QED
        BY <2>5, <4>1
    <3> QED
      BY <3>1, <3>2
  <2>7. F(g) = [i \in 1 .. n + 1 |-> IF i > n THEN <<>> ELSE Cell(s[i]) \o g[i + 1]]
    BY Zenon DEF Cell
  <2>8. g = [i \in 1 .. n + 1 |-> g[i]]
    BY <2>4
  <2> QED
    BY <2>6, <2>7, <2>8, Zenon
<1>2. code = F(code)
  BY <1>1, Zenon
<1>3. Encoded(s) = code[1]
  BY Zenon DEF Encoded
<1> HIDE DEF code
<1>4. code[n + 1] = <<>> /\ \A i \in 1 .. n : code[i] = Cell(s[i]) \o code[i + 1]
  <2>1. code = [i \in 1 .. n + 1 |-> IF i > n THEN <<>> ELSE Cell(s[i]) \o code[i + 1]]
    BY <1>2, Zenon DEF Cell
  <2>2. \A i \in 1 .. n + 1 : code[i] = IF i > n THEN <<>> ELSE Cell(s[i]) \o code[i + 1]
    BY <2>1, Zenon
  <2>3. /\ n + 1 \in 1 .. n + 1 /\ n + 1 > n
        /\ \A i \in 1 .. n : i \in 1 .. n + 1 /\ ~ (i > n)
    OBVIOUS
  <2> QED
    BY <2>2, <2>3, Zenon
<1>5. \A i \in 1 .. n + 1 : code[i] \in Seq(Safe)
  <2> DEFINE T == {i \in 1 .. n + 1 : code[i] \in Seq(Safe)}
  <2>1. n + 1 \in T
    <3>1. <<>> \in Seq(Safe) /\ n + 1 \in 1 .. n + 1
      OBVIOUS
    <3> QED
      BY <1>4, <3>1, Zenon
  <2>2. ASSUME NEW j \in 1 .. n, \A k \in j + 1 .. n + 1 : k \in T PROVE j \in T
    <3>1. code[j + 1] \in Seq(Safe) /\ Cell(s[j]) \in Seq(Safe)
      BY <1>0, <2>2
    <3>2. code[j] \in Seq(Safe)
      <4>1. Cell(s[j]) \o code[j + 1] \in Seq(Safe)
        BY <3>1
      <4> QED
        BY <1>4, <4>1, Zenon
    <3> QED
      BY <3>2
  <2>3. \A i \in 1 .. n + 1 : i \in T
    <3>1. n \in Nat
      OBVIOUS
    <3> HIDE DEF T, n
    <3> QED
      BY <2>1, <2>2, <3>1, DownInduction
  <2> QED
    BY <2>3
<1>6. code \in [1 .. n + 1 -> Seq(Safe)]
  BY <1>2, <1>5
<1> QED
  BY <1>3, <1>4, <1>6

(* An escape in a text that is decoded. *)
CutEscape(str, i) == str[i] = PERCENT /\ i + 2 > Len(str)
Escape(str, i) == str[i] = PERCENT /\ isalnum(str[i + 1]) /\ isalnum(str[i + 2])
Unescaped(str, i) == <<(16 * dec_tab(str[i + 1]) + dec_tab(str[i + 2])) % 256>>

LEMMA DecodedIs ==
    ASSUME NEW str \in Seq(Nat)
    PROVE  \E tmp \in [1 .. Len(str) + 1 -> Seq(Nat)] :
              /\ acl_url_decode(str) = CString(tmp[1], 1)
              /\ tmp[Len(str) + 1] = <<>>
              /\ \A i \in 1 .. Len(str) :
                    /\ CutEscape(str, i) => tmp[i] = <<PERCENT>>
                    /\ ~CutEscape(str, i) =>
                        tmp[i] = IF Escape(str, i) THEN Unescaped(str, i) \o tmp[i + 3]
                                 ELSE <<str[i]>> \o tmp[i + 1]
<1> DEFINE n == Len(str)
           V(g, i) == IF i > n THEN <<>>
                      ELSE IF CutEscape(str, i) THEN <<PERCENT>>
                      ELSE IF Escape(str, i) THEN Unescaped(str, i) \o g[i + 3]
                      ELSE <<str[i]>> \o g[i + 1]
           F(g) == [i \in 1 .. n + 1 |-> V(g, i)]
           tmp == CHOOSE g : g = F(g)
<1>1. n \in Nat /\ \A i \in 1 .. n : str[i] \in Nat
  BY LenProperties, ElementOfSeq
<1>0. <<PERCENT>> \in Seq(Nat)
  BY DEF PERCENT
<1>2. \A i \in 1 .. n :
         /\ <<str[i]>> \in Seq(Nat)
         /\ ~CutEscape(str, i) /\ Escape(str, i) => i + 2 <= n /\ Unescaped(str, i) \in Seq(Nat)
  <2> SUFFICES ASSUME NEW i \in 1 .. n
               PROVE  /\ <<str[i]>> \in Seq(Nat)
                      /\ ~CutEscape(str, i) /\ Escape(str, i) =>
                            i + 2 <= n /\ Unescaped(str, i) \in Seq(Nat)
    OBVIOUS
  <2>2. <<str[i]>> \in Seq(Nat)
    BY <1>1
  <2>3. ASSUME ~CutEscape(str, i), Escape(str, i)
        PROVE  i + 2 <= n /\ Unescaped(str, i) \in Seq(Nat)
    <3>1. i + 2 <= n
      BY <1>1, <2>3 DEF CutEscape, Escape
    <3>2. \A c \in Nat : dec_tab(c) \in Nat
      <4> SUFFICES ASSUME NEW c \in Nat PROVE dec_tab(c) \in Nat
        OBVIOUS
      <4>1. CASE c \in 48 .. 57
        <5>1. c \notin 65 .. 70 /\ c \notin 97 .. 102 /\ c - 48 \in Nat
          BY <4>1
        <5> QED
          BY <4>1, <5>1, Zenon DEF dec_tab
      <4>2. CASE c \in 65 .. 70
        <5>1. c \notin 48 .. 57 /\ c \notin 97 .. 102 /\ c - 55 \in Nat
          BY <4>2
        <5> QED
          BY <4>2, <5>1, Zenon DEF dec_tab
      <4>3. CASE c \in 97 .. 102
        BY <4>3 DEF dec_tab
      <4>4. CASE c \notin (48 .. 57) \cup (65 .. 70) \cup (97 .. 102)
        BY <4>4, Zenon DEF dec_tab
      <4> QED
        BY <4>1, <4>2, <4>3, <4>4
    <3>3. str[i + 1] \in Nat /\ str[i + 2] \in Nat
      BY <1>1, <3>1
    <3>4. dec_tab(str[i + 1]) \in Nat /\ dec_tab(str[i + 2]) \in Nat
      BY <3>2, <3>3
    <3> DEFINE x == 16 * dec_tab(str[i + 1]) + dec_tab(str[i + 2])
    <3>5. x \in Nat
      BY <3>4
    <3> HIDE DEF x
    <3>6. <<x % 256>> \in Seq(Nat)
      BY <3>5
    <3> QED
      BY <3>1, <3>6 DEF x, Unescaped
  <2> QED
    BY <2>2, <2>3
<1>3. \E g : g = F(g)
  <2> DEFINE A == [i \in 1 .. n |-> IF CutEscape(str, i) THEN <<PERCENT>>
                                    ELSE IF Escape(str, i) THEN Unescaped(str, i)
                                    ELSE <<str[i]>>]
             nx == [i \in 1 .. n |-> IF CutEscape(str, i) THEN n + 1
                                     ELSE IF Escape(str, i) THEN i + 3 ELSE i + 1]
  <2>1. A \in [1 .. n -> Seq(Nat)]
    BY <1>0, <1>2
  <2>2. nx \in [1 .. n -> 1 .. n + 1] /\ \A i \in 1 .. n : nx[i] > i
    BY <1>1, <1>2
  <2>3. PICK g : PutTogether(g, 1, n, A, nx)
    <3> HIDE DEF A, nx, n
    <3> QED
      BY <1>1, <2>1, <2>2, Recursion
  <2>4. g \in [1 .. n + 1 -> Seq(Nat)] /\ g[n + 1] = <<>>
    BY <2>3, Zenon DEF PutTogether
  <2>5. ASSUME NEW i \in 1 .. n PROVE g[i] = V(g, i)
    <3>0. ~ (i > n)
      BY <1>1
    <3>1. g[i] = A[i] \o g[nx[i]]
      BY <2>3, Zenon DEF PutTogether
    <3>2. CASE CutEscape(str, i)
      <4>1. A[i] = <<PERCENT>> /\ g[nx[i]] = <<>>
        BY <2>4, <3>2
      <4>2. <<PERCENT>> \o <<>> = <<PERCENT>>
        BY <1>0, ConcatEmptySeq
      <4> QED
        BY <3>0, <3>1, <3>2, <4>1, <4>2, Zenon
    <3>3. CASE ~CutEscape(str, i) /\ Escape(str, i)
      <4>1. A[i] = Unescaped(str, i) /\ g[nx[i]] = g[i + 3]
        BY <3>3
      <4> QED
        BY <3>0, <3>1, <3>3, <4>1, Zenon
    <3>4. CASE ~CutEscape(str, i) /\ ~Escape(str, i)
      <4>1. A[i] = <<str[i]>> /\ g[nx[i]] = g[i + 1]
        BY <3>4
      <4> QED
        BY <3>0, <3>1, <3>4, <4>1, Zenon
    <3> QED
      BY <3>2, <3>3, <3>4
  <2>6. ASSUME NEW i \in 1 .. n + 1 PROVE g[i] = V(g, i)
    <3>1. CASE i = n + 1
      <4>1. i > n
        BY <1>1, <3>1
      <4> QED
        BY <2>4, <3>1, <4>1, Zenon
    <3>2. CASE i # n + 1
      <4>1. i \in 1 .. n
        BY <1>1, <3>2
      <4> HIDE DEF V
      <4> QED
        BY <2>5, <4>1
    <3> QED
      BY <3>1, <3>2
  <2>7. g = [i \in 1 .. n + 1 |-> g[i]]
    BY <2>4
  <2> QED
    BY <2>6, <2>7, Zenon
<1>4. tmp = F(tmp)
  BY <1>3, Zenon
<1>5. acl_url_decode(str) = CString(tmp[1], 1)
  BY Zenon DEF acl_url_decode, CutEscape, Escape, Unescaped
<1> HIDE DEF tmp
<1>6. \A i \in 1 .. n + 1 : tmp[i] = V(tmp, i)
  BY <1>4, Zenon
<1>7. tmp[n + 1] = <<>>
  <2>1. n + 1 \in 1 .. n + 1 /\ n + 1 > n
    BY <1>1
  <2> QED
    BY <1>6, <2>1, Zenon
<1>8. ASSUME NEW i \in 1 .. n
      PROVE  /\ CutEscape(str, i) => tmp[i] = <<PERCENT>>
             /\ ~CutEscape(str, i) /\ Escape(str, i) => tmp[i] = Unescaped(str, i) \o tmp[i + 3]
             /\ ~CutEscape(str, i) /\ ~Escape(str, i) => tmp[i] = <<str[i]>> \o tmp[i + 1]
  <2>1. i \in 1 .. n + 1 /\ ~ (i > n)
    BY <1>1
  <2> QED
    BY <1>6, <2>1, Zenon
<1>9. \A i \in 1 .. n + 1 : tmp[i] \in Seq(Nat)
  <2> DEFINE T == {i \in 1 .. n + 1 : tmp[i] \in Seq(Nat)}
  <2>1. n + 1 \in T
    <3>1. <<>> \in Seq(Nat) /\ n + 1 \in 1 .. n + 1
      BY <1>1
    <3> QED
      BY <1>7, <3>1, Zenon
  <2>2. ASSUME NEW j \in 1 .. n, \A k \in j + 1 .. n + 1 : k \in T PROVE j \in T
    <3>1. \A k \in j + 1 .. n + 1 : tmp[k] \in Seq(Nat)
      BY <2>2
    <3>2. tmp[j + 1] \in Seq(Nat) /\ (j + 2 <= n => tmp[j + 3] \in Seq(Nat))
      BY <1>1, <3>1
    <3>3. tmp[j] \in Seq(Nat)
      <4>1. CASE CutEscape(str, j)
        BY <1>0, <1>8, <4>1, Zenon
      <4>2. CASE ~CutEscape(str, j) /\ Escape(str, j)
        <5>1. Unescaped(str, j) \in Seq(Nat) /\ tmp[j + 3] \in Seq(Nat)
          BY <1>2, <3>2, <4>2
        <5> QED
          BY <1>8, <4>2, <5>1, ConcatProperties, Zenon
      <4>3. CASE ~CutEscape(str, j) /\ ~Escape(str, j)
        <5>1. <<str[j]>> \in Seq(Nat) /\ tmp[j + 1] \in Seq(Nat)
          BY <1>2, <3>2
        <5>2. tmp[j] = <<str[j]>> \o tmp[j + 1]
          BY <1>8, <4>3
        <5>3. <<str[j]>> \o tmp[j + 1] \in Seq(Nat)
          BY <5>1
        <5> QED
          BY <5>2, <5>3, Zenon
      <4> QED
        BY <4>1, <4>2, <4>3
    <3>4. j \in 1 .. n + 1
      BY <1>1
    <3> QED
      BY <3>3, <3>4
  <2>3. \A i \in 1 .. n + 1 : i \in T
    <3> HIDE DEF T, n
    <3> QED
      BY <1>1, <2>1, <2>2, DownInduction
  <2> QED
    BY <2>3
<1>10. tmp \in [1 .. n + 1 -> Seq(Nat)]
  BY <1>4, <1>9
<1> QED
  BY <1>5, <1>7, <1>8, <1>10, Zenon

LEMMA EncodedIsSafe == ASSUME NEW s \in Seq(0 .. 255) PROVE Encoded(s) \in Seq(Safe)
<1>1. PICK code \in [1 .. Len(s) + 1 -> Seq(Safe)] : Encoded(s) = code[1]
  BY EncodedIs
<1>2. 1 \in 1 .. Len(s) + 1
  <2>1. Len(s) \in Nat
    BY LenProperties
  <2> QED
    BY <2>1
<1> QED
  BY <1>1, <1>2

(* A C string with no NUL in it. *)
LEMMA CStringIs ==
    ASSUME NEW S, NEW s \in Seq(S), \A i \in 1 .. Len(s) : s[i] # NUL PROVE CString(s, 1) = s
<1>1. Len(s) \in Nat /\ 1 \in Nat
  BY LenProperties
<1>2. FirstOf(s, 1, {NUL}) = 0
  BY <1>1, FirstOfIs
<1>3. SubSeq(s, 1, Len(s)) = s
  BY SubSeqFull
<1> QED
  BY <1>2, <1>3, Zenon DEF CString, From

(* x is the end of e. *)
IsEndOf(x, e) ==
    /\ Len(x) \in 0 .. Len(e)
    /\ \A j \in 1 .. Len(x) : e[Len(e) - Len(x) + j] = x[j]

(* What a client encodes, acl_url_decode decodes: each escape is found, no *)
(* one is taken for cut short at the end of the string, and no byte for an *)
(* escape (http_conn.cpp:409-435).  This is about the function only, which *)
(* allocates what it needs; the arrays do_request calls it on are          *)
(* HttpExchange's Overrun.  Strings with an escape cut short are no        *)
(* encodings: DecodedPlain is about them.                                  *)
THEOREM DecodedEncoded ==
    ASSUME NEW s \in Seq(Char) PROVE acl_url_decode(Encoded(s)) = s
<1> DEFINE n == Len(s)  e == Encoded(s)
<1>1. n \in Nat /\ \A i \in 1 .. n : s[i] \in Char /\ s[i] \in 0 .. 255
  BY LenProperties, ElementOfSeq DEF Char
<1>2. s \in Seq(0 .. 255)
  <2> DEFINE B == 0 .. 255
  <2>1. Char \subseteq B /\ s \in Seq(Char)
    BY DEF Char
  <2> HIDE DEF B
  <2>2. s \in Seq(B)
    BY <2>1, SeqMonotonic
  <2> QED
    BY <2>2 DEF B
<1>3. PICK code \in [1 .. n + 1 -> Seq(Safe)] :
         /\ e = code[1]
         /\ code[n + 1] = <<>>
         /\ \A i \in 1 .. n : code[i] = Cell(s[i]) \o code[i + 1]
  BY <1>2, EncodedIs
<1>4. e \in Seq(Nat) /\ e \in Seq(Safe) /\ Len(e) \in Nat
  <2>1. e \in Seq(Safe) /\ Safe \subseteq Nat
    BY <1>2, EncodedIsSafe DEF Safe
  <2> QED
    BY <2>1, SeqMonotonic, LenProperties
<1>5. PICK tmp \in [1 .. Len(e) + 1 -> Seq(Nat)] :
         /\ acl_url_decode(e) = CString(tmp[1], 1)
         /\ tmp[Len(e) + 1] = <<>>
         /\ \A i \in 1 .. Len(e) :
               ~CutEscape(e, i) =>
                   tmp[i] = IF Escape(e, i) THEN Unescaped(e, i) \o tmp[i + 3]
                            ELSE <<e[i]>> \o tmp[i + 1]
  <2> HIDE DEF e
  <2> QED
    BY <1>4, DecodedIs
<1> HIDE DEF e, n
<1>6. ASSUME NEW i \in 1 .. n
      PROVE  /\ code[i] \in Seq(Safe) /\ code[i + 1] \in Seq(Safe) /\ Cell(s[i]) \in Seq(Safe)
             /\ Len(code[i]) \in Nat /\ Len(code[i + 1]) \in Nat
             /\ Len(Cell(s[i])) \in Nat
             /\ Len(code[i]) = Len(Cell(s[i])) + Len(code[i + 1])
             /\ \A j \in 1 .. Len(Cell(s[i])) : code[i][j] = Cell(s[i])[j]
             /\ \A j \in 1 .. Len(code[i + 1]) : code[i][Len(Cell(s[i])) + j] = code[i + 1][j]
  <2>1. code[i] \in Seq(Safe) /\ code[i + 1] \in Seq(Safe) /\ Cell(s[i]) \in Seq(Safe)
    <3>1. i \in 1 .. n + 1 /\ i + 1 \in 1 .. n + 1
      BY <1>1
    <3>2. s[i] \in 0 .. 255
      BY <1>1, Zenon
    <3>3. Cell(s[i]) \in Seq(Safe)
      BY <3>2, CellIs, Zenon
    <3> QED
      BY <1>3, <3>1, <3>3, Zenon
  <2>2. code[i] = Cell(s[i]) \o code[i + 1]
    BY <1>3
  <2>3. Len(code[i]) \in Nat /\ Len(code[i + 1]) \in Nat /\ Len(Cell(s[i])) \in Nat
    BY <2>1, LenProperties
  <2> DEFINE x == Cell(s[i])  y == code[i + 1]  z == code[i]
  <2>4. /\ Len(z) = Len(x) + Len(y)
        /\ \A j \in 1 .. Len(x) + Len(y) : z[j] = IF j <= Len(x) THEN x[j] ELSE y[j - Len(x)]
    <3>1. x \in Seq(Safe) /\ y \in Seq(Safe) /\ z = x \o y
      BY <2>1, <2>2
    <3> HIDE DEF x, y, z
    <3> QED
      BY <3>1, ConcatProperties
  <2>5. Len(x) \in Nat /\ Len(y) \in Nat
    BY <2>3
  <2> HIDE DEF x, y, z
  <2>6. /\ \A j \in 1 .. Len(x) : z[j] = x[j]
        /\ \A j \in 1 .. Len(y) : z[Len(x) + j] = y[j]
    <3>1. ASSUME NEW j \in 1 .. Len(x) PROVE z[j] = x[j]
      BY <2>4, <2>5
    <3>2. ASSUME NEW j \in 1 .. Len(y) PROVE z[Len(x) + j] = y[j]
      <4>1. /\ Len(x) + j \in 1 .. Len(x) + Len(y) /\ ~ (Len(x) + j <= Len(x))
            /\ (Len(x) + j) - Len(x) = j
        BY <2>5
      <4> QED
        BY <2>4, <4>1
    <3> QED
      BY <3>1, <3>2
  <2> QED
    BY <2>1, <2>3, <2>4, <2>6 DEF x, y, z
<1>7. \A k \in 1 .. n + 1 : IsEndOf(code[k], e)
  <2> DEFINE T == {m \in Nat : m <= n => IsEndOf(code[m + 1], e)}
  <2>1. 0 \in T
    <3>1. IsEndOf(e, e)
      BY <1>4 DEF IsEndOf
    <3> QED
      BY <1>3, <3>1
  <2>2. ASSUME NEW m \in Nat, m \in T PROVE m + 1 \in T
    <3> DEFINE k == m + 1
    <3>1. SUFFICES ASSUME k <= n PROVE IsEndOf(code[k + 1], e)
      OBVIOUS
    <3>2. k \in 1 .. n /\ IsEndOf(code[k], e)
      BY <1>1, <2>2, <3>1
    <3> DEFINE c == Len(Cell(s[k]))  a == Len(code[k])  b == Len(code[k + 1])  L == Len(e)
    <3>3. /\ a = c + b /\ a \in 0 .. L /\ b \in Nat /\ c \in Nat /\ L \in Nat
          /\ \A j \in 1 .. b : code[k][c + j] = code[k + 1][j]
          /\ \A j \in 1 .. a : e[L - a + j] = code[k][j]
      BY <1>4, <1>6, <3>2 DEF IsEndOf
    <3> HIDE DEF a, b, c, L, k
    <3>4. b \in 0 .. L
      BY <3>3
    <3>5. ASSUME NEW j \in 1 .. b PROVE e[L - b + j] = code[k + 1][j]
      <4>1. c + j \in 1 .. a /\ L - a + (c + j) = L - b + j
        BY <3>3
      <4> QED
        BY <3>3, <4>1
    <3> QED
      BY <3>4, <3>5 DEF b, L, IsEndOf
  <2>3. \A m \in Nat : m \in T
    <3> HIDE DEF T
    <3> QED
      BY <2>1, <2>2, SetInduction
  <2>4. ASSUME NEW k \in 1 .. n + 1 PROVE IsEndOf(code[k], e)
    <3>1. k - 1 \in Nat /\ k - 1 <= n /\ (k - 1) + 1 = k
      BY <1>1
    <3> QED
      BY <2>3, <3>1
  <2> QED
    BY <2>4
<1> DEFINE T == {k \in 1 .. n + 1 : tmp[Len(e) - Len(code[k]) + 1] = SubSeq(s, k, n)}
<1>8. n + 1 \in T
  <2>1. Len(code[n + 1]) = 0 /\ n + 1 \in 1 .. n + 1
    BY <1>1, <1>3
  <2>2. SubSeq(s, n + 1, n) = <<>>
    BY <1>1, SubSeqEmpty
  <2>3. Len(e) - 0 + 1 = Len(e) + 1
    BY <1>4
  <2> QED
    BY <1>5, <2>1, <2>2, <2>3
<1>9. ASSUME NEW j \in 1 .. n, \A k \in j + 1 .. n + 1 : k \in T PROVE j \in T
  <2> DEFINE c == Len(Cell(s[j]))  p == Len(e) - Len(code[j]) + 1
  <2>1. s[j] \in 0 .. 255
    BY <1>1, Zenon
  <2>2. /\ p + c = Len(e) - Len(code[j + 1]) + 1
        /\ c \in Nat
        /\ p \in 1 .. Len(e) + 1 /\ p + c - 1 <= Len(e)
        /\ \A i \in 1 .. c : e[p + i - 1] = Cell(s[j])[i]
    <3>1. IsEndOf(code[j], e) /\ IsEndOf(code[j + 1], e)
      <4>1. j \in 1 .. n + 1 /\ j + 1 \in 1 .. n + 1
        BY <1>1
      <4> QED
        BY <1>7, <4>1
    <3> DEFINE a == Len(code[j])  b == Len(code[j + 1])  L == Len(e)
    <3>2. /\ a = c + b /\ b \in 0 .. L /\ a \in 0 .. L /\ c \in Nat /\ L \in Nat
          /\ p = L - a + 1
          /\ \A i \in 1 .. c : code[j][i] = Cell(s[j])[i]
          /\ \A i \in 1 .. a : e[L - a + i] = code[j][i]
      BY <1>4, <1>6, <3>1 DEF IsEndOf
    <3> HIDE DEF a, b, c, L, p
    <3>3. /\ p + c = L - b + 1 /\ p \in 1 .. L + 1 /\ p + c - 1 <= L
      BY <3>2
    <3>4. ASSUME NEW i \in 1 .. c PROVE e[p + i - 1] = Cell(s[j])[i]
      <4>1. i \in 1 .. a /\ L - a + i = p + i - 1
        BY <3>2
      <4> QED
        BY <3>2, <4>1
    <3> QED
      BY <3>2, <3>3, <3>4 DEF b, L
  <2>3. tmp[p + c] = SubSeq(s, j + 1, n)
    <3>1. j + 1 \in j + 1 .. n + 1
      BY <1>1
    <3>2. j + 1 \in T
      BY <1>9, <3>1, Zenon
    <3> QED
      BY <2>2, <3>2
  <2>4. SubSeq(s, j, n) = <<s[j]>> \o SubSeq(s, j + 1, n)
    <3>1. n \in j .. Len(s) /\ j \in 1 .. Len(s)
      BY <1>1 DEF n
    <3> QED
      BY <3>1, SubSeqRecursiveFirst
  <2>5. tmp[p] = <<s[j]>> \o tmp[p + c]
    <3>1. CASE isalnum(s[j])
      <4>1. Cell(s[j]) = <<s[j]>> /\ c = 1 /\ s[j] # PERCENT
        <5>1. Cell(s[j]) = <<s[j]>>
          BY <2>1, <3>1, CellIs
        <5>2. s[j] # PERCENT
          <6>1. ~isalnum(PERCENT)
            BY DEF isalnum, PERCENT
          <6> QED
            BY <3>1, <6>1
        <5> QED
          BY <5>1, <5>2
      <4>2. e[p] = s[j] /\ p \in 1 .. Len(e)
        <5> HIDE DEF p
        <5>1. e[p + 1 - 1] = Cell(s[j])[1] /\ p + 1 - 1 = p /\ p \in 1 .. Len(e)
          BY <1>4, <2>2, <4>1
        <5>2. Cell(s[j])[1] = s[j]
          BY <4>1
        <5> QED
          BY <5>1, <5>2
      <4>3. ~CutEscape(e, p) /\ ~Escape(e, p)
        BY <4>1, <4>2 DEF CutEscape, Escape
      <4> QED
        BY <1>5, <4>1, <4>2, <4>3, Zenon
    <3>2. CASE ~isalnum(s[j])
      <4> DEFINE h == Hex(s[j] \div 16)  l == Hex(s[j] % 16)
      <4>1. /\ Cell(s[j]) = <<PERCENT, h, l>> /\ isalnum(h) /\ isalnum(l)
            /\ (16 * dec_tab(h) + dec_tab(l)) % 256 = s[j]
        BY <2>1, <3>2, CellIs
      <4> HIDE DEF h, l
      <4>2. /\ c = 3
            /\ Cell(s[j])[1] = PERCENT /\ Cell(s[j])[2] = h /\ Cell(s[j])[3] = l
        BY <4>1
      <4>3. /\ p \in 1 .. Len(e) /\ p + 2 <= Len(e)
            /\ e[p] = PERCENT /\ e[p + 1] = h /\ e[p + 2] = l
        <5>1. /\ p + 1 - 1 = p /\ p + 2 - 1 = p + 1 /\ p + 3 - 1 = p + 2
              /\ 1 \in 1 .. c /\ 2 \in 1 .. c /\ 3 \in 1 .. c
          BY <1>4, <2>2, <4>2
        <5>2. e[p + 1 - 1] = PERCENT /\ e[p + 2 - 1] = h /\ e[p + 3 - 1] = l
          BY <2>2, <4>2, <5>1
        <5>3. p \in 1 .. Len(e) /\ p + 2 <= Len(e)
          BY <1>4, <2>2, <4>2
        <5> QED
          BY <5>1, <5>2, <5>3
      <4>4. ~CutEscape(e, p) /\ Escape(e, p) /\ Unescaped(e, p) = <<s[j]>>
        <5>0. p \in Int /\ p + 2 <= Len(e)
          BY <4>3
        <5>1. ~ (p + 2 > Len(e))
          <6> HIDE DEF p
          <6> QED
            BY <1>4, <5>0
        <5> QED
          BY <4>1, <4>3, <5>1, Zenon DEF CutEscape, Escape, Unescaped
      <4> QED
        BY <1>5, <4>2, <4>3, <4>4, Zenon
    <3> QED
      BY <3>1, <3>2
  <2>6. j \in 1 .. n + 1
    BY <1>1
  <2>7. tmp[p] = SubSeq(s, j, n)
    BY <2>3, <2>4, <2>5, Zenon
  <2> QED
    BY <2>6, <2>7
<1>10. tmp[1] = s
  <2>1. 1 \in T
    <3>1. 1 \in 1 .. n + 1
      BY <1>1
    <3> HIDE DEF T
    <3> QED
      BY <1>1, <1>8, <1>9, <3>1, DownInduction
  <2>2. Len(e) - Len(code[1]) + 1 = 1
    BY <1>3, <1>4
  <2>3. SubSeq(s, 1, n) = s
    BY SubSeqFull DEF n
  <2> QED
    BY <2>1, <2>2, <2>3
<1>11. CString(s, 1) = s
  <2>1. \A x \in Char : x # NUL
    BY DEF Char, NUL
  <2>2. \A i \in 1 .. Len(s) : s[i] # NUL
    BY <1>1, <2>1, Zenon DEF n
  <2> QED
    BY <2>2, CStringIs
<1> QED
  BY <1>5, <1>10, <1>11, Zenon DEF e

(* What a client sends as it is, with nothing in it that is an escape, is  *)
(* decoded to itself, but when its last two characters look like an escape *)
(* without its last digit: then the last one is lost, against the comment  *)
(* that says such an escape is kept (http_conn.cpp:417-422, 433).          *)
THEOREM DecodedPlain ==
    ASSUME NEW s \in Seq(Char), Plain(s)
    PROVE  acl_url_decode(s) = IF CutShort(s) THEN SubSeq(s, 1, Len(s) - 1) ELSE s
<1> DEFINE n == Len(s)
           m == IF CutShort(s) THEN n - 1 ELSE n
<1>1. n \in Nat /\ \A i \in 1 .. n : s[i] \in Char
  BY LenProperties, ElementOfSeq
<1>2. CutShort(s) => n >= 2 /\ s[n - 1] = PERCENT
  BY DEF CutShort
<1>3. m \in 0 .. n
  BY <1>1, <1>2
<1>4. PICK tmp \in [1 .. n + 1 -> Seq(Nat)] :
         /\ acl_url_decode(s) = CString(tmp[1], 1)
         /\ tmp[n + 1] = <<>>
         /\ \A i \in 1 .. n :
               /\ CutEscape(s, i) => tmp[i] = <<PERCENT>>
               /\ ~CutEscape(s, i) =>
                   tmp[i] = IF Escape(s, i) THEN Unescaped(s, i) \o tmp[i + 3]
                            ELSE <<s[i]>> \o tmp[i + 1]
  <2>1. Char \subseteq Nat
    BY DEF Char
  <2>2. s \in Seq(Nat)
    BY <2>1, SeqMonotonic
  <2> QED
    BY <2>2, DecodedIs
<1> DEFINE T == {k \in 1 .. n + 1 : (CutShort(s) /\ k = n) \/ tmp[k] = SubSeq(s, k, m)}
<1>5. n + 1 \in T
  <2>1. SubSeq(s, n + 1, m) = <<>> /\ n + 1 \in 1 .. n + 1
    BY <1>1, <1>3, SubSeqEmpty
  <2> QED
    BY <1>4, <2>1
<1>6. ASSUME NEW j \in 1 .. n, \A k \in j + 1 .. n + 1 : k \in T PROVE j \in T
  <2>1. j \in 1 .. n + 1
    BY <1>1
  <2>2. SUFFICES ASSUME ~ (CutShort(s) /\ j = n) PROVE tmp[j] = SubSeq(s, j, m)
    BY <2>1
  <2>3. j \in 1 .. m
    BY <1>1, <1>2, <2>2
  <2>4. SubSeq(s, j, m) = <<s[j]>> \o SubSeq(s, j + 1, m)
    <3>1. m \in j .. Len(s) /\ j \in 1 .. Len(s)
      BY <1>1, <1>3, <2>3 DEF n
    <3> HIDE DEF m
    <3> QED
      BY <3>1, SubSeqRecursiveFirst
  <2>5. CASE CutEscape(s, j)
    <3>1. s[j] = PERCENT /\ j + 2 > n
      BY <2>5 DEF CutEscape
    <3>2. m = j
      <4>1. CASE j = n
        BY <1>1, <2>2, <4>1
      <4>2. CASE j # n
        <5>1. j = n - 1 /\ n >= 2
          BY <1>1, <3>1, <4>2
        <5>2. CutShort(s)
          BY <3>1, <5>1 DEF CutShort
        <5> QED
          BY <5>1, <5>2
      <4> QED
        BY <4>1, <4>2
    <3>3. SubSeq(s, j + 1, m) = <<>>
      BY <1>1, <3>2, SubSeqEmpty
    <3>4. <<s[j]>> \o <<>> = <<s[j]>>
      <4>1. <<s[j]>> \in Seq(Char)
        BY <1>1
      <4> QED
        BY <4>1, ConcatEmptySeq
    <3> QED
      BY <1>4, <2>4, <2>5, <3>1, <3>3, <3>4
  <2>6. CASE ~CutEscape(s, j)
    <3>1. ~Escape(s, j)
      <4>1. ASSUME s[j] = PERCENT PROVE j + 2 <= Len(s)
        BY <1>1, <2>6, <4>1 DEF CutEscape
      <4> QED
        BY <4>1 DEF Plain, Escape
    <3>2. tmp[j] = <<s[j]>> \o tmp[j + 1]
      BY <1>4, <2>6, <3>1
    <3>3. ~ (CutShort(s) /\ j + 1 = n)
      <4>1. ASSUME CutShort(s), j + 1 = n PROVE FALSE
        <5>1. s[j] = PERCENT /\ j + 2 > Len(s)
          BY <1>1, <1>2, <4>1
        <5> QED
          BY <2>6, <5>1 DEF CutEscape
      <4> QED
        BY <4>1
    <3>4. j + 1 \in T
      <4>1. j + 1 \in j + 1 .. n + 1
        BY <1>1
      <4> QED
        BY <1>6, <4>1, Zenon
    <3>5. tmp[j + 1] = SubSeq(s, j + 1, m)
      BY <3>3, <3>4
    <3> QED
      BY <2>4, <3>2, <3>5
  <2> QED
    BY <2>5, <2>6
<1>7. tmp[1] = SubSeq(s, 1, m)
  <2>1. 1 \in T
    <3>1. 1 \in 1 .. n + 1
      BY <1>1
    <3> HIDE DEF T, n
    <3> QED
      BY <1>1, <1>5, <1>6, <3>1, DownInduction
  <2>2. ~ (CutShort(s) /\ 1 = n)
    BY <1>1, <1>2
  <2> HIDE DEF m, n
  <2> QED
    BY <2>1, <2>2, Zenon
<1>8. CString(SubSeq(s, 1, m), 1) = SubSeq(s, 1, m)
  <2> DEFINE t == SubSeq(s, 1, m)
  <2>1. t \in Seq(Char)
    <3>1. 1 \in Int /\ m \in Int /\ \A i \in 1 .. m : s[i] \in Char
      BY <1>1, <1>3
    <3> HIDE DEF m
    <3> QED
      BY <3>1, SubSeqProperties
  <2> HIDE DEF t
  <2>2. \A i \in 1 .. Len(t) : t[i] # NUL
    <3>1. \A i \in 1 .. Len(t) : t[i] \in Char
      BY <2>1, ElementOfSeq
    <3>2. \A c \in Char : c # NUL
      BY DEF Char, NUL
    <3> QED
      BY <3>1, <3>2, Zenon
  <2>3. CString(t, 1) = t
    BY <2>1, <2>2, CStringIs
  <2> QED
    BY <2>3 DEF t
<1>9. SubSeq(s, 1, n) = s
  BY SubSeqFull DEF n
<1> QED
  BY <1>4, <1>7, <1>8, <1>9

(* What stands in a form for a name or a password. *)
SentByte == Nat \ {NUL, CR, LF, AMPERSAND}

LEMMA SentIs ==
    ASSUME NEW r, NEW s \in Seq(Char), r.plain \in BOOLEAN, r.plain => Plain(s)
    PROVE  /\ Sent(r, s) \in Seq(SentByte)
           /\ acl_url_decode(Sent(r, s)) = Decoded(r, s)
<1>1. CASE r.plain
  <2>1. Sent(r, s) = s
    BY <1>1 DEF Sent
  <2>2. s \in Seq(SentByte)
    <3>1. ASSUME NEW i \in 1 .. Len(s) PROVE s[i] \in SentByte
      <4>1. s[i] \in Char
        BY ElementOfSeq
      <4>2. s[i] \notin {LF, CR, AMPERSAND}
        BY <1>1 DEF Plain
      <4>3. \A c \in Char : c \in Nat /\ c # NUL
        BY DEF Char, NUL
      <4> QED
        BY <4>1, <4>2, <4>3, Zenon DEF SentByte
    <3> QED
      BY <3>1, LenProperties, SeqDef
  <2> QED
    BY <1>1, <2>1, <2>2, DecodedPlain DEF Decoded
<1>2. CASE ~r.plain
  <2>1. Sent(r, s) = Encoded(s)
    BY <1>2 DEF Sent
  <2>2. Encoded(s) \in Seq(Safe)
    <3> DEFINE B == 0 .. 255
    <3>1. Char \subseteq B
      BY DEF Char
    <3> HIDE DEF B
    <3>2. s \in Seq(B)
      BY <3>1, SeqMonotonic
    <3> QED
      BY <3>2, EncodedIsSafe DEF B
  <2>3. Safe \subseteq SentByte
    <3>1. \A c \in Safe : c # NUL /\ c # CR /\ c # LF /\ c # AMPERSAND /\ c \in Nat
      BY DEF Safe, isalnum, PERCENT, NUL, CR, LF, AMPERSAND
    <3> QED
      BY <3>1, Zenon DEF SentByte
  <2> QED
    BY <1>2, <2>1, <2>2, <2>3, SeqMonotonic, DecodedEncoded DEF Decoded
<1> QED
  BY <1>1, <1>2

(* The end of a text from its third character on, byte by byte. *)
LEMMA FromThird ==
    ASSUME NEW S, NEW s \in Seq(S), Len(s) >= 2
    PROVE  /\ From(s, 3) \in Seq(S) /\ Len(From(s, 3)) = Len(s) - 2
           /\ \A j \in 1 .. Len(s) - 2 : From(s, 3)[j] = s[j + 2]
<1> DEFINE n == Len(s)  z == SubSeq(s, 3, n)
<1>1. n \in Nat /\ n >= 2 /\ \A j \in 3 .. n : s[j] \in S
  <2>1. n \in Nat /\ \A j \in 1 .. n : s[j] \in S
    BY LenProperties, ElementOfSeq
  <2> QED
    BY <2>1
<1>2. From(s, 3) = z
  BY DEF From
<1>3. 3 \in Int /\ n \in Int
  BY <1>1
<1> HIDE DEF n
<1>4. /\ z \in Seq(S) /\ Len(z) = IF 3 <= n THEN n - 3 + 1 ELSE 0
      /\ \A j \in 1 .. n - 3 + 1 : z[j] = s[3 + j - 1]
  BY <1>1, <1>3, SubSeqProperties
<1> HIDE DEF z
<1>5. Len(z) = n - 2 /\ n - 3 + 1 = n - 2
  BY <1>1, <1>4
<1>6. ASSUME NEW j \in 1 .. n - 2 PROVE z[j] = s[j + 2]
  <2>1. 3 + j - 1 = j + 2
    BY <1>6
  <2> QED
    BY <1>4, <1>5, <2>1
<1> QED
  BY <1>2, <1>4, <1>5, <1>6 DEF n

(* What do_request copies for a password is of the bytes it was sent in.   *)
LEMMA CopiedIs ==
    ASSUME NEW r, IsRequest(r), r.method = POST
    PROVE  /\ Copied(r) \in Seq(Char) /\ r.plain \in BOOLEAN
           /\ r.plain => Plain(Copied(r))
<1> DEFINE p == r.password  z == From(p, 3)
<1>1. /\ p \in Seq(Char) /\ r.plain \in BOOLEAN /\ (r.plain => Plain(p))
      /\ r.field = PASSWD => r.plain /\ Len(p) >= 2
  BY Zenon DEF IsRequest
<1>2. CASE r.field # PASSWD
  BY <1>1, <1>2 DEF Copied
<1>3. CASE r.field = PASSWD
  <2>1. /\ z \in Seq(Char) /\ Len(z) = Len(p) - 2
        /\ \A j \in 1 .. Len(p) - 2 : z[j] = p[j + 2]
    BY <1>1, <1>3, FromThird
  <2>2. Len(p) \in Nat /\ Len(p) >= 2 /\ Plain(p)
    BY <1>1, <1>3, LenProperties
  <2> HIDE DEF z, p
  <2>3. ASSUME NEW i \in 1 .. Len(z)
        PROVE  /\ z[i] \notin {LF, CR, AMPERSAND}
               /\ z[i] = PERCENT /\ i + 2 <= Len(z) => ~(isalnum(z[i + 1]) /\ isalnum(z[i + 2]))
    <3>1. i + 2 \in 1 .. Len(p) /\ z[i] = p[i + 2]
      BY <2>1, <2>2
    <3>2. p[i + 2] \notin {LF, CR, AMPERSAND}
      BY <2>2, <3>1 DEF Plain
    <3>3. ASSUME z[i] = PERCENT, i + 2 <= Len(z)
          PROVE  ~(isalnum(z[i + 1]) /\ isalnum(z[i + 2]))
      <4>1. z[i + 1] = p[(i + 2) + 1] /\ z[i + 2] = p[(i + 2) + 2] /\ (i + 2) + 2 <= Len(p)
        <5>1. /\ i + 1 \in 1 .. Len(p) - 2 /\ i + 2 \in 1 .. Len(p) - 2
              /\ (i + 1) + 2 = (i + 2) + 1 /\ (i + 2) + 2 <= Len(p)
          BY <2>1, <2>2, <3>3
        <5> QED
          BY <2>1, <5>1
      <4>2. ~(isalnum(p[(i + 2) + 1]) /\ isalnum(p[(i + 2) + 2]))
        BY <2>2, <3>1, <3>3, <4>1 DEF Plain
      <4> QED
        BY <4>1, <4>2
    <3> QED
      BY <3>1, <3>2, <3>3
  <2>4. Plain(z)
    BY <2>3 DEF Plain
  <2>5. Copied(r) = z
    BY <1>3 DEF Copied, z, p
  <2> QED
    BY <1>1, <2>1, <2>4, <2>5
<1> QED
  BY <1>2, <1>3
-----------------------------------------------------------------------------
(* Where the parts of a request stand in its bytes.                        *)
Text == Nat \ {CR, LF}

(* The line t stands in w after its first i bytes. *)
LineIn(w, i, t) ==
    /\ t \in Seq(Text)
    /\ i + Len(t) + 2 <= Len(w)
    /\ \A j \in 1 .. Len(t) : w[i + j] = t[j]
    /\ w[i + Len(t) + 1] = CR
    /\ w[i + Len(t) + 2] = LF

RequestText(r)    == <<r.method, SP>> \o r.path \o <<SP, HTTP11>>
KeepText          == <<CONNECTION, SP, KEEP_ALIVE>>
LengthText(r)     == <<CONTENT_LENGTH, SP, Numeral(Len(Form(r)))>>

AfterRequestLine(r) == Len(r.path) + 4 + Len(r.eol)
AfterKeepAlive(r)   == AfterRequestLine(r) + (IF r.keep THEN 5 ELSE 0)
AfterLength(r)      == AfterKeepAlive(r) + (IF r.method = POST THEN 5 ELSE 0)
AfterHead(r)        == AfterLength(r) + 2

LEMMA Joined ==
    ASSUME NEW a \in Seq(Nat), NEW b \in Seq(Nat)
    PROVE  /\ a \o b \in Seq(Nat)
           /\ Len(a) \in Nat /\ Len(b) \in Nat /\ Len(a \o b) = Len(a) + Len(b)
           /\ \A j \in 1 .. Len(a) : (a \o b)[j] = a[j]
           /\ \A j \in 1 .. Len(b) : (a \o b)[Len(a) + j] = b[j]
<1>1. /\ a \o b \in Seq(Nat) /\ Len(a \o b) = Len(a) + Len(b)
      /\ \A j \in 1 .. Len(a) + Len(b) : (a \o b)[j] = IF j <= Len(a) THEN a[j] ELSE b[j - Len(a)]
  BY ConcatProperties
<1>2. Len(a) \in Nat /\ Len(b) \in Nat
  BY LenProperties
<1>3. ASSUME NEW j \in 1 .. Len(a) PROVE (a \o b)[j] = a[j]
  BY <1>1, <1>2
<1>4. ASSUME NEW j \in 1 .. Len(b) PROVE (a \o b)[Len(a) + j] = b[j]
  <2>1. /\ Len(a) + j \in 1 .. Len(a) + Len(b) /\ ~ (Len(a) + j <= Len(a))
        /\ (Len(a) + j) - Len(a) = j
    BY <1>2
  <2> QED
    BY <1>1, <2>1
<1> QED
  BY <1>1, <1>2, <1>3, <1>4

(* What a form is made of. *)
FormByte == Nat \ {NUL, CR, LF}

LEMMA FormIs ==
    ASSUME NEW r, IsRequest(r)
    PROVE  /\ Form(r) \in Seq(FormByte) /\ Form(r) \in Seq(Nat) /\ Len(Form(r)) \in Nat
           /\ r.method = POST => Len(Form(r)) > 0
           /\ r.method # POST => Len(Form(r)) = 0
<1>0. FormByte \subseteq Nat
  BY DEF FormByte
<1>1. CASE r.method = POST
  <2>1. /\ r.field \in {PASSWORD, PASSWD} /\ r.plain \in BOOLEAN
        /\ r.name \in Seq(Char) /\ (r.plain => Plain(r.name))
        /\ r.password \in Seq(Char) /\ (r.plain => Plain(r.password))
    BY <1>1, Zenon DEF IsRequest
  <2> DEFINE x == Sent(r, r.name)  y == Sent(r, r.password)
             a == <<USER>>  b == <<AMPERSAND, r.field>>
  <2>2. x \in Seq(FormByte) /\ y \in Seq(FormByte)
    <3>1. SentByte \subseteq FormByte
      BY DEF FormByte, SentByte
    <3>2. x \in Seq(SentByte) /\ y \in Seq(SentByte)
      BY <2>1, SentIs, Zenon
    <3> QED
      BY <3>1, <3>2, SeqMonotonic
  <2>3. a \in Seq(FormByte) /\ b \in Seq(FormByte) /\ Len(a) = 1
    <3>1. r.field \in FormByte
      BY <2>1 DEF FormByte, PASSWORD, PASSWD, NUL, CR, LF
    <3> QED
      BY <3>1 DEF FormByte, USER, AMPERSAND, NUL, CR, LF
  <2>4. Form(r) = ((a \o x) \o b) \o y
    BY <1>1, Zenon DEF Form
  <2> HIDE DEF x, y, a, b
  <2>5. a \o x \in Seq(FormByte) /\ Len(a \o x) = 1 + Len(x) /\ Len(x) \in Nat
    BY <2>2, <2>3, ConcatProperties, LenProperties
  <2>6. /\ (a \o x) \o b \in Seq(FormByte) /\ Len((a \o x) \o b) = Len(a \o x) + Len(b)
        /\ Len(b) \in Nat
    BY <2>3, <2>5, ConcatProperties, LenProperties
  <2>7. /\ Form(r) \in Seq(FormByte) /\ Len(Form(r)) = Len((a \o x) \o b) + Len(y)
        /\ Len(y) \in Nat
    BY <2>2, <2>4, <2>6, ConcatProperties, LenProperties
  <2>8. Form(r) \in Seq(Nat)
    BY <1>0, <2>7, SeqMonotonic
  <2>9. Len(Form(r)) \in Nat /\ Len(Form(r)) > 0
    BY <2>5, <2>6, <2>7
  <2> QED
    BY <1>1, <2>7, <2>8, <2>9
<1>2. CASE r.method # POST
  <2>1. Form(r) = <<>>
    BY <1>2 DEF Form
  <2> QED
    BY <1>2, <2>1
<1> QED
  BY <1>1, <1>2

(* The places of a text and of what is appended to it. *)
LEMMA Grown ==
    ASSUME NEW k \in Nat, NEW d \in Nat, NEW n, n = k + d
    PROVE  /\ n \in Nat /\ k <= n
           /\ \A j \in 1 .. k : j \in 1 .. n
           /\ \A j \in 1 .. d : k + j \in 1 .. n
OBVIOUS

(* The bytes of a request: its lines, an empty one and its form. *)
LEMMA BytesAre ==
    ASSUME NEW r, IsRequest(r)
    PROVE  /\ Bytes(r) \in Seq(Nat)
           /\ AfterHead(r) \in Nat
           /\ Len(Bytes(r)) = AfterHead(r) + Len(Form(r))
           /\ RequestText(r) \in Seq(Text) /\ Len(RequestText(r)) = Len(r.path) + 4
           /\ \A j \in 1 .. Len(r.path) + 4 : Bytes(r)[j] = RequestText(r)[j]
           /\ \A j \in 1 .. Len(r.eol) : Bytes(r)[Len(r.path) + 4 + j] = r.eol[j]
           /\ r.keep => LineIn(Bytes(r), AfterRequestLine(r), KeepText)
           /\ r.method = POST => LineIn(Bytes(r), AfterKeepAlive(r), LengthText(r))
           /\ LineIn(Bytes(r), AfterLength(r), <<>>)
           /\ \A j \in 1 .. Len(Form(r)) : Bytes(r)[AfterHead(r) + j] = Form(r)[j]
<1>1. /\ r.method \in Word /\ r.path \in Seq(Word) /\ r.keep \in BOOLEAN
      /\ r.eol \in {<<CR, LF>>, <<LF>>}
  BY DEF IsRequest
<1>2. /\ Word \subseteq Text /\ Text \subseteq Nat /\ SP \in Text /\ HTTP11 \in Text
      /\ CONNECTION \in Text /\ KEEP_ALIVE \in Text /\ CONTENT_LENGTH \in Text
      /\ \A n \in Nat : Numeral(n) \in Text
      /\ CR \in Nat /\ LF \in Nat
  BY DEF Word, Text, SP, HTTP11, CONNECTION, KEEP_ALIVE, CONTENT_LENGTH, Numeral, CR, LF
<1> DEFINE a1 == <<r.method, SP>>  a2 == r.path  a3 == <<SP, HTTP11>>  a4 == r.eol
           a5 == IF r.keep THEN <<CONNECTION, SP, KEEP_ALIVE, CR, LF>> ELSE <<>>
           a6 == IF r.method = POST
                 THEN <<CONTENT_LENGTH, SP, Numeral(Len(Form(r))), CR, LF>> ELSE <<>>
           a7 == <<CR, LF>>  a8 == Form(r)
           x2 == a1 \o a2  x3 == x2 \o a3  x4 == x3 \o a4  x5 == x4 \o a5
           x6 == x5 \o a6  x7 == x6 \o a7  x8 == x7 \o a8
<1>3. Bytes(r) = x8 /\ RequestText(r) = x3
  BY Zenon DEF Bytes, RequestHead, RequestText
<1>4. /\ a1 \in Seq(Text) /\ Len(a1) = 2 /\ a1[1] = r.method /\ a1[2] = SP
      /\ a3 \in Seq(Text) /\ Len(a3) = 2
      /\ a7 \in Seq(Nat) /\ Len(a7) = 2 /\ a7[1] = CR /\ a7[2] = LF
  <2>1. r.method \in Text /\ SP \in Text /\ HTTP11 \in Text /\ CR \in Nat /\ LF \in Nat
    BY <1>1, <1>2
  <2> QED
    BY <2>1
<1>5. a2 \in Seq(Text) /\ Len(a2) \in Nat
  BY <1>1, <1>2, SeqMonotonic, LenProperties
<1>6. a4 \in Seq(Nat) /\ Len(a4) \in Nat
  <2>1. CR \in Nat /\ LF \in Nat
    BY <1>2
  <2>2. CASE a4 = <<CR, LF>>
    BY <2>1, <2>2
  <2>3. CASE a4 = <<LF>>
    BY <2>1, <2>3
  <2> QED
    BY <1>1, <2>2, <2>3
<1>7. a8 \in Seq(Nat) /\ Len(a8) \in Nat
  BY FormIs
<1>8. /\ a5 \in Seq(Nat) /\ Len(a5) = IF r.keep THEN 5 ELSE 0
      /\ r.keep => /\ a5[1] = CONNECTION /\ a5[2] = SP /\ a5[3] = KEEP_ALIVE
                   /\ a5[4] = CR /\ a5[5] = LF
  BY <1>1, <1>2
<1>9. /\ a6 \in Seq(Nat) /\ Len(a6) = IF r.method = POST THEN 5 ELSE 0
      /\ r.method = POST => /\ a6[1] = CONTENT_LENGTH /\ a6[2] = SP
                            /\ a6[3] = Numeral(Len(Form(r))) /\ a6[4] = CR /\ a6[5] = LF
  <2> DEFINE num == Numeral(Len(Form(r)))
  <2>1. num \in Nat /\ CONTENT_LENGTH \in Nat /\ SP \in Nat /\ CR \in Nat /\ LF \in Nat
    <3>1. Len(Form(r)) \in Nat
      BY <1>7
    <3>2. num \in Text
      BY <1>2, <3>1, Zenon
    <3> HIDE DEF num
    <3> QED
      BY <1>2, <3>2
  <2> HIDE DEF num
  <2>2. a6 = IF r.method = POST THEN <<CONTENT_LENGTH, SP, num, CR, LF>> ELSE <<>>
    BY DEF num
  <2> HIDE DEF a6
  <2>3. CASE r.method = POST
    <3>1. a6 = <<CONTENT_LENGTH, SP, num, CR, LF>>
      BY <2>2, <2>3
    <3>2. /\ a6 \in Seq(Nat) /\ Len(a6) = 5 /\ a6[1] = CONTENT_LENGTH /\ a6[2] = SP
          /\ a6[3] = num /\ a6[4] = CR /\ a6[5] = LF
      BY <2>1, <3>1
    <3> QED
      BY <2>3, <3>2 DEF num
  <2>4. CASE r.method # POST
    <3>1. a6 = <<>>
      BY <2>2, <2>4
    <3> QED
      BY <2>4, <3>1
  <2> QED
    BY <2>3, <2>4
<1>10. KeepText \in Seq(Text) /\ LengthText(r) \in Seq(Text) /\ <<>> \in Seq(Text)
  BY <1>2, <1>7 DEF KeepText, LengthText
<1> HIDE DEF a1, a2, a3, a4, a5, a6, a7, a8
<1>11. a1 \in Seq(Nat) /\ a2 \in Seq(Nat) /\ a3 \in Seq(Nat)
  BY <1>2, <1>4, <1>5, SeqMonotonic
<1>12. x3 \in Seq(Text)
  BY <1>4, <1>5, ConcatProperties
<1>13. x2 \in Seq(Nat) /\ Len(x2) = Len(a1) + Len(a2)
  BY <1>11, Joined
<1> HIDE DEF x2
<1>14. x3 \in Seq(Nat) /\ Len(x3) = Len(x2) + Len(a3)
  BY <1>11, <1>13, Joined
<1> HIDE DEF x3
<1>15. /\ x4 \in Seq(Nat) /\ Len(x4) = Len(x3) + Len(a4)
       /\ \A j \in 1 .. Len(x3) : x4[j] = x3[j]
       /\ \A j \in 1 .. Len(a4) : x4[Len(x3) + j] = a4[j]
  BY <1>6, <1>14, Joined
<1> HIDE DEF x4
<1>16. /\ x5 \in Seq(Nat) /\ Len(x5) = Len(x4) + Len(a5)
       /\ \A j \in 1 .. Len(x4) : x5[j] = x4[j]
       /\ \A j \in 1 .. Len(a5) : x5[Len(x4) + j] = a5[j]
  BY <1>8, <1>15, Joined
<1> HIDE DEF x5
<1>17. /\ x6 \in Seq(Nat) /\ Len(x6) = Len(x5) + Len(a6)
       /\ \A j \in 1 .. Len(x5) : x6[j] = x5[j]
       /\ \A j \in 1 .. Len(a6) : x6[Len(x5) + j] = a6[j]
  BY <1>9, <1>16, Joined
<1> HIDE DEF x6
<1>18. /\ x7 \in Seq(Nat) /\ Len(x7) = Len(x6) + Len(a7)
       /\ \A j \in 1 .. Len(x6) : x7[j] = x6[j]
       /\ \A j \in 1 .. Len(a7) : x7[Len(x6) + j] = a7[j]
  BY <1>4, <1>17, Joined
<1> HIDE DEF x7
<1>19. /\ x8 \in Seq(Nat) /\ Len(x8) = Len(x7) + Len(a8)
       /\ \A j \in 1 .. Len(x7) : x8[j] = x7[j]
       /\ \A j \in 1 .. Len(a8) : x8[Len(x7) + j] = a8[j]
  BY <1>7, <1>18, Joined
<1> HIDE DEF x8
<1>20. /\ Len(a4) \in Nat /\ Len(a5) \in Nat /\ Len(a6) \in Nat /\ Len(a7) = 2
       /\ Len(a8) \in Nat /\ Len(a5) = (IF r.keep THEN 5 ELSE 0)
       /\ Len(a6) = IF r.method = POST THEN 5 ELSE 0
       /\ Len(x3) = Len(r.path) + 4 /\ Len(r.path) \in Nat /\ Len(x4) = Len(x3) + Len(a4)
       /\ Len(x5) = Len(x4) + Len(a5) /\ Len(x6) = Len(x5) + Len(a6)
       /\ Len(x7) = Len(x6) + 2 /\ Len(x8) = Len(x7) + Len(a8)
  <2>1. /\ Len(a4) \in Nat /\ Len(a5) \in Nat /\ Len(a6) \in Nat /\ Len(a7) = 2
        /\ Len(a8) \in Nat
    BY <1>4, <1>6, <1>7, <1>8, <1>9
  <2>2. Len(x3) = Len(r.path) + 4 /\ Len(r.path) \in Nat
    BY <1>4, <1>5, <1>13, <1>14 DEF a2
  <2> QED
    BY <1>8, <1>9, <1>15, <1>16, <1>17, <1>18, <1>19, <2>1, <2>2
<1>31. /\ Len(x4) = AfterRequestLine(r) /\ Len(x5) = AfterKeepAlive(r)
       /\ Len(x6) = AfterLength(r) /\ Len(x7) = AfterHead(r)
  <2>1. Len(r.eol) = Len(a4)
    BY DEF a4
  <2>3. Len(x4) = AfterRequestLine(r)
    BY <1>20, <2>1, Zenon DEF AfterRequestLine
  <2>4. Len(x5) = AfterKeepAlive(r)
    BY <1>20, <2>3, Zenon DEF AfterKeepAlive
  <2>5. Len(x6) = AfterLength(r)
    BY <1>20, <2>4, Zenon DEF AfterLength
  <2>6. Len(x7) = AfterHead(r)
    BY <1>20, <2>5, Zenon DEF AfterHead
  <2> QED
    BY <2>3, <2>4, <2>5, <2>6
(* A part of the request, as it stands in the whole. *)
<1>32. /\ Len(x3) \in Nat
       /\ Len(x4) \in Nat /\ \A j \in 1 .. Len(x3) : j \in 1 .. Len(x4)
       /\ Len(x5) \in Nat /\ \A j \in 1 .. Len(x4) : j \in 1 .. Len(x5)
       /\ Len(x6) \in Nat /\ \A j \in 1 .. Len(x5) : j \in 1 .. Len(x6)
       /\ Len(x7) \in Nat /\ \A j \in 1 .. Len(x6) : j \in 1 .. Len(x7)
       /\ Len(x8) \in Nat /\ \A j \in 1 .. Len(x7) : j \in 1 .. Len(x8)
       /\ Len(x5) <= Len(x6) /\ Len(x6) <= Len(x7) /\ Len(x7) <= Len(x8)
       /\ \A j \in 1 .. Len(a4) : Len(x3) + j \in 1 .. Len(x4)
       /\ \A j \in 1 .. Len(a5) : Len(x4) + j \in 1 .. Len(x5)
       /\ \A j \in 1 .. Len(a6) : Len(x5) + j \in 1 .. Len(x6)
       /\ \A j \in 1 .. 2 : Len(x6) + j \in 1 .. Len(x7)
  <2>1. Len(x3) \in Nat
    BY <1>14, LenProperties
  <2>2. /\ Len(x4) \in Nat /\ \A j \in 1 .. Len(x3) : j \in 1 .. Len(x4)
        /\ \A j \in 1 .. Len(a4) : Len(x3) + j \in 1 .. Len(x4)
    BY <1>20, <2>1, Grown, Zenon
  <2>3. /\ Len(x5) \in Nat /\ \A j \in 1 .. Len(x4) : j \in 1 .. Len(x5)
        /\ \A j \in 1 .. Len(a5) : Len(x4) + j \in 1 .. Len(x5)
    BY <1>20, <2>2, Grown, Zenon
  <2>4. /\ Len(x6) \in Nat /\ \A j \in 1 .. Len(x5) : j \in 1 .. Len(x6)
        /\ \A j \in 1 .. Len(a6) : Len(x5) + j \in 1 .. Len(x6)
        /\ Len(x5) <= Len(x6)
    BY <1>20, <2>3, Grown, Zenon
  <2>5. 2 \in Nat
    OBVIOUS
  <2>6. /\ Len(x7) \in Nat /\ \A j \in 1 .. Len(x6) : j \in 1 .. Len(x7)
        /\ \A j \in 1 .. 2 : Len(x6) + j \in 1 .. Len(x7)
        /\ Len(x6) <= Len(x7)
    BY <1>20, <2>4, <2>5, Grown, Zenon
  <2>7. /\ Len(x8) \in Nat /\ \A j \in 1 .. Len(x7) : j \in 1 .. Len(x8)
        /\ Len(x7) <= Len(x8)
    BY <1>20, <2>6, Grown, Zenon
  <2> QED
    BY <2>1, <2>2, <2>3, <2>4, <2>6, <2>7, Zenon
<1>21. /\ \A j \in 1 .. Len(x6) : x8[j] = x6[j]
       /\ \A j \in 1 .. Len(x5) : x8[j] = x5[j]
       /\ \A j \in 1 .. Len(x4) : x8[j] = x4[j]
       /\ \A j \in 1 .. Len(x3) : x8[j] = x3[j]
  <2>1. ASSUME NEW j \in 1 .. Len(x6) PROVE x8[j] = x6[j]
    <3>1. j \in 1 .. Len(x7)
      BY <1>32, Zenon
    <3> QED
      BY <1>18, <1>19, <3>1
  <2>2. ASSUME NEW j \in 1 .. Len(x5) PROVE x8[j] = x5[j]
    <3>1. j \in 1 .. Len(x6)
      BY <1>32, Zenon
    <3> QED
      BY <1>17, <2>1, <3>1
  <2>3. ASSUME NEW j \in 1 .. Len(x4) PROVE x8[j] = x4[j]
    <3>1. j \in 1 .. Len(x5)
      BY <1>32, Zenon
    <3> QED
      BY <1>16, <2>2, <3>1
  <2>4. ASSUME NEW j \in 1 .. Len(x3) PROVE x8[j] = x3[j]
    <3>1. j \in 1 .. Len(x4)
      BY <1>32, Zenon
    <3> QED
      BY <1>15, <2>3, <3>1
  <2> QED
    BY <2>1, <2>2, <2>3, <2>4
<1>22. ASSUME NEW j \in 1 .. Len(a4) PROVE x8[Len(x3) + j] = a4[j]
  <2>1. Len(x3) + j \in 1 .. Len(x4)
    BY <1>20, <1>32, Zenon
  <2> QED
    BY <1>15, <1>21, <2>1
<1>23. ASSUME NEW j \in 1 .. Len(a5) PROVE x8[Len(x4) + j] = a5[j]
  <2>1. Len(x4) + j \in 1 .. Len(x5)
    BY <1>20, <1>32, Zenon
  <2> QED
    BY <1>16, <1>21, <2>1
<1>24. ASSUME NEW j \in 1 .. Len(a6) PROVE x8[Len(x5) + j] = a6[j]
  <2>1. Len(x5) + j \in 1 .. Len(x6)
    BY <1>20, <1>32, Zenon
  <2> QED
    BY <1>17, <1>21, <2>1
<1>25. ASSUME NEW j \in 1 .. Len(a7) PROVE x8[Len(x6) + j] = a7[j]
  <2>1. Len(x6) + j \in 1 .. Len(x7)
    BY <1>20, <1>32, Zenon
  <2> QED
    BY <1>18, <1>19, <2>1
<1>26. ASSUME r.keep PROVE LineIn(x8, Len(x4), KeepText)
  <2>1. /\ Len(KeepText) = 3 /\ KeepText[1] = CONNECTION /\ KeepText[2] = SP
        /\ KeepText[3] = KEEP_ALIVE
    BY DEF KeepText
  <2>2. /\ x8[Len(x4) + 1] = CONNECTION /\ x8[Len(x4) + 2] = SP
        /\ x8[Len(x4) + 3] = KEEP_ALIVE /\ x8[Len(x4) + 4] = CR /\ x8[Len(x4) + 5] = LF
    BY <1>8, <1>23, <1>26
  <2>3. Len(x4) + 5 <= Len(x8)
    <3>1. Len(x5) = Len(x4) + 5
      BY <1>20, <1>26, Zenon
    <3> QED
      BY <1>32, <3>1
  <2>4. Len(x4) + 3 + 1 = Len(x4) + 4 /\ Len(x4) + 3 + 2 = Len(x4) + 5
    BY <1>32
  <2>5. \A j \in 1 .. 3 : x8[Len(x4) + j] = KeepText[j]
    <3>1. \A j \in 1 .. 3 : j = 1 \/ j = 2 \/ j = 3
      OBVIOUS
    <3> QED
      BY <2>1, <2>2, <3>1
  <2> QED
    BY <1>10, <2>1, <2>2, <2>3, <2>4, <2>5 DEF LineIn
<1>27. ASSUME r.method = POST PROVE LineIn(x8, Len(x5), LengthText(r))
  <2>1. /\ Len(LengthText(r)) = 3 /\ LengthText(r)[1] = CONTENT_LENGTH /\ LengthText(r)[2] = SP
        /\ LengthText(r)[3] = Numeral(Len(Form(r)))
    BY DEF LengthText
  <2>2. /\ x8[Len(x5) + 1] = CONTENT_LENGTH /\ x8[Len(x5) + 2] = SP
        /\ x8[Len(x5) + 3] = Numeral(Len(Form(r)))
        /\ x8[Len(x5) + 4] = CR /\ x8[Len(x5) + 5] = LF
    BY <1>9, <1>24, <1>27
  <2>3. Len(x5) + 5 <= Len(x8)
    <3>1. Len(x6) = Len(x5) + 5
      BY <1>20, <1>27, Zenon
    <3> QED
      BY <1>32, <3>1
  <2>4. Len(x5) + 3 + 1 = Len(x5) + 4 /\ Len(x5) + 3 + 2 = Len(x5) + 5
    BY <1>32
  <2>5. \A j \in 1 .. 3 : x8[Len(x5) + j] = LengthText(r)[j]
    <3>1. \A j \in 1 .. 3 : j = 1 \/ j = 2 \/ j = 3
      OBVIOUS
    <3> QED
      BY <2>1, <2>2, <3>1
  <2> QED
    BY <1>10, <2>1, <2>2, <2>3, <2>4, <2>5 DEF LineIn
<1>28. LineIn(x8, Len(x6), <<>>)
  <2>1. x8[Len(x6) + 1] = CR /\ x8[Len(x6) + 2] = LF
    BY <1>4, <1>25
  <2>2. Len(x6) + 0 + 2 <= Len(x8) /\ Len(x6) + 0 + 1 = Len(x6) + 1 /\ Len(x6) + 0 + 2 = Len(x6) + 2
    <3>1. Len(x7) = Len(x6) + 2
      BY <1>20, Zenon
    <3> QED
      BY <1>32, <3>1
  <2>3. Len(<<>>) = 0
    OBVIOUS
  <2> QED
    BY <1>10, <2>1, <2>2, <2>3 DEF LineIn
<1>29. /\ Len(x8) = AfterHead(r) + Len(Form(r))
       /\ \A j \in 1 .. Len(Form(r)) : x8[AfterHead(r) + j] = Form(r)[j]
  BY <1>19, <1>31, Zenon DEF a8
<1>30. \A j \in 1 .. Len(r.eol) : x8[Len(r.path) + 4 + j] = r.eol[j]
  BY <1>20, <1>22, Zenon DEF a4
<1> QED
  BY <1>3, <1>12, <1>19, <1>20, <1>21, <1>26, <1>27, <1>28, <1>29, <1>30, <1>31, <1>32, Zenon
=============================================================================
