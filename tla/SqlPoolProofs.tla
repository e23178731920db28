---------------------------- MODULE SqlPoolProofs ----------------------------
(***************************************************************************)
(* Theorems about SqlConnectionPool, for every number of threads and of    *)
(* connections, whether or not the pool is destroyed under its users.      *)
(***************************************************************************)
EXTENDS SqlConnectionPool, FiniteSetTheorems, SequenceTheorems, TLAPS

-----------------------------------------------------------------------------
(* Threads at a place of the code, and how many. *)

LEMMA AtFinite == ASSUME NEW p PROVE IsFiniteSet(At(p)) /\ Cardinality(At(p)) \in Nat
<1>1. IsFiniteSet(At(p))
  BY PoolAssumption, FS_Subset DEF PoolAssumption, At
<1> QED
  BY <1>1, FS_CardinalityType

LEMMA Leaving ==
    ASSUME TypeOK, NEW t \in Threads, NEW p, NEW q, pc[t] = p, p # q, Goto(t, q)
    PROVE  Cardinality(At(p)') = Cardinality(At(p)) - 1
<1>1. At(p)' = At(p) \ {t}
  BY DEF At, Goto, TypeOK
<1>2. t \in At(p)
  BY DEF At
<1> QED
  BY <1>1, <1>2, AtFinite, FS_RemoveElement

LEMMA Arriving ==
    ASSUME TypeOK, NEW t \in Threads, NEW q, pc[t] # q, Goto(t, q)
    PROVE  Cardinality(At(q)') = Cardinality(At(q)) + 1
<1>1. At(q)' = At(q) \cup {t}
  BY DEF At, Goto, TypeOK
<1>2. t \notin At(q)
  BY DEF At
<1> QED
  BY <1>1, <1>2, AtFinite, FS_AddElement

LEMMA Passing ==
    ASSUME TypeOK, NEW t \in Threads, NEW p, NEW q, pc[t] # p, p # q, Goto(t, q)
    PROVE  At(p)' = At(p)
  BY DEF At, Goto, TypeOK

-----------------------------------------------------------------------------
(* The list. *)

LEMMA AppendOne ==
    ASSUME NEW S, NEW s \in Seq(S), NEW e \in S
    PROVE  /\ Append(s, e) \in Seq(S)
           /\ Len(Append(s, e)) = Len(s) + 1
           /\ \A i \in 1 .. Len(s) : Append(s, e)[i] = s[i]
           /\ Append(s, e)[Len(s) + 1] = e
  OBVIOUS

LEMMA InitialList ==
    /\ [i \in 1 .. MaxConn |-> i] \in Seq(Mysql)
    /\ Len([i \in 1 .. MaxConn |-> i]) = MaxConn
  BY PoolAssumption DEF PoolAssumption, Mysql

(* Taking the front of a list without duplicates takes just that element.  *)
LEMMA TailListed ==
    ASSUME TypeOK, OneUser, connList # <<>>, connList' = Tail(connList)
    PROVE  /\ Head(connList) \in Mysql
           /\ Head(connList) \in Listed
           /\ Listed' = Listed \ {Head(connList)}
           /\ \A i, j \in 1 .. Len(connList)' : connList'[i] = connList'[j] => i = j
           /\ Len(connList)' = Len(connList) - 1
           /\ connList' \in Seq(Mysql)
<1>1. /\ Head(connList) \in Mysql
      /\ connList' \in Seq(Mysql)
      /\ Len(connList)' = Len(connList) - 1
      /\ \A i \in 1 .. Len(connList)' : connList'[i] = connList[i + 1]
  BY HeadTailProperties DEF TypeOK
<1>2. Len(connList) \in Nat \ {0} /\ Head(connList) = connList[1]
  BY EmptySeq DEF TypeOK
<1>3. \A i, j \in 1 .. Len(connList) : connList[i] = connList[j] => i = j
  BY DEF OneUser
<1>4. Head(connList) \in Listed
  BY <1>2 DEF Listed
<1>5. \A i, j \in 1 .. Len(connList)' : connList'[i] = connList'[j] => i = j
  <2> SUFFICES ASSUME NEW i \in 1 .. Len(connList)', NEW j \in 1 .. Len(connList)',
                      connList'[i] = connList'[j]
               PROVE  i = j
    OBVIOUS
  <2>1. i + 1 \in 1 .. Len(connList) /\ j + 1 \in 1 .. Len(connList)
    BY <1>1, <1>2
  <2>2. connList[i + 1] = connList[j + 1]
    BY <1>1
  <2> QED
    BY <1>3, <2>1, <2>2
<1>6. Listed' \subseteq Listed \ {Head(connList)}
  <2> SUFFICES ASSUME NEW i \in 1 .. Len(connList)'
               PROVE  connList'[i] \in Listed \ {Head(connList)}
    BY DEF Listed
  <2>1. i + 1 \in 1 .. Len(connList) /\ 1 \in 1 .. Len(connList) /\ i + 1 # 1
    BY <1>1, <1>2
  <2>2. connList'[i] = connList[i + 1]
    BY <1>1
  <2> QED
    BY <1>2, <1>3, <2>1, <2>2 DEF Listed
<1>7. Listed \ {Head(connList)} \subseteq Listed'
  <2> SUFFICES ASSUME NEW i \in 1 .. Len(connList), connList[i] # Head(connList)
               PROVE  connList[i] \in Listed'
    BY DEF Listed
  <2>1. i # 1
    BY <1>2
  <2>2. i - 1 \in 1 .. Len(connList)' /\ (i - 1) + 1 = i
    BY <1>1, <1>2, <2>1
  <2>3. connList'[i - 1] = connList[i]
    BY <1>1, <2>2
  <2> QED
    BY <2>2, <2>3 DEF Listed
<1> QED
  BY <1>1, <1>4, <1>5, <1>6, <1>7

LEMMA AppendListed ==
    ASSUME TypeOK, OneUser, NEW c \in Mysql, c \notin Listed,
           connList' = Append(connList, c)
    PROVE  /\ Listed' = Listed \cup {c}
           /\ \A i, j \in 1 .. Len(connList)' : connList'[i] = connList'[j] => i = j
           /\ Len(connList)' = Len(connList) + 1
           /\ connList' \in Seq(Mysql)
<1>1. /\ connList' \in Seq(Mysql)
      /\ Len(connList)' = Len(connList) + 1
      /\ \A i \in 1 .. Len(connList) : connList'[i] = connList[i]
      /\ connList'[Len(connList) + 1] = c
  BY AppendOne DEF TypeOK
<1>2. Len(connList) \in Nat
  BY LenProperties DEF TypeOK
<1>3. \A i \in 1 .. Len(connList)' : i \in 1 .. Len(connList) \/ i = Len(connList) + 1
  BY <1>1, <1>2
<1>4. 1 .. Len(connList) \subseteq 1 .. Len(connList)'
      /\ Len(connList) + 1 \in 1 .. Len(connList)'
  BY <1>1, <1>2
<1>5. \A i \in 1 .. Len(connList) : connList[i] # c
  BY DEF Listed
<1>6. \A i, j \in 1 .. Len(connList)' : connList'[i] = connList'[j] => i = j
  BY <1>1, <1>3, <1>5 DEF OneUser
<1>7. Listed' = Listed \cup {c}
  <2>1. Listed' \subseteq Listed \cup {c}
    BY <1>1, <1>3 DEF Listed
  <2>2. Listed \subseteq Listed'
    BY <1>1, <1>4 DEF Listed
  <2>3. c \in Listed'
    BY <1>1, <1>4 DEF Listed
  <2> QED
    BY <2>1, <2>2, <2>3
<1> QED
  BY <1>1, <1>6, <1>7

-----------------------------------------------------------------------------
(* The invariant holds at first. *)

LEMMA InitTypeOK == Init => TypeOK
<1> SUFFICES ASSUME Init PROVE TypeOK
  OBVIOUS
<1>1. connList \in Seq(Mysql)
  BY InitialList DEF Init
<1>2. m_FreeConn \in Int /\ m_CurConn \in Int /\ reserve \in Nat
  BY PoolAssumption DEF PoolAssumption, Init
<1> QED
  BY <1>1, <1>2 DEF Init, TypeOK, PoolPC

LEMMA InitInv == Init => Inv
<1> SUFFICES ASSUME Init PROVE Inv
  OBVIOUS
<1>1. TypeOK
  BY InitTypeOK
<1>2. Len(connList) = MaxConn /\ MaxConn \in Nat
  BY InitialList, PoolAssumption DEF Init, PoolAssumption
<1>3. At("lock") = {} /\ At("post") = {} /\ {t \in Threads : conRAII[t] # NULL} = {}
  BY DEF Init, At
<1>4. PermitsMatch
  <2>1. Cardinality(At("lock")) = 0 /\ Cardinality(At("post")) = 0
    BY <1>3, FS_EmptySet
  <2>2. reserve = Len(connList)
    BY <1>2 DEF Init
  <2> QED
    BY <1>2, <2>1, <2>2 DEF PermitsMatch
<1>5. CountersTrue
  BY <1>2, <1>3, FS_EmptySet DEF CountersTrue, Init
<1>6. \A i \in 1 .. Len(connList) : connList[i] = i
  BY <1>2 DEF Init
<1>7. OneUser
  BY <1>6 DEF OneUser, Init
<1>8. NoneLost
  BY <1>2, <1>6 DEF NoneLost, Listed, Mysql
<1>9. HoldsInUse /\ (aborted => destroyed)
  BY DEF HoldsInUse, Init
<1> QED
  BY <1>1, <1>4, <1>5, <1>7, <1>8, <1>9 DEF Inv
-----------------------------------------------------------------------------
(* Every step keeps it. *)

LEMMA GotoType ==
    ASSUME TypeOK, NEW t \in Threads, NEW q \in PoolPC, Goto(t, q)
    PROVE  pc' \in [Threads -> PoolPC] /\ pc'[t] = q
           /\ \A u \in Threads \ {t} : pc'[u] = pc[u]
  BY DEF TypeOK, Goto

LEMMA CallerTypeOK ==
    ASSUME Inv, NEW t \in Threads, Caller(t)
    PROVE  TypeOK'
<1> USE DEF Inv
<1>1. CASE CheckEmpty(t)
  BY <1>1 DEF CheckEmpty, Goto, TypeOK, PoolPC
<1>2. CASE WaitReserve(t)
  <2>1. reserve - 1 \in Nat
    BY <1>2 DEF WaitReserve, TypeOK
  <2> QED
    BY <1>2, <2>1 DEF WaitReserve, Goto, TypeOK, PoolPC
<1>3. CASE TakeFront(t)
  <2>1. connList' \in Seq(Mysql) /\ Head(connList) \in Mysql
    BY <1>3, TailListed DEF TakeFront
  <2>2. m_FreeConn' \in Int /\ m_CurConn' \in Int
    BY <1>3 DEF TakeFront, TypeOK
  <2> QED
    BY <1>3, <2>1, <2>2 DEF TakeFront, Goto, TypeOK, PoolPC
<1>4. CASE PopEmpty(t)
  BY <1>4 DEF PopEmpty, TypeOK
<1>5. CASE ReleaseNull(t)
  BY <1>5 DEF ReleaseNull, Goto, TypeOK, PoolPC
<1>6. CASE PushBack(t)
  <2>1. conRAII[t] \in Mysql
    BY <1>6 DEF PushBack, HoldsInUse, TypeOK
  <2>2. connList' \in Seq(Mysql)
    BY <1>6, <2>1, AppendOne DEF PushBack, TypeOK
  <2>3. m_FreeConn' \in Int /\ m_CurConn' \in Int
    BY <1>6 DEF PushBack, TypeOK
  <2> QED
    BY <1>6, <2>2, <2>3 DEF PushBack, Goto, TypeOK, PoolPC
<1>7. CASE PostReserve(t)
  <2>1. reserve + 1 \in Nat
    BY DEF TypeOK
  <2> QED
    BY <1>7, <2>1 DEF PostReserve, Goto, TypeOK, PoolPC
<1> QED
  BY <1>1, <1>2, <1>3, <1>4, <1>5, <1>6, <1>7 DEF Caller

LEMMA CallerPermits ==
    ASSUME Inv, NEW t \in Threads, Caller(t)
    PROVE  PermitsMatch'
<1> USE DEF Inv
<1> SUFFICES ASSUME ~destroyed'
             PROVE  reserve' + Cardinality(At("lock")') + Cardinality(At("post")')
                      = Len(connList)'
  BY DEF PermitsMatch
<1> DEFINE L == Cardinality(At("lock"))
           P == Cardinality(At("post"))
           N == Len(connList)
<1>1. L \in Nat /\ P \in Nat /\ N \in Nat /\ reserve \in Nat
  BY AtFinite, LenProperties DEF TypeOK
<1>2. ~destroyed
  BY DEF Caller, CheckEmpty, WaitReserve, TakeFront, PopEmpty, ReleaseNull, PushBack,
      PostReserve
<1>3. reserve + L + P = N
  BY <1>2 DEF PermitsMatch
<1> HIDE DEF L, P, N
<1>4. CASE CheckEmpty(t)
  <2>1. PICK q \in {"null", "wait"} : Goto(t, q)
    BY <1>4 DEF CheckEmpty
  <2>2. At("lock")' = At("lock") /\ At("post")' = At("post")
    BY <1>4, <2>1, Passing DEF CheckEmpty
  <2> QED
    BY <1>3, <1>4, <2>2 DEF CheckEmpty, L, P, N
<1>5. CASE WaitReserve(t)
  <2>1. Cardinality(At("lock")') = L + 1
    BY <1>5, Arriving DEF WaitReserve, L
  <2>2. At("post")' = At("post")
    BY <1>5, Passing DEF WaitReserve
  <2>3. reserve' = reserve - 1 /\ Len(connList)' = N /\ Cardinality(At("post")') = P
    BY <1>5, <2>2 DEF WaitReserve, N, P
  <2> QED
    BY <1>1, <1>3, <2>1, <2>3
<1>6. CASE TakeFront(t)
  <2>1. Cardinality(At("lock")') = L - 1
    BY <1>6, Leaving DEF TakeFront, L
  <2>2. At("post")' = At("post")
    BY <1>6, Passing DEF TakeFront
  <2>3. Len(connList)' = N - 1
    BY <1>6, TailListed DEF TakeFront, N
  <2>4. reserve' = reserve /\ Cardinality(At("post")') = P
    BY <1>6, <2>2 DEF TakeFront, P
  <2> QED
    BY <1>1, <1>3, <2>1, <2>3, <2>4
<1>7. CASE PopEmpty(t)
  BY <1>3, <1>7 DEF PopEmpty, At, L, P, N
<1>8. CASE ReleaseNull(t)
  <2>1. At("lock")' = At("lock") /\ At("post")' = At("post")
    BY <1>8, Passing DEF ReleaseNull
  <2> QED
    BY <1>3, <1>8, <2>1 DEF ReleaseNull, L, P, N
<1>9. CASE PushBack(t)
  <2>1. Cardinality(At("post")') = P + 1
    BY <1>9, Arriving DEF PushBack, P
  <2>2. At("lock")' = At("lock")
    BY <1>9, Passing DEF PushBack
  <2>3. Len(connList)' = N + 1
    BY <1>9, AppendOne DEF PushBack, N, TypeOK, HoldsInUse
  <2>4. reserve' = reserve /\ Cardinality(At("lock")') = L
    BY <1>9, <2>2 DEF PushBack, L
  <2> QED
    BY <1>1, <1>3, <2>1, <2>3, <2>4
<1>10. CASE PostReserve(t)
  <2>1. Cardinality(At("post")') = P - 1
    BY <1>10, Leaving DEF PostReserve, P
  <2>2. At("lock")' = At("lock")
    BY <1>10, Passing DEF PostReserve
  <2>3. reserve' = reserve + 1 /\ Len(connList)' = N /\ Cardinality(At("lock")') = L
    BY <1>10, <2>2 DEF PostReserve, L, N
  <2> QED
    BY <1>1, <1>3, <2>1, <2>3
<1> QED
  BY <1>4, <1>5, <1>6, <1>7, <1>8, <1>9, <1>10 DEF Caller

(* While the pool stands, whoever holds a permit finds a connection.       *)
LEMMA PermitFindsOne ==
    ASSUME Inv, ~destroyed, NEW t \in Threads, pc[t] = "lock"
    PROVE  connList # <<>>
<1>1. t \in At("lock")
  BY DEF At
<1>2. Cardinality(At("lock")) \in Nat \ {0}
  BY <1>1, AtFinite, FS_EmptySet
<1>3. Cardinality(At("post")) \in Nat /\ reserve \in Nat
  BY AtFinite DEF Inv, TypeOK
<1>4. reserve + Cardinality(At("lock")) + Cardinality(At("post")) = Len(connList)
  BY DEF Inv, PermitsMatch
<1>5. Len(connList) # 0
  BY <1>2, <1>3, <1>4
<1> QED
  BY <1>5, EmptySeq

(* Who has a connection, and where it is.                                  *)
LEMMA CallerPlaces ==
    ASSUME Inv, NEW t \in Threads, Caller(t)
    PROVE  (HoldsInUse /\ OneUser /\ NoneLost)'
<1> USE DEF Inv
<1>1. CASE TakeFront(t)
  <2> DEFINE c == Head(connList)
  <2>1. /\ c \in Listed
        /\ c \in Mysql
        /\ Listed' = Listed \ {c}
        /\ \A i, j \in 1 .. Len(connList)' : connList'[i] = connList'[j] => i = j
    BY <1>1, TailListed DEF TakeFront
  <2>2. /\ conRAII'[t] = c
        /\ \A u \in Threads \ {t} : conRAII'[u] = conRAII[u]
        /\ conRAII[t] = NULL
        /\ c # NULL
        /\ closed' = closed
    BY <1>1, <2>1 DEF TakeFront, TypeOK, HoldsInUse, Mysql, NULL
  <2>3. c \notin closed /\ \A u \in Threads : conRAII[u] # c
    BY <2>1, <2>2 DEF OneUser
  <2> HIDE DEF c
  <2>4. HoldsInUse'
    BY <1>1, <2>2 DEF TakeFront, HoldsInUse, Goto, TypeOK
  <2>5. \A u \in Threads : conRAII'[u] # NULL =>
          /\ conRAII'[u] \notin Listed' \cup closed'
          /\ \A v \in Threads \ {u} : conRAII'[v] # conRAII'[u]
    BY <2>1, <2>2, <2>3 DEF OneUser
  <2>6. Listed' \cap closed' = {}
    BY <2>1, <2>2 DEF OneUser
  <2>7. NoneLost'
    <3> SUFFICES ASSUME NEW d \in Mysql, d \notin Listed' \cup closed'
                 PROVE  \E u \in Threads : conRAII'[u] = d
      BY DEF NoneLost
    <3>1. CASE d = c
      BY <2>2, <3>1
    <3>2. CASE d # c
      <4>1. d \notin Listed \cup closed
        BY <2>1, <2>2, <3>2
      <4>2. PICK u \in Threads : conRAII[u] = d
        BY <4>1 DEF NoneLost
      <4>3. u # t
        BY <2>2, <4>2 DEF Mysql, NULL
      <4> QED
        BY <2>2, <4>2, <4>3
    <3> QED
      BY <3>1, <3>2
  <2> QED
    BY <2>1, <2>4, <2>5, <2>6, <2>7 DEF OneUser
<1>2. CASE PushBack(t)
  <2> DEFINE c == conRAII[t]
  <2>1. c \in Mysql /\ c # NULL
    BY <1>2 DEF PushBack, HoldsInUse, TypeOK
  <2>2. c \notin Listed /\ c \notin closed
        /\ \A u \in Threads \ {t} : conRAII[u] # c
    BY <2>1 DEF OneUser
  <2>3. /\ Listed' = Listed \cup {c}
        /\ \A i, j \in 1 .. Len(connList)' : connList'[i] = connList'[j] => i = j
    BY <1>2, <2>1, <2>2, AppendListed DEF PushBack
  <2>4. /\ conRAII'[t] = NULL
        /\ \A u \in Threads \ {t} : conRAII'[u] = conRAII[u]
        /\ closed' = closed
    BY <1>2 DEF PushBack, TypeOK
  <2> HIDE DEF c
  <2>5. HoldsInUse'
    BY <1>2, <2>4 DEF PushBack, HoldsInUse, Goto, TypeOK
  <2>6. \A u \in Threads : conRAII'[u] # NULL =>
          /\ conRAII'[u] \notin Listed' \cup closed'
          /\ \A v \in Threads \ {u} : conRAII'[v] # conRAII'[u]
    BY <2>2, <2>3, <2>4 DEF OneUser
  <2>7. Listed' \cap closed' = {}
    BY <2>2, <2>3, <2>4 DEF OneUser
  <2>8. NoneLost'
    BY <2>3, <2>4 DEF NoneLost, c
  <2> QED
    BY <2>3, <2>5, <2>6, <2>7, <2>8 DEF OneUser
<1>3. CASE CheckEmpty(t) \/ WaitReserve(t) \/ PopEmpty(t) \/ ReleaseNull(t) \/ PostReserve(t)
  <2>1. UNCHANGED <<connList, conRAII, closed>>
    BY <1>3 DEF CheckEmpty, WaitReserve, PopEmpty, ReleaseNull, PostReserve
  <2>2. \A u \in Threads : pc'[u] = "use" <=> pc[u] = "use"
    BY <1>3 DEF CheckEmpty, WaitReserve, PopEmpty, ReleaseNull, PostReserve, Goto, TypeOK
  <2>3. Listed' = Listed
    BY <2>1 DEF Listed
  <2> QED
    BY <2>1, <2>2, <2>3 DEF HoldsInUse, OneUser, NoneLost
<1> QED
  BY <1>1, <1>2, <1>3 DEF Caller

LEMMA CallerCounters ==
    ASSUME Inv, NEW t \in Threads, Caller(t)
    PROVE  CountersTrue'
<1> USE DEF Inv
<1> DEFINE H == {u \in Threads : conRAII[u] # NULL}
<1>1. IsFiniteSet(H) /\ Cardinality(H) \in Nat
  BY PoolAssumption, FS_Subset, FS_CardinalityType DEF PoolAssumption
<1>2. CASE TakeFront(t)
  <2>1. H' = H \cup {t} /\ t \notin H
    <3>1. Head(connList) # NULL
      BY <1>2, TailListed DEF TakeFront, Mysql, NULL
    <3> QED
      BY <1>2, <3>1 DEF TakeFront, HoldsInUse, TypeOK
  <2>2. Cardinality(H') = Cardinality(H) + 1
    BY <1>1, <2>1, FS_AddElement
  <2>3. Len(connList)' = Len(connList) - 1
    BY <1>2, TailListed DEF TakeFront
  <2> QED
    BY <1>1, <1>2, <2>2, <2>3 DEF TakeFront, CountersTrue
<1>3. CASE PushBack(t)
  <2>1. H' = H \ {t} /\ t \in H /\ conRAII[t] \in Mysql
    BY <1>3 DEF PushBack, HoldsInUse, TypeOK
  <2>2. Cardinality(H') = Cardinality(H) - 1
    BY <1>1, <2>1, FS_RemoveElement
  <2>3. Len(connList)' = Len(connList) + 1
    BY <1>3, <2>1, AppendOne DEF PushBack, TypeOK
  <2> QED
    BY <1>1, <1>3, <2>2, <2>3 DEF PushBack, CountersTrue
<1>4. CASE CheckEmpty(t) \/ WaitReserve(t) \/ PopEmpty(t) \/ ReleaseNull(t) \/ PostReserve(t)
  BY <1>4
  DEF CheckEmpty, WaitReserve, PopEmpty, ReleaseNull, PostReserve, CountersTrue
<1> QED
  BY <1>2, <1>3, <1>4 DEF Caller

LEMMA CallerInv == ASSUME Inv, NEW t \in Threads, Caller(t) PROVE Inv'
<1>1. (aborted => destroyed)'
  <2>1. CASE PopEmpty(t)
    BY <2>1, PermitFindsOne DEF PopEmpty
  <2>2. CASE ~PopEmpty(t)
    BY <2>2
    DEF Inv, Caller, CheckEmpty, WaitReserve, TakeFront, ReleaseNull, PushBack,
        PostReserve
  <2> QED
    BY <2>1, <2>2
<1> QED
  BY <1>1, CallerTypeOK, CallerPermits, CallerPlaces, CallerCounters DEF Inv

LEMMA DestroyInv == ASSUME Inv, DestroyPool PROVE Inv'
<1> USE DEF Inv
<1>1. TypeOK'
  <2>1. connList' \in Seq(Mysql)
    BY EmptySeq DEF DestroyPool, TypeOK
  <2>2. Listed \subseteq Mysql
    BY ElementOfSeq DEF Listed, TypeOK
  <2>3. closed' \subseteq Mysql
    BY <2>2 DEF DestroyPool, TypeOK
  <2> QED
    BY <2>1, <2>3 DEF DestroyPool, TypeOK
<1>2. connList' = <<>>
  BY DEF DestroyPool
<1>3. Len(connList') = 0 /\ Listed' = {}
  BY <1>2, EmptySeq DEF Listed
<1>4. closed' = closed \cup Listed
  BY DEF DestroyPool, Listed
<1>5. conRAII' = conRAII
  BY DEF DestroyPool
<1>6. OneUser'
  BY <1>3, <1>4, <1>5 DEF OneUser
<1>7. NoneLost'
  BY <1>3, <1>4, <1>5 DEF NoneLost
<1>8. CountersTrue'
  BY <1>3 DEF DestroyPool, CountersTrue
<1>9. HoldsInUse' /\ PermitsMatch' /\ (aborted => destroyed)'
  BY DEF DestroyPool, HoldsInUse, PermitsMatch
<1> QED
  BY <1>1, <1>6, <1>7, <1>8, <1>9

LEMMA NextInv == Inv /\ [Next]_vars => Inv'
<1>1. ASSUME Inv, UNCHANGED vars PROVE Inv'
  BY <1>1
  DEF vars, Inv, TypeOK, HoldsInUse, PermitsMatch, OneUser, NoneLost, CountersTrue,
      Listed, At
<1> QED
  BY <1>1, CallerInv, DestroyInv DEF Next

(* Inv is an inductive invariant of the pool, destroyed or not.            *)
THEOREM PoolInvIsInvariant == Spec => []Inv
  BY InitInv, NextInv, PTL DEF Spec

(* The list holds connections and the counters are numbers, however many   *)
(* threads take and give back (sql_connection_pool.cpp:64-130).            *)
THEOREM PoolTypeCorrect == Spec => []TypeOK
<1>1. Inv => TypeOK
  BY DEF Inv
<1> QED
  BY <1>1, PoolInvIsInvariant, PTL

(* The semaphore counts the connections of the list, but for the permits   *)
(* in transit (sql_connection_pool.cpp:72-76, 91-96).                      *)
THEOREM PermitsAreMatched == Spec => []PermitsMatch
<1>1. Inv => PermitsMatch
  BY DEF Inv
<1> QED
  BY <1>1, PoolInvIsInvariant, PTL

(* However many threads pass the unlocked look at the list, none pops an   *)
(* empty one while the pool stands (sql_connection_pool.cpp:69-75).        *)
THEOREM NeverPopsEmpty == Spec => []PopIsSafe
<1>1. Inv => PopIsSafe
  BY PermitFindsOne DEF Inv, PopIsSafe
<1> QED
  BY <1>1, PoolInvIsInvariant, PTL

(* A connection has one user at a time and is not used once closed         *)
(* (sql_connection_pool.cpp:73-75, 92, 103-113).                           *)
THEOREM UserIsSingle == Spec => []OneUser
<1>1. Inv => OneUser
  BY DEF Inv
<1> QED
  BY <1>1, PoolInvIsInvariant, PTL

(* m_FreeConn and m_CurConn count the free connections and those in use    *)
(* (sql_connection_pool.cpp:76-77, 93-94).                                 *)
THEOREM CountersAreTrue == Spec => []CountersTrue
<1>1. Inv => CountersTrue
  BY DEF Inv
<1> QED
  BY <1>1, PoolInvIsInvariant, PTL
-----------------------------------------------------------------------------
(* The pool implements ConnectionPool. *)

LEMMA InitPromise == Init => Promise!Init
<1> SUFFICES ASSUME Init PROVE Promise!Init
  OBVIOUS
<1>1. At("wait") \cup At("lock") = {} /\ At("null") = {}
  BY DEF Init, At
<1>2. Mysql \ closed = Promise!Mysql
  BY DEF Init, Mysql, Promise!Mysql
<1>3. conRAII = [t \in Threads |-> Promise!NULL]
  BY DEF Init, NULL, Promise!NULL
<1> QED
  BY <1>1, <1>2, <1>3 DEF Promise!Init

(* What the abstract pool sees of a thread. *)
LEMMA AbstractIdle ==
    ASSUME Inv, NEW t \in Threads, pc[t] \in {"out", "post"}
    PROVE  Promise!Idle(t)
  BY DEF Inv, HoldsInUse, Promise!Idle, At, NULL, Promise!NULL

LEMMA OpenIsListedOrUsed ==
    ASSUME Inv
    PROVE  /\ (Mysql \ closed) \ Listed \subseteq Promise!InUse
           /\ Listed \subseteq (Mysql \ closed) \ Promise!InUse
           /\ Promise!InUse \subseteq Mysql \ closed
<1>1. Listed \subseteq Mysql
  BY ElementOfSeq DEF Inv, TypeOK, Listed
<1>2. \A c \in Mysql : c # NULL
  BY DEF Mysql, NULL
<1>3. Promise!InUse = {c \in Mysql : \E t \in Threads : conRAII[t] = c}
  BY DEF Promise!InUse, Promise!Mysql, Mysql
<1> QED
  BY <1>1, <1>2, <1>3 DEF Inv, NoneLost, OneUser

LEMMA CallerPromise ==
    ASSUME Inv, NEW t \in Threads, Caller(t)
    PROVE  [Promise!Next]_(Promise!vars)
<1> DEFINE Asking == At("wait") \cup At("lock")
<1> USE DEF Inv
<1>1. CASE CheckEmpty(t) /\ connList # <<>>
  <2>1. At("wait")' = At("wait") \cup {t} /\ At("lock")' = At("lock") /\ At("null")' = At("null")
    BY <1>1 DEF CheckEmpty, Goto, At, TypeOK
  <2>2. Promise!Ask(t)
    BY <1>1, <2>1, AbstractIdle DEF CheckEmpty, Promise!Ask
  <2> QED
    BY <2>2 DEF Promise!Next
<1>2. CASE CheckEmpty(t) /\ connList = <<>>
  <2>1. At("wait")' = At("wait") /\ At("lock")' = At("lock") /\ At("null")' = At("null") \cup {t}
    BY <1>2 DEF CheckEmpty, Goto, At, TypeOK
  <2>2. Listed = {}
    BY <1>2, EmptySeq DEF Listed
  <2>3. Mysql \ closed \subseteq Promise!InUse
    BY <2>2, OpenIsListedOrUsed
  <2>4. Promise!Refuse(t)
    BY <1>2, <2>1, <2>3, AbstractIdle DEF CheckEmpty, Promise!Refuse
  <2> QED
    BY <2>4 DEF Promise!Next
<1>3. CASE WaitReserve(t)
  <2>1. Asking' = Asking /\ At("null")' = At("null")
    BY <1>3 DEF WaitReserve, Goto, At, TypeOK
  <2> QED
    BY <1>3, <2>1 DEF WaitReserve, Promise!vars
<1>4. CASE TakeFront(t)
  <2>1. t \in Asking /\ Asking' = Asking \ {t} /\ At("null")' = At("null")
    BY <1>4 DEF TakeFront, Goto, At, TypeOK
  <2>2. Head(connList) \in (Mysql \ closed) \ Promise!InUse
    BY <1>4, TailListed, OpenIsListedOrUsed DEF TakeFront
  <2>3. Promise!Grant(t)
    BY <1>4, <2>1, <2>2 DEF TakeFront, Promise!Grant
  <2> QED
    BY <2>3 DEF Promise!Next
<1>5. CASE PopEmpty(t)
  BY <1>5 DEF PopEmpty, Promise!vars, At
<1>6. CASE ReleaseNull(t)
  <2>1. t \in At("null") /\ Asking' = Asking /\ At("null")' = At("null") \ {t}
    BY <1>6 DEF ReleaseNull, Goto, At, TypeOK
  <2>2. Promise!Forget(t)
    BY <1>6, <2>1 DEF ReleaseNull, Promise!Forget
  <2> QED
    BY <2>2 DEF Promise!Next
<1>7. CASE PushBack(t)
  <2>1. Asking' = Asking /\ At("null")' = At("null")
    BY <1>7 DEF PushBack, Goto, At, TypeOK
  <2>2. conRAII[t] # NULL
    BY <1>7 DEF PushBack, HoldsInUse
  <2>3. Promise!Return(t)
    BY <1>7, <2>1, <2>2 DEF PushBack, Promise!Return, NULL, Promise!NULL
  <2> QED
    BY <2>3 DEF Promise!Next
<1>8. CASE PostReserve(t)
  <2>1. Asking' = Asking /\ At("null")' = At("null")
    BY <1>8 DEF PostReserve, Goto, At, TypeOK
  <2> QED
    BY <1>8, <2>1 DEF PostReserve, Promise!vars
<1> QED
  BY <1>1, <1>2, <1>3, <1>4, <1>5, <1>6, <1>7, <1>8 DEF Caller

LEMMA DestroyPromise ==
    ASSUME Inv, DestroyPool
    PROVE  Promise!Close
<1>1. closed' = closed \cup Listed
  BY EmptySeq DEF DestroyPool, Listed
<1>2. Mysql \ closed' = Promise!InUse
  BY <1>1, OpenIsListedOrUsed
<1> QED
  BY <1>2 DEF DestroyPool, Promise!Close, At

(* The pool implements ConnectionPool: a connection is given to one thread *)
(* at a time, and a request is turned down only when every open connection *)
(* is in use (sql_connection_pool.cpp:67-114).                             *)
THEOREM PoolKeepsPromise == Spec => KeepsPromise
<1>1. Inv /\ [Next]_vars => [Promise!Next]_(Promise!vars)
  <2>1. UNCHANGED vars => UNCHANGED Promise!vars
    BY DEF vars, Promise!vars, At
  <2>2. Inv /\ DestroyPool => Promise!Next
    BY DestroyPromise DEF Promise!Next
  <2> QED
    BY <2>1, <2>2, CallerPromise DEF Next
<1> QED
  BY <1>1, InitPromise, PoolInvIsInvariant, PTL DEF Spec, KeepsPromise, Promise!Spec
=============================================================================
