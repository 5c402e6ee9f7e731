------------------------- MODULE DiscoveryRunProofs -------------------------
(***************************************************************************)
(* What DiscoveryRun promises of a run that nothing crossed, for every     *)
(* value of its constants: the host is told of its end once, a run over    *)
(* the queue has scanned every module, and nothing of it is left.  And of  *)
(* an inventory that nothing disturbed: it reads the whole registry.       *)
(***************************************************************************)
EXTENDS DiscoveryRun, FiniteSetTheorems, FunctionTheorems, SequenceTheorems,
        WellFoundedInduction, TLAPS

-----------------------------------------------------------------------------
(* The invariant: whoever is on the run.                                   *)

\* Where a task may be.
Places == {"idle", "count", "lock", "scan", "save", "pause", "saving",
           "finishing", "callback"}

\* The flags are flags, and a task is somewhere.
FlagsOK ==
    /\ running \in BOOLEAN /\ module \in BOOLEAN /\ timer \in BOOLEAN
    /\ window \in BOOLEAN /\ raised \in BOOLEAN /\ spoilt \in BOOLEAN
    /\ crossed \in BOOLEAN
    /\ notes \in Nat /\ runs \in Nat
    /\ regq \in Seq(ToSet(Modules)) /\ scanned \in Seq(ToSet(Modules) \cup {None})
    /\ task \in [Tasks -> [pc : Places, mod : ToSet(Modules) \cup {None}]]

\* Nobody but p is on a call.
Alone(p) == \A q \in Tasks : q # p => task[q].pc = "idle"

\* The modules not scanned yet are those after the first n.
Left(n) ==
    /\ n + Len(regq) = Len(Scannable)
    /\ \A i \in DOMAIN regq : regq[i] = Scannable[n + i]

\* The modules scanned so far are the first of those to scan.
Begun ==
    /\ Len(scanned) <= Len(Scannable)
    /\ \A i \in DOMAIN scanned : scanned[i] = Scannable[i]

\* Nothing is going on, and nothing of a run is left.
Resting ==
    /\ AllIdle
    /\ ~running /\ ~module /\ query = None /\ stage = None
    /\ ~timer /\ ~window /\ regq = <<>> /\ context = None /\ lock = None
    /\ ~spoilt => notes = 0 \/ (notes = 1 /\ ~raised)
    /\ kind = "all" /\ Told /\ ~raised => scanned = Scannable
    /\ kind = "inventory" => Told \/ raised

\* The caller scans a module, or the modules one after the other.
Scanning ==
    /\ kind \in {"one", "all"} /\ notes = 0 /\ ~raised
    /\ Alone("host")
    /\ task["host"].pc \in {"count", "lock", "scan", "save", "pause", "finishing"}
    /\ ~timer /\ ~window /\ query # "pc_link" /\ ~InInventory
    /\ lock = IF task["host"].pc = "scan" THEN "host" ELSE None
    /\ task["host"].pc \in {"count", "lock", "scan", "save"} => context = task["host"].mod
    /\ kind = "all" =>
        /\ task["host"].pc # "finishing" => stage = "register_scan" /\ Begun
        /\ task["host"].pc \in {"count", "lock", "scan"} =>
              /\ Left(Len(scanned) + 1)
              /\ task["host"].mod = Scannable[Len(scanned) + 1]
        /\ task["host"].pc \in {"save", "pause"} => Left(Len(scanned))
        /\ task["host"].pc = "finishing" => scanned = Scannable
    /\ kind = "one" => regq = <<>>

\* The PC-Link is read: nobody waits on the run, its window's timer ends it.
Sweeping ==
    /\ kind = "inventory" /\ runs > 0 /\ notes = 0 /\ ~raised
    /\ Alone("inventory") /\ task["inventory"].pc \in {"idle", "saving", "finishing"}
    /\ running /\ ~module /\ query = "pc_link"
    /\ ~timer /\ lock = None

\* The run is over, and the host is being told of it.
CallingBack ==
    /\ notes = 1 /\ ~raised /\ ~running /\ ~module /\ ~timer /\ lock = None
    /\ \/ /\ kind = "inventory" /\ Alone("inventory")
          /\ task["inventory"].pc = "callback"
       \/ /\ kind \in {"one", "all"} /\ Alone("host") /\ task["host"].pc = "callback"
          /\ ~window /\ query # "pc_link" /\ ~InInventory
          /\ kind = "all" => scanned = Scannable

\* A run that nothing crossed is at one of these.
RunInv == crossed \/ Resting \/ Scanning \/ Sweeping \/ CallingBack

-----------------------------------------------------------------------------
(* Induction, and what filtering a queue gives.                            *)

\* A set of natural numbers has a least element.
LEMMA LeastNumber ==
    ASSUME NEW T, T \subseteq Nat, T # {}
    PROVE  \E x \in T : \A y \in T : ~(y < x)
<1> DEFINE R == {ss \in Nat \X Nat : ss[1] < ss[2]}
<1>1. IsWellFoundedOn(R, Nat)
  BY NatLessThanWellFounded, Zenon DEF OpToRel
<1>2. \E x \in T : \A y \in T : ~(<<y, x>> \in R)
  <2> HIDE DEF R
  <2> QED
    BY <1>1, WFMin, Zenon
<1>3. \A x, y \in T : y < x => <<y, x>> \in R
  OBVIOUS
<1> QED
  BY <1>2, <1>3

\* What holds of 0, and of the successor of a number it holds of, holds of all
\* numbers up to n.
LEMMA Induct ==
    ASSUME NEW n \in Nat, NEW T, 0 \in T, \A i \in 0 .. (n - 1) : i \in T => i + 1 \in T
    PROVE  0 .. n \subseteq T
<1> DEFINE U == (0 .. n) \ T
<1> SUFFICES ASSUME U # {} PROVE FALSE
  OBVIOUS
<1>1. U \subseteq Nat
  OBVIOUS
<1>2. PICK x \in U : \A y \in U : ~(y < x)
  <2> HIDE DEF U
  <2> QED
    BY <1>1, LeastNumber
<1>3. x # 0 /\ x \in 0 .. n /\ x \notin T
  OBVIOUS
<1>4. x - 1 \in 0 .. (n - 1) /\ x - 1 < x /\ (x - 1) + 1 = x
  BY <1>3
<1>5. x - 1 \in T
  BY <1>2, <1>4
<1> QED
  BY <1>3, <1>4, <1>5

\* Filtering a queue goes through it item by item.
LEMMA WithoutDef ==
    ASSUME NEW q, Len(q) \in Nat, NEW S
    PROVE  \E f : /\ f = [i \in 0 .. Len(q) |->
                            IF i = 0 THEN <<>>
                            ELSE IF q[i] \in S THEN f[i - 1] ELSE Append(f[i - 1], q[i])]
                  /\ Without(q, S) = f[Len(q)]
<1> DEFINE N == Len(q)
           B(f, n) == [i \in 0 .. n |->
                          IF i = 0 THEN <<>>
                          ELSE IF q[i] \in S THEN f[i - 1] ELSE Append(f[i - 1], q[i])]
           T == {n \in 0 .. N : \E f : f = B(f, n)}
<1>1. 0 \in T
  <2> DEFINE f == [i \in 0 .. 0 |-> <<>>]
  <2>1. f = B(f, 0)
    OBVIOUS
  <2> HIDE DEF f
  <2> QED
    BY <2>1
<1>2. ASSUME NEW n \in 0 .. (N - 1), n \in T PROVE n + 1 \in T
  <2>1. PICK f : f = B(f, n)
    BY <1>2
  <2> DEFINE e == IF q[n + 1] \in S THEN f[n] ELSE Append(f[n], q[n + 1])
             g == [i \in 0 .. (n + 1) |-> IF i = n + 1 THEN e ELSE f[i]]
  <2>2. \A i \in 0 .. n : f[i] = IF i = 0 THEN <<>>
                            ELSE IF q[i] \in S THEN f[i - 1] ELSE Append(f[i - 1], q[i])
    BY <2>1
  <2>3. ASSUME NEW i \in 0 .. (n + 1)
        PROVE  g[i] = IF i = 0 THEN <<>>
                      ELSE IF q[i] \in S THEN g[i - 1] ELSE Append(g[i - 1], q[i])
    <3>1. CASE i = n + 1
      <4>1. g[i] = e /\ g[i - 1] = f[n] /\ i # 0
        BY <3>1
      <4> QED
        BY <3>1, <4>1
    <3>2. CASE i # n + 1 /\ i # 0
      <4>1. i \in 0 .. n /\ g[i] = f[i] /\ g[i - 1] = f[i - 1]
        BY <3>2
      <4> HIDE DEF g
      <4> QED
        BY <2>2, <3>2, <4>1
    <3>3. CASE i = 0
      <4>1. i \in 0 .. n /\ g[i] = f[i]
        BY <3>3
      <4> HIDE DEF g
      <4> QED
        BY <2>2, <3>3, <4>1
    <3> QED
      BY <3>1, <3>2, <3>3
  <2>4. g = B(g, n + 1)
    <3>1. g = [i \in 0 .. (n + 1) |-> g[i]]
      OBVIOUS
    <3> HIDE DEF g
    <3> QED
      BY <2>3, <3>1
  <2>5. n + 1 \in 0 .. N
    OBVIOUS
  <2> HIDE DEF g
  <2> QED
    BY <2>4, <2>5
<1>3. N \in T
  <2> HIDE DEF T
  <2>1. 0 .. N \subseteq T
    BY <1>1, <1>2, Induct
  <2> QED
    BY <2>1
<1>4. \E f : f = B(f, N)
  BY <1>3
<1> DEFINE F == CHOOSE f : f = B(f, N)
<1>5. F = B(F, N)
  BY <1>4, Zenon
<1>6. Without(q, S) = F[N]
  BY DEF Without
<1> HIDE DEF F
<1> QED
  BY <1>5, <1>6

\* How often an item is in a queue.
Times(x, q) == Cardinality({i \in DOMAIN q : q[i] = x})

\* Appending to the second of two sequences is appending to both.
LEMMA ConcatAppend ==
    ASSUME NEW S, NEW s \in Seq(S), NEW t \in Seq(S), NEW x \in S
    PROVE  /\ Append(t, x) \in Seq(S)
           /\ Append(s \o t, x) = s \o Append(t, x)
           /\ s \o Append(t, x) = (s \o t) \o <<x>>
<1>1. <<x>> \in Seq(S) /\ Append(t, x) = t \o <<x>> /\ s \o t \in Seq(S)
  BY AppendIsConcat, ConcatProperties
<1>2. Append(s \o t, x) = (s \o t) \o <<x>>
  BY <1>1, AppendIsConcat
<1>3. (s \o t) \o <<x>> = s \o (t \o <<x>>)
  BY <1>1, ConcatAssociative
<1> QED
  BY <1>1, <1>2, <1>3

\* There are n numbers from 1 to n.
LEMMA IntervalSize ==
    ASSUME NEW n \in Nat
    PROVE  Cardinality(1 .. n) = n
<1>1. Cardinality(1 .. n) = IF 1 > n THEN 0 ELSE n - 1 + 1
  BY FS_Interval
<1> QED
  BY <1>1

\* One more.
LEMMA TimesAppend ==
    ASSUME NEW S, NEW q \in Seq(S), NEW m \in S, NEW x
    PROVE  /\ Times(x, q) \in Nat
           /\ Times(x, Append(q, m)) = Times(x, q) + (IF m = x THEN 1 ELSE 0)
<1> DEFINE P == {i \in DOMAIN q : q[i] = x}
           Q == {i \in DOMAIN Append(q, m) : Append(q, m)[i] = x}
           n == Len(q) + 1
<1>1. /\ DOMAIN q = 1 .. Len(q) /\ Len(q) \in Nat /\ DOMAIN Append(q, m) = 1 .. n
      /\ Append(q, m)[n] = m /\ \A i \in DOMAIN q : Append(q, m)[i] = q[i]
  OBVIOUS
<1>2. Q = IF m = x THEN P \cup {n} ELSE P
  BY <1>1
<1>3. IsFiniteSet(P)
  <2>1. IsFiniteSet(1 .. Len(q)) /\ P \subseteq 1 .. Len(q)
    BY <1>1, FS_Interval
  <2> QED
    BY <2>1, FS_Subset
<1>4. n \notin P
  BY <1>1
<1>5. Cardinality(P) \in Nat /\ Cardinality(P \cup {n}) = Cardinality(P) + 1
  BY <1>3, <1>4, FS_AddElement, FS_CardinalityType
<1>6. Times(x, q) = Cardinality(P) /\ Times(x, Append(q, m)) = Cardinality(Q)
  BY Zenon DEF Times
<1> HIDE DEF P, Q
<1> QED
  BY <1>1, <1>2, <1>4, <1>5, <1>6

\* An empty queue has nothing.
LEMMA TimesEmpty ==
    ASSUME NEW x PROVE Times(x, <<>>) = 0
BY FS_EmptySet DEF Times

\* The first item gone.
LEMMA TimesTail ==
    ASSUME NEW S, NEW q \in Seq(S), q # <<>>, NEW x
    PROVE  /\ Times(x, Tail(q)) \in Nat
           /\ Times(x, q) = Times(x, Tail(q)) + (IF Head(q) = x THEN 1 ELSE 0)
<1> DEFINE t == Tail(q)
           P == {i \in DOMAIN q : q[i] = x}
           Q == {i \in DOMAIN t : t[i] = x}
           R == P \ {1}
           f == [i \in Q |-> i + 1]
<1>1. /\ Len(q) \in Nat /\ Len(q) >= 1 /\ DOMAIN q = 1 .. Len(q)
      /\ DOMAIN t = 1 .. Len(q) - 1 /\ Head(q) = q[1]
      /\ \A i \in DOMAIN t : t[i] = q[i + 1]
  OBVIOUS
<1>2. f \in Bijection(Q, R)
  <2>1. f \in [Q -> R]
    BY <1>1
  <2>2. \A i, j \in Q : f[i] = f[j] => i = j
    BY <1>1
  <2>3. ASSUME NEW j \in R PROVE \E i \in Q : f[i] = j
    <3>1. j - 1 \in DOMAIN t /\ (j - 1) + 1 = j
      BY <1>1
    <3>2. t[j - 1] = q[j]
      BY <1>1, <3>1
    <3>3. j - 1 \in Q
      BY <3>1, <3>2
    <3> QED
      BY <3>1, <3>3
  <2> QED
    BY <2>1, <2>2, <2>3, Fun_IsBij
<1>3. IsFiniteSet(P) /\ IsFiniteSet(Q)
  <2>1. /\ IsFiniteSet(1 .. Len(q)) /\ P \subseteq 1 .. Len(q)
        /\ IsFiniteSet(1 .. Len(q) - 1) /\ Q \subseteq 1 .. Len(q) - 1
    BY <1>1, FS_Interval
  <2> QED
    BY <2>1, FS_Subset
<1> HIDE DEF P, Q, f
<1>4. Cardinality(R) = Cardinality(Q) /\ Cardinality(Q) \in Nat
  <2>1. ExistsBijection(Q, R)
    BY <1>2 DEF ExistsBijection
  <2> QED
    BY <1>3, <2>1, FS_Bijection, FS_CardinalityType
<1>5. Cardinality(R) = Cardinality(P) - (IF 1 \in P THEN 1 ELSE 0) /\ Cardinality(P) \in Nat
  BY <1>3, FS_RemoveElement, FS_CardinalityType
<1>6. 1 \in P <=> Head(q) = x
  BY <1>1 DEF P
<1>7. Times(x, q) = Cardinality(P) /\ Times(x, Tail(q)) = Cardinality(Q)
  BY Zenon DEF Times, P, Q
<1> QED
  BY <1>4, <1>5, <1>6, <1>7

\* Filtering keeps every item it does not take, in a queue not longer.
LEMMA WithoutFacts ==
    ASSUME NEW S, NEW q \in Seq(S), NEW items
    PROVE  /\ Without(q, items) \in Seq(S \ items) /\ Len(Without(q, items)) <= Len(q)
           /\ \A x : x \notin items => Times(x, Without(q, items)) = Times(x, q)
<1>1. Len(q) \in Nat
  OBVIOUS
<1>2. PICK f : /\ f = [i \in 0 .. Len(q) |->
                         IF i = 0 THEN <<>>
                         ELSE IF q[i] \in items THEN f[i - 1] ELSE Append(f[i - 1], q[i])]
               /\ Without(q, items) = f[Len(q)]
  BY <1>1, WithoutDef
<1>3. \A i \in 0 .. Len(q) : f[i] = IF i = 0 THEN <<>>
                             ELSE IF q[i] \in items THEN f[i - 1] ELSE Append(f[i - 1], q[i])
  BY <1>2
<1> DEFINE N == Len(q)
           First(i) == SubSeq(q, 1, i)
           Good(i) == /\ f[i] \in Seq(S \ items) /\ Len(f[i]) <= i
                      /\ \A x : x \notin items => Times(x, f[i]) = Times(x, First(i))
           T == {i \in 0 .. N : Good(i)}
<1>4. 0 \in T
  <2>1. f[0] = <<>> /\ First(0) = <<>> /\ 0 \in 0 .. N
    BY <1>1, <1>3
  <2>2. <<>> \in Seq(S \ items) /\ Len(<<>>) <= 0
    OBVIOUS
  <2> QED
    BY <2>1, <2>2
<1>5. ASSUME NEW n \in 0 .. (N - 1), n \in T PROVE n + 1 \in T
  <2> DEFINE m == q[n + 1]
  <2>1. /\ m \in S /\ First(n) \in Seq(S) /\ First(n + 1) = Append(First(n), m)
        /\ n + 1 \in 0 .. N /\ n + 1 # 0 /\ (n + 1) - 1 = n
    BY <1>1
  <2>2. f[n + 1] = IF m \in items THEN f[n] ELSE Append(f[n], m)
    BY <1>3, <2>1
  <2>3. Good(n)
    BY <1>5
  <2> HIDE DEF m, First
  <2>4. CASE m \in items
    <3>1. ASSUME NEW x, x \notin items PROVE Times(x, First(n + 1)) = Times(x, First(n))
      <4>1. /\ Times(x, First(n)) \in Nat
            /\ Times(x, First(n + 1)) = Times(x, First(n)) + (IF m = x THEN 1 ELSE 0)
        <5> DEFINE h == First(n)
        <5>1. h \in Seq(S) /\ First(n + 1) = Append(h, m)
          BY <2>1
        <5> HIDE DEF h
        <5>2. /\ Times(x, h) \in Nat
              /\ Times(x, Append(h, m)) = Times(x, h) + (IF m = x THEN 1 ELSE 0)
          BY <2>1, <5>1, TimesAppend
        <5> QED
          BY <5>1, <5>2 DEF h
      <4> QED
        BY <2>4, <3>1, <4>1
    <3>2. f[n + 1] \in Seq(S \ items) /\ Len(f[n + 1]) <= n + 1
      BY <2>2, <2>3, <2>4
    <3> QED
      BY <2>1, <2>2, <2>3, <2>4, <3>1, <3>2
  <2>5. CASE m \notin items
    <3>1. m \in S \ items /\ f[n] \in Seq(S \ items) /\ f[n + 1] = Append(f[n], m)
      BY <2>1, <2>2, <2>3, <2>5
    <3> DEFINE g == f[n]
    <3>2. g \in Seq(S \ items) /\ Len(g) <= n
      BY <2>3
    <3> HIDE DEF g
    <3>3. Append(g, m) \in Seq(S \ items) /\ Len(Append(g, m)) <= n + 1
      BY <3>1, <3>2
    <3>4. ASSUME NEW x, x \notin items PROVE Times(x, f[n + 1]) = Times(x, First(n + 1))
      <4>1. Times(x, First(n + 1)) = Times(x, First(n)) + (IF m = x THEN 1 ELSE 0)
        <5> DEFINE h == First(n)
        <5>1. h \in Seq(S) /\ First(n + 1) = Append(h, m)
          BY <2>1
        <5> HIDE DEF h
        <5>2. Times(x, Append(h, m)) = Times(x, h) + (IF m = x THEN 1 ELSE 0)
          BY <2>1, <5>1, TimesAppend
        <5> QED
          BY <5>1, <5>2 DEF h
      <4>2. Times(x, f[n + 1]) = Times(x, f[n]) + (IF m = x THEN 1 ELSE 0)
        BY <3>1, TimesAppend
      <4> QED
        BY <2>3, <3>4, <4>1, <4>2
    <3> QED
      BY <2>1, <3>1, <3>3, <3>4 DEF g
  <2> QED
    BY <2>4, <2>5
<1>6. N \in T
  <2> HIDE DEF T
  <2>1. 0 .. N \subseteq T
    BY <1>1, <1>4, <1>5, Induct
  <2> QED
    BY <1>1, <2>1
<1>7. First(N) = q
  OBVIOUS
<1> QED
  BY <1>2, <1>6, <1>7

\* The modules to scan are among the host's.
LEMMA ScannableFacts ==
    Scannable \in Seq(ToSet(Modules))
<1>1. Scannable \in Seq(ToSet(Modules) \ NonOutput)
  BY RunAssumption, WithoutFacts DEF Scannable
<1> QED
  BY <1>1

-----------------------------------------------------------------------------
(* The queue of modules.                                                   *)

\* The first of those left is the next one, and the rest are those after it.
LEMMA NextLeft ==
    ASSUME NEW S, NEW s \in Seq(S), NEW q \in Seq(S), NEW n \in Nat,
           n + Len(q) = Len(s), \A i \in DOMAIN q : q[i] = s[n + i], q # <<>>
    PROVE  /\ Head(q) = s[n + 1] /\ Head(q) \in S /\ Tail(q) \in Seq(S)
           /\ (n + 1) + Len(Tail(q)) = Len(s)
           /\ \A i \in DOMAIN Tail(q) : Tail(q)[i] = s[(n + 1) + i]
<1>1. /\ Len(q) \in Nat /\ Len(q) >= 1 /\ DOMAIN q = 1 .. Len(q)
      /\ Tail(q) \in Seq(S) /\ Len(Tail(q)) = Len(q) - 1
      /\ DOMAIN Tail(q) = 1 .. Len(q) - 1
      /\ Head(q) = q[1] /\ Head(q) \in S
      /\ \A i \in 1 .. Len(q) - 1 : Tail(q)[i] = q[i + 1]
  OBVIOUS
<1>2. Head(q) = s[n + 1]
  BY <1>1
<1>3. ASSUME NEW i \in DOMAIN Tail(q) PROVE Tail(q)[i] = s[(n + 1) + i]
  <2> DEFINE j == i + 1
  <2>1. j \in DOMAIN q /\ i \in 1 .. Len(q) - 1 /\ n + j = (n + 1) + i
    BY <1>1, <1>3
  <2>2. Tail(q)[i] = q[j]
    BY <1>1, <2>1
  <2> HIDE DEF j
  <2>3. q[j] = s[n + j]
    BY <2>1
  <2> QED
    BY <2>1, <2>2, <2>3
<1>4. (n + 1) + Len(Tail(q)) = Len(s)
  BY <1>1
<1> QED
  BY <1>1, <1>2, <1>3, <1>4

\* The module scanned is the next of the queue.
LEMMA ScannedNext ==
    ASSUME NEW S, NEW s \in Seq(S), NEW t \in Seq(S), Len(t) + 1 <= Len(s),
           \A i \in DOMAIN t : t[i] = s[i]
    PROVE  LET u == Append(t, s[Len(t) + 1])
           IN  /\ u \in Seq(S) /\ Len(u) = Len(t) + 1
               /\ \A i \in DOMAIN u : u[i] = s[i]
<1> DEFINE m == s[Len(t) + 1]
           u == Append(t, m)
<1>1. m \in S /\ Len(t) \in Nat
  OBVIOUS
<1> HIDE DEF m
<1>2. /\ u \in Seq(S) /\ Len(u) = Len(t) + 1 /\ DOMAIN u = 1 .. Len(t) + 1
      /\ u[Len(t) + 1] = m
      /\ \A i \in 1 .. Len(t) : u[i] = t[i]
  BY <1>1
<1>3. ASSUME NEW i \in DOMAIN u PROVE u[i] = s[i]
  BY <1>2, <1>3 DEF m
<1> QED
  BY <1>2, <1>3 DEF m

\* When none is left, all have been scanned.
LEMMA AllScanned ==
    ASSUME scanned \in Seq(ToSet(Modules) \cup {None}), Begun, Left(Len(scanned)), regq = <<>>
    PROVE  scanned = Scannable
<1>0. Scannable \in Seq(ToSet(Modules) \cup {None})
  BY ScannableFacts
<1>1. Len(scanned) = Len(Scannable)
  BY <1>0 DEF Left
<1>2. \A i \in 1 .. Len(scanned) : scanned[i] = Scannable[i]
  BY DEF Begun
<1> QED
  BY <1>0, <1>1, <1>2, SeqEqual

-----------------------------------------------------------------------------
(* The steps.                                                              *)

\* A module to scan is one of the host's.
LEMMA Scans ==
    ASSUME Scannable # <<>>
    PROVE  Head(Scannable) \in ToSet(Modules) /\ Tail(Scannable) \in Seq(ToSet(Modules))
BY ScannableFacts

\* The initial state.
LEMMA InitRun ==
    Init => FlagsOK /\ RunInv
<1> SUFFICES ASSUME Init PROVE FlagsOK /\ RunInv
  OBVIOUS
<1>1. FlagsOK
  <2>1. <<>> \in Seq(ToSet(Modules)) /\ <<>> \in Seq(ToSet(Modules) \cup {None})
    OBVIOUS
  <2>2. task \in [Tasks -> [pc : Places, mod : ToSet(Modules) \cup {None}]]
    BY DEF Init, Idle, Places
  <2> QED
    BY <2>1, <2>2 DEF Init, FlagsOK
<1>2. Resting
  BY DEF Init, Resting, AllIdle, Idle, Told, None
<1> QED
  BY <1>1, <1>2 DEF RunInv

\* Where a task goes.
LEMMA TaskMoves ==
    ASSUME FlagsOK, NEW p \in Tasks
    PROVE  /\ \A w \in Places, m \in ToSet(Modules) \cup {None} : Goes(p, w, m) =>
                /\ task' \in [Tasks -> [pc : Places, mod : ToSet(Modules) \cup {None}]]
                /\ task'[p] = [pc |-> w, mod |-> m]
                /\ \A q \in Tasks : q # p => task'[q] = task[q]
           /\ Returns(p) =>
                /\ task' \in [Tasks -> [pc : Places, mod : ToSet(Modules) \cup {None}]]
                /\ task'[p].pc = "idle"
                /\ \A q \in Tasks : q # p => task'[q] = task[q]
           /\ task[p].mod \in ToSet(Modules) \cup {None} /\ task[p].pc \in Places
<1>1. task \in [Tasks -> [pc : Places, mod : ToSet(Modules) \cup {None}]]
  BY DEF FlagsOK
<1> DEFINE T == [pc : Places, mod : ToSet(Modules) \cup {None}]
<1>2. ASSUME NEW t \in T, task' = [task EXCEPT ![p] = t]
      PROVE  /\ task' \in [Tasks -> T] /\ task'[p] = t
             /\ \A q \in Tasks : q # p => task'[q] = task[q]
  BY <1>1, <1>2
<1>3. ASSUME NEW w \in Places, NEW m \in ToSet(Modules) \cup {None} PROVE At(w, m) \in T
  BY DEF At
<1>4. Idle \in T /\ Idle.pc = "idle"
  BY DEF Idle, Places
<1> QED
  BY <1>1, <1>2, <1>3, <1>4 DEF Goes, Returns, At

\* One task moves, the others stay where they are.
LEMMA MovesAlone ==
    ASSUME FlagsOK, NEW p \in Tasks, NEW w \in Places, NEW m \in ToSet(Modules) \cup {None},
           Goes(p, w, m), Alone(p)
    PROVE  Alone(p)' /\ task'[p].pc = w /\ task'[p].mod = m
<1>1. task'[p] = [pc |-> w, mod |-> m] /\ \A q \in Tasks : q # p => task'[q] = task[q]
  BY TaskMoves
<1> QED
  BY <1>1 DEF Alone

\* The only one on a call returns.
LEMMA ReturnsAlone ==
    ASSUME FlagsOK, NEW p \in Tasks, Returns(p), Alone(p)
    PROVE  AllIdle'
<1>1. task'[p].pc = "idle" /\ \A q \in Tasks : q # p => task'[q] = task[q]
  BY TaskMoves
<1> QED
  BY <1>1 DEF Alone, AllIdle

\* The flags stay flags.
LEMMA StepFlags ==
    FlagsOK /\ [Next]_vars => FlagsOK'
<1> SUFFICES ASSUME FlagsOK, [Next]_vars PROVE FlagsOK'
  OBVIOUS
<1> DEFINE Where == [Tasks -> [pc : Places, mod : ToSet(Modules) \cup {None}]]
<1> USE DEF flagVars, timerVars, sweepVars, busVars, histVars
<1>0. /\ "host" \in Tasks /\ "listener" \in Tasks /\ "timer" \in Tasks /\ "inventory" \in Tasks
      /\ \A w \in {"idle", "count", "lock", "scan", "save", "pause", "saving", "finishing",
                   "callback"} : w \in Places
      /\ None \in ToSet(Modules) \cup {None}
      /\ <<>> \in Seq(ToSet(Modules)) /\ <<>> \in Seq(ToSet(Modules) \cup {None})
  BY DEF Tasks, Places
<1>1. ASSUME NEW k, Begins(k)
      PROVE  /\ raised' \in BOOLEAN /\ spoilt' \in BOOLEAN /\ crossed' \in BOOLEAN
             /\ notes' \in Nat /\ runs' \in Nat /\ scanned' \in Seq(ToSet(Modules) \cup {None})
  <2>1. crossed' = (crossed \/ ~AllIdle)
    BY <1>1 DEF Begins
  <2>2. crossed' \in BOOLEAN
    BY <2>1
  <2>3. /\ raised' = FALSE /\ spoilt' = FALSE /\ notes' = 0 /\ runs' = runs + 1
        /\ scanned' = <<>>
    BY <1>1 DEF Begins
  <2>4. runs' \in Nat
    BY <2>3 DEF FlagsOK
  <2>5. scanned' \in Seq(ToSet(Modules) \cup {None})
    BY <1>0, <2>3
  <2> QED
    BY <2>2, <2>3, <2>4, <2>5
<1>2. ASSUME NEW p \in Tasks, NEW q \in Seq(ToSet(Modules)), q # <<>>, StartNext(p, q)
      PROVE  /\ regq' \in Seq(ToSet(Modules)) /\ running' = TRUE /\ module' = TRUE
             /\ task' \in Where
  <2>1. Head(q) \in ToSet(Modules) /\ Tail(q) \in Seq(ToSet(Modules))
    BY <1>2
  <2> QED
    BY <1>0, <1>2, <2>1, TaskMoves DEF StartNext
<1>3. ASSUME NEW p \in Tasks, Finalize(p)
      PROVE  timer' = FALSE /\ module' = FALSE /\ window' \in BOOLEAN /\ task' \in Where
  BY <1>0, <1>3, TaskMoves DEF Finalize, FlagsOK
<1>4. ASSUME NEW p \in Tasks, Abort(p)
      PROVE  /\ timer' = FALSE /\ window' = FALSE /\ regq' = <<>> /\ running' = FALSE
             /\ module' = FALSE /\ raised' \in BOOLEAN /\ task' \in Where
  BY <1>0, <1>4, TaskMoves DEF Abort, ResetState, ClearFlags, FlagsOK
<1>5. ASSUME NEW m \in ToSet(Modules), ScanOne(m) PROVE FlagsOK'
  <2>1. task' \in Where
    BY <1>0, <1>5, TaskMoves DEF ScanOne
  <2>2. /\ running' \in BOOLEAN /\ module' \in BOOLEAN /\ timer' \in BOOLEAN /\ window' \in BOOLEAN
        /\ regq' = regq
    BY <1>5 DEF ScanOne, FlagsOK
  <2> QED
    BY <1>1, <1>5, <2>1, <2>2 DEF ScanOne, FlagsOK
<1>6. CASE ScanAll
  <2>1. /\ task' \in Where /\ regq' \in Seq(ToSet(Modules))
        /\ running' \in BOOLEAN /\ module' \in BOOLEAN
    <3>1. CASE Scannable = <<>>
      BY <1>0, <1>6, <3>1, TaskMoves DEF ScanAll, FlagsOK
    <3>2. CASE Scannable # <<>>
      BY <1>0, <1>2, <1>6, <3>2, ScannableFacts DEF ScanAll
    <3> QED
      BY <3>1, <3>2
  <2>2. timer' \in BOOLEAN /\ window' \in BOOLEAN
    BY <1>6 DEF ScanAll, FlagsOK
  <2> QED
    BY <1>1, <1>6, <2>1, <2>2 DEF ScanAll, FlagsOK
<1>7. CASE StartInventory
  BY <1>0, <1>1, <1>7 DEF StartInventory, FlagsOK
<1>8. ASSUME NEW p \in Tasks, Chain(p) PROVE FlagsOK'
  <2>1. CASE Notify(p)
    <3>1. task' \in Where
      BY <1>0, <2>1, TaskMoves DEF Notify
    <3>2. notes' \in Nat
      BY <2>1 DEF Notify, FlagsOK
    <3> QED
      BY <2>1, <3>1, <3>2 DEF Notify, FlagsOK
  <2>2. CASE Notified(p)
    BY <1>0, <2>2, TaskMoves DEF Notified, ResetState, FlagsOK
  <2>3. CASE CallbackRaises(p)
    <3>1. \/ notes' = notes + 1 /\ raised' = raised
          \/ notes' = notes /\ raised' = (raised \/ p = "host")
      BY <2>3 DEF CallbackRaises
    <3>2. raised' \in BOOLEAN
      BY <3>1 DEF FlagsOK
    <3>3. notes' \in Nat
      BY <3>1 DEF FlagsOK
    <3> QED
      BY <1>0, <2>3, <3>2, <3>3, TaskMoves DEF CallbackRaises, ResetState, ClearFlags, FlagsOK
  <2>4. CASE PauseOver(p)
    <3>1. /\ task' \in Where /\ regq' \in Seq(ToSet(Modules))
          /\ running' \in BOOLEAN /\ module' \in BOOLEAN /\ window' \in BOOLEAN
      <4>1. CASE regq = <<>>
        BY <1>0, <2>4, <4>1, TaskMoves DEF PauseOver, FlagsOK
      <4>2. CASE regq # <<>>
        BY <1>0, <1>2, <2>4, <4>2 DEF PauseOver, FlagsOK
      <4> QED
        BY <4>1, <4>2
    <3> QED
      BY <2>4, <3>1 DEF PauseOver, FlagsOK
  <2>5. CASE Count(p)
    <3>1. task' \in Where
      BY <1>0, <2>5, TaskMoves DEF Count
    <3> QED
      BY <2>5, <3>1 DEF Count, FlagsOK
  <2>6. CASE ScanBegins(p)
    <3>1. task' \in Where
      BY <1>0, <2>6, TaskMoves DEF ScanBegins
    <3> QED
      BY <2>6, <3>1 DEF ScanBegins, FlagsOK
  <2>7. CASE ScanEnds(p)
    <3>1. task' \in Where
      BY <1>0, <2>7, TaskMoves DEF ScanEnds
    <3>2. scanned' \in Seq(ToSet(Modules) \cup {None})
      <4> DEFINE m == task[p].mod
                 S == ToSet(Modules) \cup {None}
      <4>1. m \in S /\ scanned \in Seq(S) /\ scanned' = Append(scanned, m)
        BY <1>8, <2>7, TaskMoves DEF ScanEnds, FlagsOK
      <4> HIDE DEF m, S
      <4>2. scanned' \in Seq(S)
        BY <4>1
      <4> QED
        BY <4>2 DEF S
    <3> QED
      BY <2>7, <3>1, <3>2 DEF ScanEnds, FlagsOK
  <2>8. CASE Saved(p)
    BY <1>3, <2>8 DEF Saved, FlagsOK
  <2>9. CASE ScanFails(p)
    BY <1>0, <1>4, <2>9 DEF ScanFails, FlagsOK
  <2> QED
    BY <1>8, <2>1, <2>2, <2>3, <2>4, <2>5, <2>6, <2>7, <2>8, <2>9 DEF Chain
<1>9. CASE CancelScan
  BY <1>0, <1>4, <1>9 DEF CancelScan, FlagsOK
<1>10. CASE TimerFires
  BY <1>0, <1>3, <1>10 DEF TimerFires, FlagsOK
<1>11. ASSUME ModuleFrame
       PROVE  timer' \in BOOLEAN /\ module' \in BOOLEAN /\ window' \in BOOLEAN /\ task' \in Where
  BY <1>0, <1>3, <1>11 DEF ModuleFrame, FlagsOK
<1>12. CASE ForeignFrame
  BY <1>11, <1>12 DEF ForeignFrame, FlagsOK
<1>13. CASE HearStraggler
  BY <1>11, <1>13 DEF HearStraggler, FlagsOK
<1>14. CASE WindowElapses
  <2>1. task' \in Where
    BY <1>0, <1>14, TaskMoves DEF WindowElapses, FlagsOK
  <2> QED
    BY <1>14, <2>1 DEF WindowElapses, FlagsOK
<1>15. CASE InventorySaved
  BY <1>0, <1>15, TaskMoves DEF InventorySaved, FlagsOK
<1>16. CASE InventoryFails
  <2>1. task' \in Where
    BY <1>0, <1>16, TaskMoves DEF InventoryFails
  <2>2. notes' \in Nat
    BY <1>16 DEF InventoryFails, Tells, FlagsOK
  <2> QED
    BY <1>0, <1>16, <2>1, <2>2 DEF InventoryFails, ResetState, ClearFlags, FlagsOK
<1>17. CASE CancelInventory
  BY <1>0, <1>17 DEF CancelInventory, ResetState, ClearFlags, FlagsOK
<1>18. CASE Send
  <2>1. window' \in BOOLEAN
    BY <1>18 DEF Send, FlagsOK
  <2> QED
    BY <1>18, <2>1 DEF Send, FlagsOK
<1>19. CASE HearAddress \/ HearRegister
  BY <1>19 DEF HearAddress, HearRegister, FlagsOK
<1>20. CASE CommandDone \/ PutRead \/ UserCommands \/ Repeated \/ UNCHANGED vars
  BY <1>20 DEF CommandDone, PutRead, UserCommands, Repeated, vars, FlagsOK
<1> QED
  BY <1>5, <1>6, <1>7, <1>8, <1>9, <1>10, <1>12, <1>13, <1>14, <1>15, <1>16, <1>17, <1>18,
     <1>19, <1>20 DEF Next, Begin, System, Inventory

\* The steps of the bus and of the worker.
BusStep ==
    \/ Send \/ CommandDone \/ PutRead \/ UserCommands \/ Repeated \/ HearAddress \/ HearRegister

\* A step of the bus moves the window's timer and nothing else of a run; without
\* an inventory not even that, or the run is crossed.
LEMMA BusMoves ==
    ASSUME FlagsOK, BusStep, ~crossed'
    PROVE  /\ UNCHANGED <<flagVars, stage, regq, context, lock, timer, task>>
           /\ UNCHANGED <<kind, runs, raised, spoilt, notes, scanned>>
           /\ ~InInventory /\ query # "pc_link" => window' = window
<1> USE DEF flagVars, timerVars, sweepVars, busVars, histVars
<1>1. CASE Send
  <2>1. /\ UNCHANGED <<flagVars, stage, regq, context, lock, timer, task>>
        /\ UNCHANGED <<kind, runs, raised, spoilt, notes, scanned>>
    BY <1>1 DEF Send
  <2>2. window' = window \/ window' = (window \/ Rearms)
    BY <1>1 DEF Send
  <2>3. ~InInventory => window' = window
    BY <2>2 DEF Rearms, FlagsOK
  <2> QED
    BY <2>1, <2>3
<1>2. CASE HearAddress
  <2>1. crossed' = (crossed \/ query # "pc_link")
    BY <1>2 DEF HearAddress
  <2>2. query = "pc_link"
    BY <2>1
  <2> QED
    BY <1>2, <2>2 DEF HearAddress
<1>3. CASE HearRegister
  BY <1>3 DEF HearRegister
<1>4. CASE CommandDone \/ PutRead \/ UserCommands \/ Repeated
  BY <1>4 DEF CommandDone, PutRead, UserCommands, Repeated
<1> QED
  BY <1>1, <1>2, <1>3, <1>4 DEF BusStep

\* A run that was crossed stays so.
LEMMA StaysCrossed ==
    FlagsOK /\ [Next]_vars /\ crossed => crossed'
<1> SUFFICES ASSUME FlagsOK, [Next]_vars, crossed PROVE crossed'
  OBVIOUS
<1> USE DEF histVars
<1>1. CASE Begin
  BY <1>1 DEF Begin, ScanOne, ScanAll, StartInventory, Begins
<1>2. ASSUME NEW p \in Tasks, Chain(p) PROVE crossed'
  BY <1>2 DEF Chain, Notify, Notified, CallbackRaises, PauseOver, Count, ScanBegins, ScanEnds,
     Saved, ScanFails
<1>3. CASE BusStep
  BY <1>3 DEF BusStep, Send, CommandDone, PutRead, UserCommands, Repeated, HearAddress,
     HearRegister
<1>4. CASE \/ HearStraggler \/ WindowElapses \/ InventorySaved \/ InventoryFails \/ TimerFires
           \/ CancelScan \/ CancelInventory \/ ForeignFrame \/ UNCHANGED vars
  BY <1>4 DEF HearStraggler, WindowElapses, InventorySaved, InventoryFails, TimerFires,
     CancelScan, CancelInventory, ForeignFrame, vars
<1> QED
  BY <1>1, <1>2, <1>3, <1>4 DEF Next, System, Inventory, BusStep

\* A frame nobody waits for crosses.
LEMMA Crosses ==
    HearStraggler \/ ForeignFrame => crossed'
BY DEF HearStraggler, ForeignFrame

\* What the host may begin when nothing is going on.
LEMMA RunBegins ==
    ASSUME FlagsOK, Resting, Begin, ~crossed'
    PROVE  Scanning' \/ Sweeping' \/ CallingBack'
<1> USE DEF flagVars, timerVars, sweepVars, busVars, histVars
<1>0. /\ "host" \in Tasks /\ "inventory" \in Tasks
      /\ \A w \in {"count", "finishing"} : w \in Places
      /\ Alone("host") /\ Alone("inventory") /\ task["inventory"].pc = "idle"
      /\ None \in ToSet(Modules) \cup {None}
  BY DEF Tasks, Places, Resting, AllIdle, Alone
<1>1. ASSUME NEW m \in ToSet(Modules), ScanOne(m) PROVE Scanning'
  <2>1. /\ kind' = "one" /\ notes' = 0 /\ raised' = FALSE /\ query' = "module"
        /\ stage' = "register_scan" /\ lock' = None /\ regq' = <<>> /\ window' = FALSE
        /\ timer' = FALSE
    BY <1>1 DEF ScanOne, Begins, Resting
  <2>2. Goes("host", "finishing", None) \/ (Goes("host", "count", m) /\ context' = m)
    BY <1>1 DEF ScanOne, Resting
  <2>3. /\ Alone("host")'
        /\ \/ task'["host"].pc = "finishing"
           \/ task'["host"].pc = "count" /\ task'["host"].mod = m /\ context' = m
    BY <1>0, <2>2, MovesAlone
  <2> QED
    BY <2>1, <2>3 DEF Scanning, InInventory
<1>2. CASE ScanAll
  <2>1. /\ kind' = "all" /\ notes' = 0 /\ raised' = FALSE /\ scanned' = <<>>
        /\ lock' = None /\ window' = FALSE /\ timer' = FALSE
    BY <1>2 DEF ScanAll, Begins, Resting
  <2>2. CASE Scannable = <<>>
    <3>1. /\ Goes("host", "finishing", None) /\ query' = None /\ stage' = None /\ regq' = <<>>
      BY <1>2, <2>2 DEF ScanAll, Resting
    <3>2. Alone("host")' /\ task'["host"].pc = "finishing"
      BY <1>0, <3>1, MovesAlone
    <3> QED
      BY <2>1, <2>2, <3>1, <3>2 DEF Scanning, InInventory, None
  <2>3. CASE Scannable # <<>>
    <3> DEFINE m == Head(Scannable)
    <3>1. /\ Goes("host", "count", m) /\ query' = "module" /\ stage' = "register_scan"
          /\ regq' = Tail(Scannable) /\ context' = m
      BY <1>2, <2>3 DEF ScanAll, StartNext
    <3>2. m \in ToSet(Modules)
      BY <2>3, Scans
    <3>3. m = Scannable[0 + 1] /\ Left(0 + 1)'
      <4>1. 0 + Len(Scannable) = Len(Scannable)
            /\ \A i \in DOMAIN Scannable : Scannable[i] = Scannable[0 + i]
        BY ScannableFacts
      <4>2. /\ m = Scannable[0 + 1] /\ (0 + 1) + Len(Tail(Scannable)) = Len(Scannable)
            /\ \A i \in DOMAIN Tail(Scannable) : Tail(Scannable)[i] = Scannable[(0 + 1) + i]
        BY <2>3, <4>1, NextLeft, ScannableFacts
      <4> QED
        BY <3>1, <4>2 DEF Left
    <3> HIDE DEF m
    <3>4. Alone("host")' /\ task'["host"].pc = "count" /\ task'["host"].mod = m
      BY <1>0, <3>1, <3>2, MovesAlone
    <3>5. Len(scanned') = 0 /\ Begun'
      BY <2>1, ScannableFacts DEF Begun
    <3>6. Left(Len(scanned) + 1)' /\ m = Scannable[Len(scanned') + 1]
      BY <3>3, <3>5
    <3> QED
      BY <2>1, <3>1, <3>4, <3>5, <3>6 DEF Scanning, InInventory
  <2> QED
    BY <2>2, <2>3
<1>3. CASE StartInventory
  <2>1. /\ kind' = "inventory" /\ notes' = 0 /\ raised' = FALSE /\ runs' = runs + 1
        /\ running' = TRUE /\ module' = FALSE /\ query' = "pc_link"
        /\ timer' = FALSE /\ lock' = None /\ task' = task
    BY <1>3 DEF StartInventory, Begins, Resting
  <2>2. Alone("inventory")' /\ task'["inventory"].pc = "idle"
    BY <1>0, <2>1 DEF Alone
  <2>3. runs' > 0
    BY <2>1 DEF FlagsOK
  <2> QED
    BY <2>1, <2>2, <2>3 DEF Sweeping
<1> QED
  BY <1>1, <1>2, <1>3 DEF Begin

\* Finalizing, the module done: on to the next one, or the end.
LEMMA ScanFinalizes ==
    ASSUME FlagsOK, Scanning, task["host"].pc = "save", Finalize("host"),
           UNCHANGED <<query, stage, regq, lock, kind, raised, notes, scanned>>
    PROVE  Scanning'
<1>1. "host" \in Tasks /\ "pause" \in Places /\ "finishing" \in Places
  BY DEF Tasks, Places
<1>2. timer' = FALSE /\ window' = FALSE /\ lock' = None /\ Alone("host")
  BY DEF Scanning, Finalize
<1>3. CASE stage = "register_scan" /\ regq # <<>>
  <2>1. Alone("host")' /\ task'["host"].pc = "pause"
    BY <1>1, <1>2, <1>3, MovesAlone DEF Finalize
  <2>2. kind = "all" => (Begun /\ Left(Len(scanned)))'
    BY DEF Scanning, Begun, Left
  <2> QED
    BY <1>2, <2>1, <2>2 DEF Scanning, InInventory
<1>4. CASE ~(stage = "register_scan" /\ regq # <<>>)
  <2>1. Alone("host")' /\ task'["host"].pc = "finishing"
    BY <1>1, <1>2, <1>4, MovesAlone DEF Finalize
  <2>2. kind = "all" => scanned = Scannable
    BY <1>4, AllScanned DEF Scanning, FlagsOK
  <2> QED
    BY <1>2, <2>1, <2>2 DEF Scanning, InInventory
<1> QED
  BY <1>3, <1>4

\* An exception out of a scan leaves nothing of it.
LEMMA ScanAborts ==
    ASSUME FlagsOK, Scanning, Abort("host"), UNCHANGED <<kind, notes, scanned>>
    PROVE  Resting'
<1>1. AllIdle'
  BY ReturnsAlone DEF Abort, Scanning, Tasks
<1>2. raised' = TRUE
  BY DEF Abort
<1>3. lock' = None
  BY DEF Abort, Scanning
<1> QED
  BY <1>1, <1>2, <1>3 DEF Abort, ResetState, ClearFlags, Scanning, Resting, Told

\* The pause is over: the next module.
LEMMA ScanGoesOn ==
    ASSUME FlagsOK, Scanning, PauseOver("host")
    PROVE  Scanning'
<1> USE DEF flagVars, timerVars, sweepVars, busVars, histVars
<1>1. "host" \in Tasks /\ "count" \in Places /\ "finishing" \in Places
  BY DEF Tasks, Places
<1>2. /\ task["host"].pc = "pause" /\ Alone("host")
      /\ UNCHANGED <<stage, lock, timer, kind, raised, notes, scanned>>
      /\ lock = None /\ ~timer /\ notes = 0 /\ ~raised /\ ~InInventory
      /\ kind \in {"one", "all"}
      /\ kind = "one" => regq = <<>>
      /\ kind = "all" => stage = "register_scan" /\ Begun /\ Left(Len(scanned))
  BY DEF PauseOver, Scanning
<1>3. window' = FALSE
  BY DEF PauseOver, Scanning, FlagsOK
<1>4. CASE regq = <<>>
  <2>1. UNCHANGED <<query, regq>> /\ query # "pc_link"
    BY <1>4 DEF PauseOver, Scanning
  <2>2. Alone("host")' /\ task'["host"].pc = "finishing"
    BY <1>1, <1>2, <1>4, MovesAlone DEF PauseOver
  <2>3. kind = "all" => scanned = Scannable
    BY <1>2, <1>4, AllScanned DEF FlagsOK
  <2> QED
    BY <1>2, <1>3, <1>4, <2>1, <2>2, <2>3 DEF Scanning, InInventory
<1>5. CASE regq # <<>>
  <2> DEFINE m == Head(regq)
             n == Len(scanned)
  <2>1. /\ Goes("host", "count", m) /\ regq' = Tail(regq) /\ query' = "module" /\ context' = m
    BY <1>2, <1>5 DEF PauseOver, StartNext
  <2>2. m \in ToSet(Modules) /\ n \in Nat
    BY <1>5 DEF FlagsOK
  <2>3. kind = "all"
    BY <1>2, <1>5
  <2>4. n + Len(regq) = Len(Scannable) /\ \A i \in DOMAIN regq : regq[i] = Scannable[n + i]
    BY <1>2, <2>3 DEF Left
  <2>5. regq \in Seq(ToSet(Modules))
    BY DEF FlagsOK
  <2>6. /\ m = Scannable[n + 1] /\ (n + 1) + Len(Tail(regq)) = Len(Scannable)
        /\ \A i \in DOMAIN Tail(regq) : Tail(regq)[i] = Scannable[(n + 1) + i]
    BY SMTT(30), <1>5, <2>2, <2>4, <2>5, NextLeft, ScannableFacts
  <2>7. Left(Len(scanned) + 1)' /\ Begun'
    BY <1>2, <2>1, <2>3, <2>6 DEF Left, Begun
  <2> HIDE DEF m
  <2>8. Alone("host")' /\ task'["host"].pc = "count" /\ task'["host"].mod = m
    BY <1>1, <1>2, <2>1, <2>2, MovesAlone
  <2> QED
    BY <1>2, <1>3, <2>1, <2>3, <2>6, <2>7, <2>8 DEF Scanning, InInventory
<1> QED
  BY <1>4, <1>5

\* The module counted and the scan lock taken, its registers are read.
LEMMA ScanMoves ==
    ASSUME FlagsOK, Scanning, ~crossed', Count("host") \/ ScanBegins("host")
    PROVE  Scanning'
<1> USE DEF flagVars, timerVars, sweepVars, busVars, histVars
<1> DEFINE m == task["host"].mod
<1>1. "host" \in Tasks /\ "lock" \in Places /\ "scan" \in Places /\ Alone("host")
  BY DEF Tasks, Places, Scanning
<1>2. m \in ToSet(Modules) \cup {None}
  BY <1>1, TaskMoves
<1>3. PICK w \in {"lock", "scan"} :
        /\ Goes("host", w, m)
        /\ lock' = IF w = "scan" THEN "host" ELSE lock
        /\ w = "lock" => task["host"].pc = "count"
        /\ w = "scan" => task["host"].pc = "lock"
        /\ timer' = FALSE
  BY DEF Count, ScanBegins, Scanning, FlagsOK
<1>4. /\ UNCHANGED <<query, stage, regq, context, kind, raised, notes, scanned>>
      /\ window' = window
  BY DEF Count, ScanBegins
<1>5. Alone("host")' /\ task'["host"].pc = w /\ task'["host"].mod = m
  <2> HIDE DEF m
  <2> QED
    BY <1>1, <1>2, <1>3, MovesAlone
<1>6. kind = "all" => (Begun /\ Left(Len(scanned) + 1))' /\ m = Scannable[Len(scanned') + 1]
  BY <1>3, <1>4 DEF Scanning, Begun, Left
<1>7. context = m /\ lock = None
  BY <1>3 DEF Scanning
<1> HIDE DEF m
<1> QED
  BY <1>3, <1>4, <1>5, <1>6, <1>7 DEF Scanning, InInventory

\* The module's last register read, it is done.
LEMMA ScanIsThrough ==
    ASSUME FlagsOK, Scanning, ScanEnds("host")
    PROVE  Scanning'
<1> USE DEF flagVars, timerVars, sweepVars, busVars, histVars
<1> DEFINE m == task["host"].mod
           S == ToSet(Modules) \cup {None}
<1>1. "host" \in Tasks /\ "save" \in Places /\ Alone("host")
  BY DEF Tasks, Places, Scanning
<1>2. m \in S
  BY <1>1, TaskMoves
<1>3. /\ task["host"].pc = "scan" /\ lock' = None /\ scanned' = Append(scanned, m)
      /\ Goes("host", "save", m)
      /\ UNCHANGED <<query, stage, regq, context, timer, window, kind, raised, notes>>
  BY DEF ScanEnds
<1>4. context = m
  BY <1>3 DEF Scanning
<1>5. ASSUME kind = "all" PROVE Begun' /\ Left(Len(scanned))'
  <2>1. Begun /\ Left(Len(scanned) + 1) /\ m = Scannable[Len(scanned) + 1]
    BY <1>3, <1>5 DEF Scanning
  <2>2. scanned \in Seq(S) /\ Scannable \in Seq(S) /\ regq \in Seq(ToSet(Modules))
    BY ScannableFacts DEF FlagsOK
  <2> HIDE DEF m, S
  <2>3. Len(scanned) + 1 <= Len(Scannable) /\ \A i \in DOMAIN scanned : scanned[i] = Scannable[i]
    BY <2>1, <2>2 DEF Begun, Left
  <2> DEFINE u == Append(scanned, Scannable[Len(scanned) + 1])
  <2>4. u \in Seq(S) /\ Len(u) = Len(scanned) + 1 /\ \A i \in DOMAIN u : u[i] = Scannable[i]
    BY <2>2, <2>3, ScannedNext
  <2>5. scanned' = u
    BY <1>3, <2>1
  <2> HIDE DEF u
  <2>6. Begun'
    BY <2>3, <2>4, <2>5 DEF Begun
  <2>7. Left(Len(scanned))'
    BY <1>3, <2>1, <2>4, <2>5 DEF Left
  <2> QED
    BY <2>6, <2>7
<1>6. Alone("host")' /\ task'["host"].pc = "save" /\ task'["host"].mod = m
  <2> HIDE DEF m
  <2> QED
    BY <1>1, <1>2, <1>3, MovesAlone
<1> HIDE DEF m
<1> QED
  BY <1>3, <1>4, <1>5, <1>6 DEF Scanning, InInventory

\* A scan goes on, is called back or ends in an exception.
LEMMA RunScans ==
    ASSUME FlagsOK, Scanning, [Next]_vars, ~crossed'
    PROVE  Scanning' \/ CallingBack' \/ Resting'
<1> USE DEF flagVars, timerVars, sweepVars, busVars, histVars
<1>1. /\ "host" \in Tasks /\ "inventory" \in Tasks /\ task["host"].pc # "idle"
      /\ \A p \in Tasks : p # "host" => task[p].pc = "idle"
  BY DEF Tasks, Scanning, Alone
<1>2. CASE Begin
  BY <1>1, <1>2 DEF Begin, ScanOne, ScanAll, StartInventory, Begins
<1>3. ASSUME NEW p \in Tasks, Chain(p) PROVE Scanning' \/ CallingBack' \/ Resting'
  <2>1. p = "host"
    BY <1>1, <1>3 DEF Chain, Notify, Notified, CallbackRaises, PauseOver, Count, ScanBegins,
       ScanEnds, Saved, ScanFails
  <2>2. CASE Notify(p)
    <3>1. /\ Goes("host", "callback", None) /\ task["host"].pc = "finishing"
          /\ notes' = notes + 1 /\ running' = FALSE /\ module' = FALSE
          /\ UNCHANGED <<query, stage, lock, timer, window, kind, raised, scanned>>
      BY <2>1, <2>2 DEF Notify
    <3>2. "callback" \in Places /\ None \in ToSet(Modules) \cup {None} /\ Alone("host")
      BY DEF Places, Scanning
    <3>3. Alone("host")' /\ task'["host"].pc = "callback"
      BY <1>1, <3>1, <3>2, MovesAlone
    <3> QED
      BY <3>1, <3>3 DEF Scanning, CallingBack, InInventory
  <2>3. CASE PauseOver(p)
    BY <2>1, <2>3, ScanGoesOn
  <2>4. CASE Count(p) \/ ScanBegins(p)
    BY <2>1, <2>4, ScanMoves
  <2>5. CASE ScanEnds(p)
    BY <2>1, <2>5, ScanIsThrough
  <2>6. CASE Saved(p)
    <3>1. /\ Finalize("host") /\ task["host"].pc = "save"
          /\ UNCHANGED <<query, stage, regq, lock, kind, raised, notes, scanned>>
      BY <2>1, <2>6 DEF Saved
    <3> QED
      BY <3>1, ScanFinalizes
  <2>7. CASE ScanFails(p)
    <3>1. Abort("host") /\ UNCHANGED <<kind, notes, scanned>>
      BY <2>1, <2>7 DEF ScanFails
    <3> QED
      BY <3>1, ScanAborts
  <2>8. CASE Notified(p) \/ CallbackRaises(p)
    BY <2>1, <2>8 DEF Scanning, Notified, CallbackRaises
  <2> QED
    BY <1>3, <2>2, <2>3, <2>4, <2>5, <2>6, <2>7, <2>8 DEF Chain
<1>4. CASE BusStep
  BY <1>4, BusMoves DEF Scanning, InInventory, Alone, Begun, Left
<1>5. CASE CancelScan
  <2>1. Abort("host") /\ UNCHANGED <<kind, notes, scanned>>
    BY <1>5 DEF CancelScan
  <2> QED
    BY <2>1, ScanAborts
<1>6. CASE UNCHANGED vars
  BY <1>6 DEF vars, Scanning, InInventory, Alone, Begun, Left
<1>7. CASE \/ TimerFires \/ WindowElapses \/ InventorySaved \/ InventoryFails
           \/ CancelInventory \/ HearStraggler \/ ForeignFrame
  BY <1>1, <1>7, Crosses DEF Scanning, TimerFires, WindowElapses, InventorySaved, InventoryFails,
     CancelInventory
<1> QED
  BY <1>2, <1>3, <1>4, <1>5, <1>6, <1>7 DEF Next, System, Inventory, BusStep

\* The sweep of the PC-Link goes on, is called back or is given up.
LEMMA RunSweeps ==
    ASSUME FlagsOK, Sweeping, [Next]_vars, ~crossed'
    PROVE  Sweeping' \/ CallingBack' \/ Resting'
<1> USE DEF flagVars, timerVars, sweepVars, busVars, histVars
<1>1. /\ "host" \in Tasks /\ "inventory" \in Tasks /\ Alone("inventory")
      /\ \A p \in Tasks : p # "inventory" => task[p].pc = "idle"
      /\ \A w \in {"saving", "finishing", "callback"} : w \in Places
      /\ None \in ToSet(Modules) \cup {None}
  BY DEF Tasks, Places, Sweeping, Alone
<1>2. CASE Begin
  BY <1>2 DEF Begin, ScanOne, ScanAll, StartInventory, Begins, Sweeping
<1>3. ASSUME NEW p \in Tasks, Chain(p) PROVE Sweeping' \/ CallingBack' \/ Resting'
  <2>1. p = "inventory" /\ Notify(p)
    BY <1>1, <1>3 DEF Sweeping, Chain, Notify, Notified, CallbackRaises, PauseOver, Count,
       ScanBegins, ScanEnds, Saved, ScanFails
  <2>2. /\ Goes("inventory", "callback", None)
        /\ notes' = notes + 1 /\ running' = FALSE /\ module' = FALSE
        /\ UNCHANGED <<query, stage, lock, timer, window, kind, raised, scanned>>
    BY <2>1 DEF Notify
  <2>3. Alone("inventory")' /\ task'["inventory"].pc = "callback"
    BY <1>1, <2>2, MovesAlone
  <2> QED
    BY <2>2, <2>3 DEF Sweeping, CallingBack
<1>4. CASE BusStep
  BY <1>4, BusMoves DEF Sweeping, Alone
<1>5. CASE WindowElapses \/ InventorySaved
  <2>1. UNCHANGED <<flagVars, lock, timer, kind, runs, raised, notes>>
    BY <1>5 DEF WindowElapses, InventorySaved
  <2>2. \/ task' = task
        \/ Goes("inventory", "saving", None) \/ Goes("inventory", "finishing", None)
    BY <1>5 DEF WindowElapses, InventorySaved
  <2>3. Alone("inventory")' /\ task'["inventory"].pc \in {"idle", "saving", "finishing"}
    <3>1. CASE task' = task
      BY <3>1 DEF Sweeping, Alone
    <3>2. CASE task' # task
      BY <1>1, <2>2, <3>2, MovesAlone
    <3> QED
      BY <3>1, <3>2
  <2> QED
    BY <2>1, <2>3 DEF Sweeping
<1>6. CASE InventoryFails
  <2>1. AllIdle'
    BY <1>1, <1>6, ReturnsAlone DEF InventoryFails
  <2> QED
    BY <1>6, <2>1 DEF InventoryFails, ResetState, ClearFlags, Tells, Told, Sweeping, Resting
<1>7. CASE CancelInventory
  <2>1. AllIdle'
    BY <1>7 DEF CancelInventory, AllIdle
  <2> QED
    BY <1>7, <2>1 DEF CancelInventory, ResetState, ClearFlags, Sweeping, Resting
<1>8. CASE UNCHANGED vars
  BY <1>8 DEF vars, Sweeping, Alone
<1>9. CASE TimerFires \/ CancelScan \/ HearStraggler \/ ForeignFrame
  BY <1>1, <1>9, Crosses DEF Sweeping, TimerFires, CancelScan
<1> QED
  BY <1>2, <1>3, <1>4, <1>5, <1>6, <1>7, <1>8, <1>9 DEF Next, System, Inventory, BusStep

\* The callback returns or raises, and nothing is left of the run.
LEMMA RunCallsBack ==
    ASSUME FlagsOK, CallingBack, [Next]_vars, ~crossed'
    PROVE  CallingBack' \/ Resting'
<1> USE DEF flagVars, timerVars, sweepVars, busVars, histVars
<1>1. PICK c \in {"host", "inventory"} :
        /\ Alone(c) /\ task[c].pc = "callback" /\ c \in Tasks
        /\ \A p \in Tasks : p # c => task[p].pc = "idle"
        /\ c = "inventory" => kind = "inventory"
        /\ c = "host" => kind \in {"one", "all"}
  BY DEF CallingBack, Alone, Tasks
<1>2. CASE Begin
  <2>1. crossed' = (crossed \/ ~AllIdle)
    BY <1>2 DEF Begin, ScanOne, ScanAll, StartInventory, Begins
  <2>2. ~AllIdle
    BY <1>1 DEF AllIdle
  <2> QED
    BY <2>1, <2>2
<1>3. ASSUME NEW p \in Tasks, Chain(p) PROVE Resting'
  <2>1. p = c /\ (Notified(c) \/ CallbackRaises(c))
    BY <1>1, <1>3 DEF Chain, Notify, Notified, CallbackRaises, PauseOver, Count,
       ScanBegins, ScanEnds, Saved, ScanFails
  <2>2. /\ Returns(c) /\ ResetState /\ query' = None /\ running' = FALSE /\ module' = FALSE
        /\ UNCHANGED <<lock, kind, scanned>>
    BY <2>1 DEF Notified, CallbackRaises, ClearFlags, CallingBack, FlagsOK
  <2>3. AllIdle'
    BY <1>1, <2>2, ReturnsAlone
  <2>4. CASE Notified(c)
    BY <1>1, <2>2, <2>3, <2>4 DEF Notified, ResetState, CallingBack, Resting, Told
  <2>5. CASE CallbackRaises(c)
    <3>1. spoilt' = TRUE
      BY <2>5 DEF CallbackRaises
    <3>2. c = "host" => raised' = TRUE
      BY <2>5 DEF CallbackRaises, FlagsOK
    <3>3. c = "inventory" => notes' = notes + 1
      BY <2>5 DEF CallbackRaises
    <3>4. kind' = "inventory" => Told'
      BY <1>1, <2>2, <3>3 DEF CallingBack, Told
    <3>5. kind' = "all" => raised'
      BY <1>1, <2>2, <3>2
    <3> QED
      BY <2>2, <2>3, <3>1, <3>4, <3>5 DEF ResetState, CallingBack, Resting
  <2> QED
    BY <2>1, <2>4, <2>5
<1>4. CASE BusStep
  BY <1>4, BusMoves DEF CallingBack, InInventory, Alone
<1>5. CASE UNCHANGED vars
  BY <1>5 DEF vars, CallingBack, InInventory, Alone
<1>6. CASE \/ TimerFires \/ WindowElapses \/ InventorySaved \/ InventoryFails
           \/ CancelInventory \/ CancelScan \/ HearStraggler \/ ForeignFrame
  BY <1>1, <1>6, Crosses DEF CallingBack, TimerFires, WindowElapses, InventorySaved,
     InventoryFails, CancelInventory, CancelScan, Tasks
<1> QED
  BY <1>2, <1>3, <1>4, <1>5, <1>6 DEF Next, System, Inventory, BusStep

\* Nothing happens to a run when there is none.
LEMMA RunRests ==
    ASSUME FlagsOK, Resting, [Next]_vars, ~crossed'
    PROVE  RunInv'
<1> USE DEF flagVars, timerVars, sweepVars, busVars, histVars
<1>1. \A p \in Tasks : task[p].pc = "idle"
  BY DEF Resting, AllIdle
<1>2. CASE Begin
  BY <1>2, RunBegins DEF RunInv
<1>3. ASSUME NEW p \in Tasks PROVE ~Chain(p)
  BY <1>1, <1>3 DEF Chain, Notify, Notified, CallbackRaises, PauseOver, Count,
     ScanBegins, ScanEnds, Saved, ScanFails
<1>4. CASE BusStep
  <2>1. ~InInventory /\ query # "pc_link"
    BY DEF Resting, InInventory, None
  <2> QED
    BY <1>4, <2>1, BusMoves DEF Resting, AllIdle, Told, RunInv
<1>5. CASE UNCHANGED vars
  BY <1>5 DEF vars, Resting, AllIdle, Told, RunInv
<1>6. CASE \/ TimerFires \/ WindowElapses \/ InventorySaved \/ InventoryFails
           \/ CancelInventory \/ CancelScan \/ HearStraggler \/ ForeignFrame
  BY <1>1, <1>6, Crosses DEF Resting, TimerFires, WindowElapses, InventorySaved,
     InventoryFails, CancelInventory, CancelScan, Tasks
<1> QED
  BY <1>2, <1>3, <1>4, <1>5, <1>6 DEF Next, System, Inventory, BusStep

\* Every step leads from one of them to one of them.
LEMMA StepRun ==
    FlagsOK /\ RunInv /\ [Next]_vars => RunInv'
<1> SUFFICES ASSUME FlagsOK, RunInv, [Next]_vars, ~crossed' PROVE RunInv'
  BY DEF RunInv
<1>1. ~crossed
  BY StaysCrossed
<1> QED
  BY <1>1, RunRests, RunScans, RunSweeps, RunCallsBack DEF RunInv

-----------------------------------------------------------------------------
(* The rest of the state, and what the user queued.                        *)

\* The flags of the state that RunInv says nothing of are what they should be.
KindsOK ==
    /\ known \in BOOLEAN /\ asked \in BOOLEAN /\ hurried \in BOOLEAN /\ busy \in BOOLEAN
    /\ query \in {None, "module", "pc_link"}
    /\ stage \in {None, "register_scan", "inventory_addresses", "inventory_identity"}
    /\ context \in ToSet(Modules) \cup {None}
    /\ runs \in 0 .. MaxRuns

\* Who holds the scan lock is on a scan.
LockOK ==
    /\ lock \in Tasks \cup {None}
    /\ \A p \in Tasks : lock = p <=> task[p].pc = "scan"

\* What a command queue may hold.
Commands == Registers \cup {Enquiry, UserFrame}

\* Reads are read, records are filed.
QueuesOK ==
    /\ cmdq \in Seq(Commands) /\ Len(cmdq) <= QueueSize
    /\ putting \in Seq(Registers) /\ wire \in Seq(Registers \cup {Enquiry})
    /\ limit \in {0, Records} /\ seen \in Nat
    /\ found \subseteq 1 .. Records /\ report \subseteq 1 .. Records
    /\ users \in [queued : Nat, sent : Nat]

\* The user's commands are sent or still queued.
UsersOK == users.queued = users.sent + Times(UserFrame, cmdq)

\* A module's own name is not that of no module's decoder, so the context of a
\* run is a module or none.
LEMMA StepKinds ==
    ASSUME FlagsOK, KindsOK, [Next]_vars
    PROVE  KindsOK'
<1> USE DEF flagVars, timerVars, sweepVars, busVars, histVars
<1>0. \A p \in Tasks : task[p].mod \in ToSet(Modules) \cup {None}
  BY TaskMoves
<1>1. ASSUME NEW k, Begins(k) PROVE runs' \in 0 .. MaxRuns /\ UNCHANGED hurried
  <2>1. runs < MaxRuns /\ runs' = runs + 1 /\ UNCHANGED hurried /\ MaxRuns \in Nat
    BY <1>1, RunAssumption DEF Begins
  <2> QED
    BY <2>1 DEF KindsOK
<1>2. ASSUME NEW p \in Tasks, NEW q \in Seq(ToSet(Modules)), q # <<>>, StartNext(p, q)
      PROVE  context' \in ToSet(Modules) /\ query' = "module"
  <2>1. Head(q) \in ToSet(Modules)
    BY <1>2
  <2> QED
    BY <1>2, <2>1 DEF StartNext
<1>3. ASSUME ResetState
      PROVE  known' = FALSE /\ asked' = FALSE /\ stage' = None /\ context' = None
  BY <1>3 DEF ResetState
<1>4. ASSUME NEW m \in ToSet(Modules), ScanOne(m) PROVE KindsOK'
  <2>1. context' \in ToSet(Modules) \cup {None}
    BY <1>4 DEF ScanOne, KindsOK
  <2> QED
    BY <1>1, <1>4, <2>1 DEF ScanOne, KindsOK
<1>5. CASE ScanAll
  <2>0. "host" \in Tasks
    BY DEF Tasks
  <2>1. CASE Scannable = <<>>
    BY <1>1, <1>5, <2>1 DEF ScanAll, KindsOK
  <2>2. CASE Scannable # <<>>
    <3>1. StartNext("host", Scannable) /\ stage' = "register_scan"
      BY <1>5, <2>2 DEF ScanAll
    <3>2. context' \in ToSet(Modules) /\ query' = "module"
      BY <1>2, <2>0, <2>2, <3>1, ScannableFacts
    <3> QED
      BY <1>1, <1>5, <3>1, <3>2 DEF ScanAll, KindsOK
  <2> QED
    BY <2>1, <2>2
<1>6. CASE StartInventory
  BY <1>1, <1>6 DEF StartInventory, KindsOK
<1>7. ASSUME NEW p \in Tasks, Chain(p) PROVE KindsOK'
  <2>1. CASE Notify(p) \/ Notified(p) \/ CallbackRaises(p)
    BY <1>3, <2>1 DEF Notify, Notified, CallbackRaises, ClearFlags, KindsOK
  <2>2. CASE PauseOver(p)
    <3>1. CASE regq = <<>>
      BY <2>2, <3>1 DEF PauseOver, KindsOK
    <3>2. CASE regq # <<>>
      <4>1. context' \in ToSet(Modules) /\ query' = "module"
        BY <1>2, <2>2, <3>2 DEF PauseOver, FlagsOK
      <4> QED
        BY <2>2, <4>1 DEF PauseOver, KindsOK
    <3> QED
      BY <3>1, <3>2
  <2>3. CASE Count(p) \/ ScanBegins(p) \/ ScanEnds(p)
    BY <2>3 DEF Count, ScanBegins, ScanEnds, KindsOK
  <2>4. CASE Saved(p) \/ ScanFails(p)
    BY <1>3, <2>4 DEF Saved, Finalize, ScanFails, Abort, ClearFlags, KindsOK
  <2> QED
    BY <1>7, <2>1, <2>2, <2>3, <2>4 DEF Chain
<1>8. CASE TimerFires \/ ForeignFrame \/ HearStraggler
  BY <1>8 DEF TimerFires, ForeignFrame, HearStraggler, ModuleFrame, Finalize, KindsOK
<1>9. CASE CancelScan \/ InventoryFails \/ CancelInventory
  BY <1>3, <1>9 DEF CancelScan, InventoryFails, CancelInventory, Abort, ClearFlags, KindsOK
<1>10. CASE Send
  <2>1. busy' \in BOOLEAN
    BY <1>10 DEF Send, KindsOK
  <2> QED
    BY <1>10, <2>1 DEF Send, KindsOK
<1>11. CASE HearAddress
  <2>1. known' = TRUE /\ asked' \in BOOLEAN
    BY <1>11 DEF HearAddress, KindsOK
  <2> QED
    BY <1>11, <2>1 DEF HearAddress, KindsOK
<1>12. CASE WindowElapses
  <2>1. hurried' \in BOOLEAN
    <3>1. hurried' = hurried \/ hurried' = (hurried \/ \E i \in DOMAIN cmdq : cmdq[i] = Enquiry)
      BY <1>12 DEF WindowElapses
    <3> QED
      BY <3>1 DEF KindsOK
  <2>2. stage' \in {stage, "inventory_identity"}
    BY <1>12 DEF WindowElapses
  <2> QED
    BY <1>12, <2>1, <2>2 DEF WindowElapses, KindsOK
<1>13. CASE \/ HearRegister \/ CommandDone \/ PutRead \/ UserCommands \/ Repeated
            \/ InventorySaved \/ UNCHANGED vars
  <2>1. CASE HearRegister
    BY <2>1 DEF HearRegister, KindsOK
  <2>2. CASE CommandDone \/ PutRead
    BY <2>2 DEF CommandDone, PutRead, KindsOK
  <2>3. CASE UserCommands \/ Repeated
    BY <2>3 DEF UserCommands, Repeated, KindsOK
  <2>4. CASE InventorySaved \/ UNCHANGED vars
    BY <2>4 DEF InventorySaved, vars, KindsOK
  <2> QED
    BY <1>13, <2>1, <2>2, <2>3, <2>4
<1> QED
  BY <1>4, <1>5, <1>6, <1>7, <1>8, <1>9, <1>10, <1>11, <1>12, <1>13
     DEF Next, Begin, System, Inventory

\* Only the task on a scan has the lock.
LEMMA StepLock ==
    ASSUME FlagsOK, LockOK, [Next]_vars
    PROVE  LockOK'
<1> USE DEF flagVars, timerVars, sweepVars, busVars, histVars
<1>0. /\ {"host", "listener", "timer", "inventory"} = Tasks /\ None \notin Tasks
      /\ None \in ToSet(Modules) \cup {None}
      /\ \A w \in {"idle", "count", "lock", "scan", "save", "pause", "saving", "finishing",
                   "callback"} : w \in Places
      /\ \A p \in Tasks : task[p].mod \in ToSet(Modules) \cup {None}
  BY TaskMoves DEF Tasks, None, Places
<1>1. ASSUME NEW p \in Tasks, NEW w \in Places \ {"scan"}, NEW m \in ToSet(Modules) \cup {None},
             Goes(p, w, m), task[p].pc # "scan", UNCHANGED lock
      PROVE  LockOK'
  <2>1. task'[p] = [pc |-> w, mod |-> m] /\ \A q \in Tasks : q # p => task'[q] = task[q]
    BY <1>1, TaskMoves
  <2>2. task'[p].pc = w
    BY <2>1
  <2> QED
    BY <1>1, <2>1, <2>2 DEF LockOK
<1>2. ASSUME NEW p \in Tasks, Returns(p), task[p].pc # "scan", UNCHANGED lock
      PROVE  LockOK'
  <2>1. task'[p].pc = "idle" /\ \A q \in Tasks : q # p => task'[q] = task[q]
    BY <1>2, TaskMoves
  <2> QED
    BY <1>2, <2>1 DEF LockOK
<1>3. ASSUME NEW p \in Tasks, Finalize(p), task[p].pc # "scan", UNCHANGED lock PROVE LockOK'
  BY <1>0, <1>1, <1>3 DEF Finalize
<1>4. ASSUME NEW p \in Tasks, Abort(p) PROVE LockOK'
  <2>1. /\ task'[p].pc = "idle" /\ \A q \in Tasks : q # p => task'[q] = task[q]
        /\ lock' = IF lock = p THEN None ELSE lock
    BY <1>4, TaskMoves DEF Abort
  <2> QED
    BY <1>0, <2>1 DEF LockOK
<1>5. ASSUME NEW p \in Tasks, NEW q \in Seq(ToSet(Modules)), q # <<>>, StartNext(p, q),
             task[p].pc # "scan", UNCHANGED lock
      PROVE  LockOK'
  <2>1. Head(q) \in ToSet(Modules) \cup {None}
    BY <1>5
  <2> QED
    BY <1>0, <1>1, <1>5, <2>1 DEF StartNext
<1>6. CASE Begin
  <2>0. "host" \in Tasks
    BY DEF Tasks
  <2>1. ASSUME NEW m \in ToSet(Modules), ScanOne(m) PROVE LockOK'
    BY <1>0, <1>1, <2>0, <2>1 DEF ScanOne, Begins
  <2>2. CASE ScanAll
    <3>1. task["host"].pc # "scan" /\ UNCHANGED lock
      BY <2>2 DEF ScanAll, Begins
    <3>2. CASE Scannable = <<>>
      BY <1>0, <1>1, <2>0, <2>2, <3>1, <3>2 DEF ScanAll
    <3>3. CASE Scannable # <<>>
      BY <1>5, <2>0, <2>2, <3>1, <3>3, ScannableFacts DEF ScanAll
    <3> QED
      BY <3>2, <3>3
  <2>3. CASE StartInventory
    BY <2>3 DEF StartInventory, LockOK
  <2> QED
    BY <1>6, <2>1, <2>2, <2>3 DEF Begin
<1>7. ASSUME NEW p \in Tasks, Chain(p) PROVE LockOK'
  <2>1. CASE Notify(p)
    BY <1>0, <1>1, <2>1 DEF Notify
  <2>2. CASE Notified(p) \/ CallbackRaises(p)
    BY <1>2, <2>2 DEF Notified, CallbackRaises
  <2>3. CASE PauseOver(p)
    <3>1. task[p].pc # "scan" /\ UNCHANGED lock
      BY <2>3 DEF PauseOver
    <3>2. CASE regq = <<>>
      BY <1>0, <1>1, <2>3, <3>1, <3>2 DEF PauseOver
    <3>3. CASE regq # <<>>
      BY <1>5, <2>3, <3>1, <3>3 DEF PauseOver, FlagsOK
    <3> QED
      BY <3>2, <3>3
  <2>4. CASE Count(p)
    BY <1>0, <1>1, <2>4 DEF Count
  <2>5. CASE ScanBegins(p)
    <3>1. lock = None /\ lock' = p /\ Goes(p, "scan", task[p].mod)
      BY <2>5 DEF ScanBegins
    <3>2. task'[p] = [pc |-> "scan", mod |-> task[p].mod] /\ \A q \in Tasks : q # p => task'[q] = task[q]
      BY <1>0, <3>1, TaskMoves
    <3>3. task'[p].pc = "scan"
      BY <3>2
    <3> QED
      BY <1>0, <3>1, <3>2, <3>3 DEF LockOK
  <2>6. CASE ScanEnds(p)
    <3>1. task[p].pc = "scan" /\ lock' = None /\ Goes(p, "save", task[p].mod)
      BY <2>6 DEF ScanEnds
    <3>2. task'[p] = [pc |-> "save", mod |-> task[p].mod] /\ \A q \in Tasks : q # p => task'[q] = task[q]
      BY <1>0, <3>1, TaskMoves
    <3>3. task'[p].pc = "save"
      BY <3>2
    <3>4. \A q \in Tasks : q # p => task[q].pc # "scan"
      BY <3>1 DEF LockOK
    <3> QED
      BY <1>0, <3>1, <3>2, <3>3, <3>4 DEF LockOK
  <2>7. CASE Saved(p)
    BY <1>3, <2>7 DEF Saved
  <2>8. CASE ScanFails(p)
    BY <1>4, <2>8 DEF ScanFails
  <2> QED
    BY <1>7, <2>1, <2>2, <2>3, <2>4, <2>5, <2>6, <2>7, <2>8 DEF Chain
<1>8. ASSUME UNCHANGED lock, task' = task PROVE LockOK'
  BY <1>8 DEF LockOK
<1>9. CASE TimerFires
  BY <1>0, <1>3, <1>8, <1>9 DEF TimerFires
<1>10. CASE ForeignFrame \/ HearStraggler
  BY <1>0, <1>3, <1>8, <1>10 DEF ForeignFrame, HearStraggler, ModuleFrame
<1>11. CASE CancelScan
  BY <1>0, <1>4, <1>11 DEF CancelScan
<1>12. CASE WindowElapses \/ InventorySaved
  BY <1>0, <1>1, <1>8, <1>12 DEF WindowElapses, InventorySaved
<1>13. CASE InventoryFails
  BY <1>0, <1>2, <1>13 DEF InventoryFails
<1>14. CASE CancelInventory \/ BusStep \/ UNCHANGED vars
  BY <1>8, <1>14 DEF CancelInventory, BusStep, Send, CommandDone, PutRead, UserCommands, Repeated,
     HearAddress, HearRegister, vars
<1> QED
  BY <1>6, <1>7, <1>9, <1>10, <1>11, <1>12, <1>13, <1>14
     DEF Next, System, Inventory, BusStep

\* What is queued, read, filed and reported stays within bounds.
LEMMA StepQueues ==
    ASSUME FlagsOK, QueuesOK, [Next]_vars
    PROVE  QueuesOK'
<1> USE DEF flagVars, timerVars, sweepVars, busVars, histVars
<1>0. /\ Records \in Nat \ {0} /\ QueueSize \in Nat \ {0} /\ Filler \in Nat
      /\ Enquiry \in Commands /\ UserFrame \in Commands /\ Registers \subseteq Commands
      /\ Enquiry \notin Registers /\ UserFrame \notin Registers /\ Enquiry # UserFrame
  BY RunAssumption DEF Commands, Registers, Enquiry, UserFrame
<1>1. ASSUME NEW c \in Commands, Len(cmdq) < QueueSize, cmdq' = Append(cmdq, c)
      PROVE  cmdq' \in Seq(Commands) /\ Len(cmdq') <= QueueSize
  <2>1. Len(cmdq') = Len(cmdq) + 1 /\ cmdq' \in Seq(Commands) /\ Len(cmdq) \in Nat
    BY <1>1 DEF QueuesOK
  <2> QED
    BY <1>0, <1>1, <2>1
<1>2. CASE Begin
  <2>1. CASE StartInventory
    <3>1. cmdq' \in Seq(Commands) /\ Len(cmdq') <= QueueSize
      BY <1>0, <1>1, <2>1 DEF StartInventory
    <3> QED
      BY <2>1, <3>1 DEF StartInventory, Begins, QueuesOK
  <2>2. CASE ScanAll
    BY <2>2 DEF ScanAll, Begins, QueuesOK
  <2>3. ASSUME NEW m \in ToSet(Modules), ScanOne(m) PROVE QueuesOK'
    BY <2>3 DEF ScanOne, Begins, QueuesOK
  <2> QED
    BY <1>2, <2>1, <2>2, <2>3 DEF Begin
<1>3. ASSUME NEW p \in Tasks, Chain(p) PROVE QueuesOK'
  <2>1. CASE Notify(p) \/ PauseOver(p) \/ Count(p) \/ ScanBegins(p) \/ ScanEnds(p) \/ Saved(p)
    BY <2>1 DEF Notify, PauseOver, Count, ScanBegins, ScanEnds, Saved, QueuesOK
  <2>2. CASE Notified(p) \/ CallbackRaises(p) \/ ScanFails(p)
    <3>1. /\ limit' = 0 /\ seen' = 0 /\ UNCHANGED <<cmdq, putting, wire, users>>
          /\ found' \in {found, {}} /\ report' \in {report, {}}
      BY <2>2 DEF Notified, CallbackRaises, ScanFails, Abort, ResetState
    <3> QED
      BY <3>1 DEF QueuesOK
  <2> QED
    BY <1>3, <2>1, <2>2 DEF Chain
<1>4. CASE TimerFires \/ ForeignFrame \/ WindowElapses \/ InventorySaved \/ CommandDone
           \/ UNCHANGED vars
  BY <1>4 DEF TimerFires, ForeignFrame, WindowElapses, InventorySaved, CommandDone, vars, QueuesOK
<1>5. CASE CancelScan \/ InventoryFails \/ CancelInventory
  <2>1. /\ limit' = 0 /\ seen' = 0 /\ UNCHANGED <<cmdq, putting, wire, users, found>>
        /\ report' \in {report, found}
    BY <1>5 DEF CancelScan, InventoryFails, CancelInventory, Abort, ResetState
  <2> QED
    BY <2>1 DEF QueuesOK
<1>6. CASE Send
  <2>1. /\ Head(cmdq) \in Commands /\ cmdq' \in Seq(Commands) /\ Len(cmdq') = Len(cmdq) - 1
        /\ Len(cmdq) \in Nat
    BY <1>6 DEF Send, QueuesOK
  <2>2. Len(cmdq') <= QueueSize
    BY <1>0, <2>1 DEF QueuesOK
  <2>3. CASE Head(cmdq) = UserFrame
    <3>1. users' = [users EXCEPT !.sent = @ + 1] /\ UNCHANGED wire
      BY <1>6, <2>3 DEF Send
    <3>2. users' \in [queued : Nat, sent : Nat]
      BY <3>1 DEF QueuesOK
    <3> QED
      BY <1>6, <2>1, <2>2, <3>1, <3>2 DEF Send, QueuesOK
  <2>4. CASE Head(cmdq) # UserFrame
    <3>1. users' = users /\ (wire' = wire \/ wire' = Append(wire, Head(cmdq)))
      BY <1>6, <2>4 DEF Send
    <3>2. Head(cmdq) \in Registers \cup {Enquiry}
      BY <2>1, <2>4 DEF Commands
    <3>3. wire' \in Seq(Registers \cup {Enquiry})
      <4> DEFINE h == Head(cmdq)
                 A == Registers \cup {Enquiry}
      <4>1. h \in A /\ (wire' = wire \/ wire' = Append(wire, h)) /\ wire \in Seq(A)
        BY <3>1, <3>2 DEF QueuesOK
      <4> HIDE DEF h, A
      <4>2. wire' \in Seq(A)
        BY <4>1
      <4> QED
        BY <4>2 DEF A
    <3> QED
      BY <1>6, <2>1, <2>2, <3>1, <3>3 DEF Send, QueuesOK
  <2> QED
    BY <2>3, <2>4
<1>7. CASE UserCommands
  <2>1. cmdq' \in Seq(Commands) /\ Len(cmdq') <= QueueSize
    BY <1>0, <1>1, <1>7 DEF UserCommands
  <2>2. users' \in [queued : Nat, sent : Nat]
    BY <1>7 DEF UserCommands, QueuesOK
  <2> QED
    BY <1>7, <2>1, <2>2 DEF UserCommands, QueuesOK
<1>8. CASE PutRead
  <2>1. Head(putting) \in Registers /\ Tail(putting) \in Seq(Registers)
    BY <1>8 DEF PutRead, QueuesOK
  <2>2. cmdq' \in Seq(Commands) /\ Len(cmdq') <= QueueSize
    BY <1>0, <1>1, <1>8, <2>1 DEF PutRead
  <2> QED
    BY <1>8, <2>1, <2>2 DEF PutRead, QueuesOK
<1>9. Sweep \in Seq(Registers)
  <2>1. \A i \in 1 .. (Records + Filler + 1) : i - 1 \in Registers
    BY <1>0 DEF Registers
  <2> QED
    BY <1>0, <2>1 DEF Sweep
<1>10. CASE HearAddress
  <2>1. wire' \in Seq(Registers \cup {Enquiry})
    BY <1>10 DEF HearAddress, QueuesOK
  <2>2. putting' = putting \/ putting' = putting \o Sweep
    BY <1>10 DEF HearAddress
  <2>3. putting' \in Seq(Registers)
    <3>1. putting \in Seq(Registers)
      BY DEF QueuesOK
    <3> QED
      BY <1>9, <2>2, <3>1, ConcatProperties
  <2> QED
    BY <1>10, <2>1, <2>3 DEF HearAddress, QueuesOK
<1>11. CASE Repeated
  <2>1. wire' \in Seq(Registers \cup {Enquiry})
    BY <1>11 DEF Repeated, QueuesOK
  <2> QED
    BY <1>11, <2>1 DEF Repeated, QueuesOK
<1>12. CASE HearStraggler
  <2>1. wire' \in Seq(Registers \cup {Enquiry})
    BY <1>12 DEF HearStraggler, QueuesOK
  <2> QED
    BY <1>12, <2>1 DEF HearStraggler, QueuesOK
<1>13. CASE HearRegister
  <2> DEFINE r == Head(wire)
  <2>1. wire' \in Seq(Registers \cup {Enquiry}) /\ r \in Registers
    BY <1>13 DEF HearRegister, QueuesOK
  <2>2. UNCHANGED <<putting, users, report>>
    BY <1>13 DEF HearRegister
  <2>3. CASE LastRecord(seen) \/ r > Records
    BY <1>13, <2>1, <2>2, <2>3 DEF HearRegister, QueuesOK
  <2>4. CASE ~(LastRecord(seen) \/ r > Records) /\ r = Header
    <3>1. limit' = Records /\ seen' = 0 /\ UNCHANGED <<found, cmdq>>
      BY <1>13, <2>4 DEF HearRegister
    <3> HIDE DEF r
    <3> QED
      BY <1>0, <2>1, <2>2, <3>1 DEF QueuesOK
  <2>5. CASE ~(LastRecord(seen) \/ r > Records) /\ r # Header
    <3>1. /\ seen' = seen + 1 /\ found' = found \cup {r} /\ UNCHANGED limit
          /\ cmdq' = cmdq \/ cmdq' = DrainReads(cmdq)
      BY <1>13, <2>5 DEF HearRegister
    <3>2. r \in 1 .. Records
      BY <1>0, <2>1, <2>5 DEF Header, Registers
    <3>3. cmdq' \in Seq(Commands) /\ Len(cmdq') <= QueueSize
      <4>1. CASE cmdq' = DrainReads(cmdq)
        <5>1. /\ Without(cmdq, Registers) \in Seq(Commands \ Registers)
              /\ Len(Without(cmdq, Registers)) <= Len(cmdq)
          BY WithoutFacts DEF QueuesOK
        <5>2. cmdq' \in Seq(Commands) /\ Len(cmdq') <= Len(cmdq) /\ Len(cmdq) \in Nat
              /\ Len(cmdq') \in Nat
          BY <4>1, <5>1 DEF DrainReads, QueuesOK
        <5> QED
          BY <1>0, <5>2 DEF QueuesOK
      <4> QED
        BY <3>1, <4>1 DEF QueuesOK
    <3> HIDE DEF r
    <3>4. found \subseteq 1 .. Records /\ seen \in Nat
      BY DEF QueuesOK
    <3>5. found' \subseteq 1 .. Records
      BY <3>1, <3>2, <3>4
    <3>6. seen' \in Nat
      BY <3>1, <3>4
    <3> QED
      BY <2>1, <2>2, <3>1, <3>3, <3>5, <3>6 DEF QueuesOK
  <2> QED
    BY <2>3, <2>4, <2>5
<1> QED
  BY <1>2, <1>3, <1>4, <1>5, <1>6, <1>7, <1>8, <1>10, <1>11, <1>12, <1>13
     DEF Next, System, Inventory

\* Draining the queue of reads leaves the user's commands in it.
LEMMA StepUsers ==
    ASSUME FlagsOK, QueuesOK, UsersOK, [Next]_vars
    PROVE  UsersOK'
<1> USE DEF flagVars, timerVars, sweepVars, busVars, histVars
<1>0. /\ Enquiry # UserFrame /\ UserFrame \notin Registers
      /\ Enquiry \in Commands /\ UserFrame \in Commands /\ Registers \subseteq Commands
      /\ users.queued \in Nat /\ users.sent \in Nat
  BY RunAssumption DEF Commands, Registers, Enquiry, UserFrame, QueuesOK
<1>1. ASSUME NEW c \in Commands, cmdq' = Append(cmdq, c)
      PROVE  /\ Times(UserFrame, cmdq) \in Nat
             /\ Times(UserFrame, cmdq') = Times(UserFrame, cmdq) + (IF c = UserFrame THEN 1 ELSE 0)
  BY <1>1, TimesAppend DEF QueuesOK
<1>2. CASE Send
  <2>1. /\ Times(UserFrame, cmdq') \in Nat
        /\ Times(UserFrame, cmdq)
             = Times(UserFrame, cmdq') + (IF Head(cmdq) = UserFrame THEN 1 ELSE 0)
    BY <1>2, TimesTail DEF Send, QueuesOK
  <2>2. CASE Head(cmdq) = UserFrame
    <3>1. users' = [users EXCEPT !.sent = @ + 1]
      BY <1>2, <2>2 DEF Send
    <3>2. users'.queued = users.queued /\ users'.sent = users.sent + 1
      BY <3>1 DEF QueuesOK
    <3> QED
      BY <1>0, <2>1, <2>2, <3>2 DEF UsersOK
  <2>3. CASE Head(cmdq) # UserFrame
    <3>1. users' = users
      BY <1>2, <2>3 DEF Send
    <3> QED
      BY <1>0, <2>1, <2>3, <3>1 DEF UsersOK
  <2> QED
    BY <2>2, <2>3
<1>3. CASE UserCommands
  <2>1. cmdq' = Append(cmdq, UserFrame) /\ users' = [users EXCEPT !.queued = @ + 1]
    BY <1>3 DEF UserCommands
  <2>2. users'.queued = users.queued + 1 /\ users'.sent = users.sent
    BY <2>1 DEF QueuesOK
  <2> QED
    BY <1>0, <1>1, <2>1, <2>2 DEF UsersOK
<1>4. CASE PutRead
  <2>1. Head(putting) \in Registers /\ cmdq' = Append(cmdq, Head(putting)) /\ users' = users
    BY <1>4 DEF PutRead, QueuesOK
  <2> QED
    BY <1>0, <1>1, <2>1 DEF UsersOK
<1>5. CASE StartInventory
  BY <1>0, <1>1, <1>5 DEF StartInventory, UsersOK
<1>6. CASE HearRegister
  <2>1. users' = users /\ (cmdq' = cmdq \/ cmdq' = Without(cmdq, Registers))
    BY <1>6 DEF HearRegister, DrainReads
  <2>2. Times(UserFrame, Without(cmdq, Registers)) = Times(UserFrame, cmdq)
    BY <1>0, WithoutFacts DEF QueuesOK
  <2> QED
    BY <2>1, <2>2 DEF UsersOK
<1>7. ASSUME UNCHANGED <<cmdq, users>> PROVE UsersOK'
  BY <1>7 DEF UsersOK
<1>8. ASSUME NEW m \in ToSet(Modules), ScanOne(m) PROVE UsersOK'
  BY <1>7, <1>8 DEF ScanOne
<1>9. CASE ScanAll
  BY <1>7, <1>9 DEF ScanAll
<1>10. ASSUME NEW p \in Tasks, Chain(p) PROVE UsersOK'
  BY <1>7, <1>10 DEF Chain, Notify, Notified, CallbackRaises, PauseOver, Count, ScanBegins,
     ScanEnds, Saved, ScanFails
<1>11. CASE \/ CommandDone \/ Repeated \/ HearAddress \/ HearStraggler \/ WindowElapses
            \/ InventorySaved \/ InventoryFails \/ TimerFires \/ ForeignFrame \/ CancelScan
            \/ CancelInventory \/ UNCHANGED vars
  BY <1>7, <1>11 DEF CommandDone, Repeated, HearAddress, HearStraggler, WindowElapses,
     InventorySaved, InventoryFails, TimerFires, ForeignFrame, CancelScan, CancelInventory, vars
<1> QED
  BY <1>2, <1>3, <1>4, <1>5, <1>6, <1>8, <1>9, <1>10, <1>11 DEF Next, Begin, System, Inventory

\* The initial state.
LEMMA InitData ==
    Init => KindsOK /\ LockOK /\ QueuesOK /\ UsersOK
<1> SUFFICES ASSUME Init PROVE KindsOK /\ LockOK /\ QueuesOK /\ UsersOK
  OBVIOUS
<1>0. /\ Records \in Nat \ {0} /\ QueueSize \in Nat \ {0} /\ MaxRuns \in Nat
      /\ None \notin Tasks
  BY RunAssumption DEF Tasks, None
<1>1. KindsOK
  <2>1. runs \in 0 .. MaxRuns
    BY <1>0 DEF Init
  <2> QED
    BY <2>1 DEF Init, KindsOK
<1>2. LockOK
  BY <1>0 DEF Init, LockOK, Idle
<1>3. QueuesOK
  <2>1. <<>> \in Seq(Commands) /\ Len(<<>>) = 0 /\ <<>> \in Seq(Registers)
        /\ <<>> \in Seq(Registers \cup {Enquiry})
    OBVIOUS
  <2> QED
    BY <1>0, <2>1 DEF Init, QueuesOK
<1>4. UsersOK
  BY TimesEmpty DEF Init, UsersOK
<1> QED
  BY <1>1, <1>2, <1>3, <1>4

-----------------------------------------------------------------------------
(* Queues as sequences: what filtering does to their ends.                 *)

\* Filtering goes by the item appended last.
LEMMA WithoutAppend ==
    ASSUME NEW S, NEW q \in Seq(S), NEW m \in S, NEW items
    PROVE  Without(Append(q, m), items)
             = IF m \in items THEN Without(q, items) ELSE Append(Without(q, items), m)
<1> DEFINE N == Len(q)
           s == Append(q, m)
<1>1. /\ N \in Nat /\ Len(s) = N + 1 /\ s[N + 1] = m /\ s \in Seq(S)
      /\ \A i \in 1 .. N : s[i] = q[i]
  OBVIOUS
<1>2. PICK f : /\ f = [i \in 0 .. N |->
                         IF i = 0 THEN <<>>
                         ELSE IF q[i] \in items THEN f[i - 1] ELSE Append(f[i - 1], q[i])]
               /\ Without(q, items) = f[N]
  BY <1>1, WithoutDef
<1>10. Len(s) \in Nat
  BY <1>1
<1> HIDE DEF s
<1>3. PICK g : /\ g = [i \in 0 .. Len(s) |->
                         IF i = 0 THEN <<>>
                         ELSE IF s[i] \in items THEN g[i - 1] ELSE Append(g[i - 1], s[i])]
               /\ Without(s, items) = g[Len(s)]
  BY <1>10, WithoutDef
<1>4. \A i \in 0 .. N : f[i] = IF i = 0 THEN <<>>
                        ELSE IF q[i] \in items THEN f[i - 1] ELSE Append(f[i - 1], q[i])
  BY <1>2
<1>5. \A i \in 0 .. (N + 1) : g[i] = IF i = 0 THEN <<>>
                              ELSE IF s[i] \in items THEN g[i - 1] ELSE Append(g[i - 1], s[i])
  BY <1>1, <1>3
<1> DEFINE T == {i \in 0 .. N : g[i] = f[i]}
<1>6. 0 \in T
  BY <1>1, <1>4, <1>5
<1>7. ASSUME NEW i \in 0 .. (N - 1), i \in T PROVE i + 1 \in T
  <2>1. /\ i + 1 \in 0 .. N /\ i + 1 \in 0 .. (N + 1) /\ i + 1 # 0 /\ (i + 1) - 1 = i
        /\ i + 1 \in 1 .. N
    BY <1>1
  <2>2. s[i + 1] = q[i + 1] /\ g[i] = f[i]
    BY <1>1, <1>7, <2>1
  <2>3. f[i + 1] = IF q[i + 1] \in items THEN f[i] ELSE Append(f[i], q[i + 1])
    BY <1>4, <2>1
  <2>4. g[i + 1] = IF s[i + 1] \in items THEN g[i] ELSE Append(g[i], s[i + 1])
    BY <1>5, <2>1
  <2> QED
    BY <2>1, <2>2, <2>3, <2>4
<1>8. g[N] = f[N]
  <2> HIDE DEF T
  <2>1. 0 .. N \subseteq T
    BY <1>1, <1>6, <1>7, Induct
  <2>2. N \in T
    BY <1>1, <2>1
  <2> QED
    BY <2>2 DEF T
<1>9. g[N + 1] = IF m \in items THEN g[N] ELSE Append(g[N], m)
  <2>1. N + 1 \in 0 .. (N + 1) /\ N + 1 # 0 /\ (N + 1) - 1 = N
    BY <1>1
  <2> QED
    BY <1>1, <1>5, <2>1
<1> QED
  BY <1>1, <1>2, <1>3, <1>8, <1>9 DEF s

\* Nothing is left of a queue of the items to go.
LEMMA WithoutNone ==
    ASSUME NEW items, NEW q \in Seq(items)
    PROVE  Without(q, items) = <<>>
<1>1. Without(q, items) \in Seq(items \ items)
  BY WithoutFacts
<1> QED
  BY <1>1

\* A queue of which nothing is left holds only the items to go.
LEMMA WithoutNothing ==
    ASSUME NEW S, NEW q \in Seq(S), NEW items, Without(q, items) = <<>>
    PROVE  q \in Seq(S \cap items)
<1>1. ASSUME NEW i \in 1 .. Len(q), q[i] \notin items PROVE FALSE
  <2> DEFINE x == q[i]
             P == {j \in DOMAIN q : q[j] = x}
  <2>1. Times(x, q) = 0
    <3>1. x \notin items
      BY <1>1
    <3> HIDE DEF x
    <3>2. Times(x, Without(q, items)) = Times(x, q)
      BY <3>1, WithoutFacts
    <3> QED
      BY <3>2, TimesEmpty
  <2>2. i \in P /\ P \subseteq 1 .. Len(q) /\ Len(q) \in Nat
    OBVIOUS
  <2>3. IsFiniteSet(P)
    <3>1. IsFiniteSet(1 .. Len(q))
      BY <2>2, FS_Interval
    <3> HIDE DEF P
    <3> QED
      BY <2>2, <3>1, FS_Subset
  <2>4. Cardinality(P) = 0
    BY <2>1, Zenon DEF Times
  <2> HIDE DEF P
  <2> QED
    BY <2>2, <2>3, <2>4, FS_EmptySet
<1>2. \A i \in 1 .. Len(q) : q[i] \in S \cap items
  BY <1>1
<1> QED
  BY <1>2

\* Filtering goes by the first item.
LEMMA WithoutTail ==
    ASSUME NEW S, NEW q \in Seq(S), q # <<>>, NEW items
    PROVE  Without(q, items)
             = (IF Head(q) \in items THEN <<>> ELSE <<Head(q)>>) \o Without(Tail(q), items)
<1> DEFINE t == Tail(q)
           N == Len(t)
           b == IF Head(q) \in items THEN <<>> ELSE <<Head(q)>>
<1>1. /\ N \in Nat /\ Len(q) = N + 1 /\ t \in Seq(S) /\ q[1] = Head(q) /\ Head(q) \in S
      /\ \A i \in 1 .. N : t[i] = q[i + 1] /\ t[i] \in S
  OBVIOUS
<1>9. Len(q) \in Nat
  OBVIOUS
<1>2. PICK f : /\ f = [i \in 0 .. Len(q) |->
                         IF i = 0 THEN <<>>
                         ELSE IF q[i] \in items THEN f[i - 1] ELSE Append(f[i - 1], q[i])]
               /\ Without(q, items) = f[Len(q)]
  BY <1>9, WithoutDef
<1> HIDE DEF t
<1>3. PICK g : /\ g = [i \in 0 .. N |->
                         IF i = 0 THEN <<>>
                         ELSE IF t[i] \in items THEN g[i - 1] ELSE Append(g[i - 1], t[i])]
               /\ Without(t, items) = g[N]
  BY <1>1, WithoutDef
<1>4. \A i \in 0 .. (N + 1) : f[i] = IF i = 0 THEN <<>>
                              ELSE IF q[i] \in items THEN f[i - 1] ELSE Append(f[i - 1], q[i])
  BY <1>1, <1>2
<1>5. \A i \in 0 .. N : g[i] = IF i = 0 THEN <<>>
                        ELSE IF t[i] \in items THEN g[i - 1] ELSE Append(g[i - 1], t[i])
  BY <1>3
<1> DEFINE T == {i \in 0 .. N : g[i] \in Seq(S) /\ f[i + 1] = b \o g[i]}
<1>0. b \in Seq(S)
  BY <1>1
<1>6. 0 \in T
  <2>1. f[0] = <<>> /\ g[0] = <<>>
    BY <1>1, <1>4, <1>5
  <2>2. f[0 + 1] = IF q[1] \in items THEN f[0] ELSE Append(f[0], q[1])
    BY <1>1, <1>4
  <2>3. f[0 + 1] = b
    BY <1>1, <2>1, <2>2
  <2>4. b \o <<>> = b /\ <<>> \in Seq(S)
    BY <1>0, ConcatEmptySeq
  <2> HIDE DEF b
  <2>5. g[0] \in Seq(S) /\ f[0 + 1] = b \o g[0] /\ 0 \in 0 .. N
    BY <1>1, <2>1, <2>3, <2>4
  <2> QED
    BY <2>5
<1>7. ASSUME NEW i \in 0 .. (N - 1), i \in T PROVE i + 1 \in T
  <2> DEFINE m == t[i + 1]
             h == g[i]
  <2>1. /\ i + 1 \in 0 .. N /\ i + 1 # 0 /\ (i + 1) - 1 = i /\ i + 1 \in 1 .. N
        /\ (i + 1) + 1 \in 0 .. (N + 1) /\ (i + 1) + 1 # 0 /\ ((i + 1) + 1) - 1 = i + 1
    BY <1>1
  <2>2. m = q[(i + 1) + 1] /\ m \in S /\ h \in Seq(S) /\ f[i + 1] = b \o h
    BY <1>1, <1>7, <2>1
  <2>3. g[i + 1] = IF m \in items THEN h ELSE Append(h, m)
    BY <1>5, <2>1
  <2>4. f[(i + 1) + 1] = IF m \in items THEN f[i + 1] ELSE Append(f[i + 1], m)
    BY <1>4, <2>1, <2>2
  <2> HIDE DEF m, h, b
  <2>5. Append(h, m) \in Seq(S) /\ Append(b \o h, m) = b \o Append(h, m)
    <3>1. b \in Seq(S) /\ h \in Seq(S) /\ m \in S
      BY <1>0, <2>2
    <3> HIDE DEF T, N
    <3> QED
      BY SMTT(30), <3>1, ConcatAppend
  <2> QED
    BY <2>1, <2>2, <2>3, <2>4, <2>5
<1>8. f[N + 1] = b \o g[N]
  <2> HIDE DEF T
  <2>1. 0 .. N \subseteq T
    BY <1>1, <1>6, <1>7, Induct
  <2>2. N \in T
    BY <1>1, <2>1
  <2> HIDE DEF b
  <2> QED
    BY <2>2 DEF T
<1> QED
  BY <1>1, <1>2, <1>3, <1>8 DEF t

-----------------------------------------------------------------------------
(* The sweep of the registry.                                              *)

\* What the sweep has yet to hear, in order: on the wire, behind the user's
\* commands in the queue, and still to be queued.
Pipeline(w, q, p) == (w \o Without(q, {UserFrame})) \o p

\* The registers from the k-th.
From(k) == [i \in 1 .. (Records + Filler + 1 - k) |-> k + i - 1]

\* A step of the bus moves the pipeline on and leaves what is in it.
LEMMA PipelineMoves ==
    ASSUME NEW A, UserFrame \notin A, NEW w \in Seq(A), NEW q \in Seq(A \cup {UserFrame}),
           NEW p \in Seq(A)
    PROVE  /\ q # <<>> /\ Head(q) # UserFrame =>
                Pipeline(Append(w, Head(q)), Tail(q), p) = Pipeline(w, q, p)
           /\ q # <<>> /\ Head(q) = UserFrame => Pipeline(w, Tail(q), p) = Pipeline(w, q, p)
           /\ p # <<>> => Pipeline(w, Append(q, Head(p)), Tail(p)) = Pipeline(w, q, p)
           /\ Pipeline(w, Append(q, UserFrame), p) = Pipeline(w, q, p)
           /\ w # <<>> => /\ Head(Pipeline(w, q, p)) = Head(w)
                          /\ Tail(Pipeline(w, q, p)) = Pipeline(Tail(w), q, p)
<1> DEFINE B == A \cup {UserFrame}
           U == {UserFrame}
<1>1. \A x \in Seq(B) : Without(x, U) \in Seq(A)
  <2>1. \A x \in Seq(B) : Without(x, U) \in Seq(B \ U)
    BY WithoutFacts
  <2>2. B \ U = A
    OBVIOUS
  <2> QED
    BY <2>1, <2>2
<1> DEFINE v == Without(q, U)
<1>2. v \in Seq(A)
  BY <1>1
<1>3. ASSUME q # <<>>
      PROVE  /\ Tail(q) \in Seq(B) /\ Without(Tail(q), U) \in Seq(A)
             /\ Head(q) # UserFrame => Head(q) \in A /\ v = <<Head(q)>> \o Without(Tail(q), U)
             /\ Head(q) = UserFrame => v = <<>> \o Without(Tail(q), U)
  <2>1. Head(q) \in B /\ Tail(q) \in Seq(B)
    BY <1>3
  <2> QED
    BY <1>1, <1>3, <2>1, WithoutTail
<1>4. ASSUME q # <<>>, Head(q) # UserFrame
      PROVE  Pipeline(Append(w, Head(q)), Tail(q), p) = Pipeline(w, q, p)
  <2> DEFINE h == Head(q)
             t == Without(Tail(q), U)
  <2>1. h \in A /\ t \in Seq(A) /\ v = <<h>> \o t
    BY <1>3, <1>4
  <2>2. Pipeline(Append(w, h), Tail(q), p) = (Append(w, h) \o t) \o p
        /\ Pipeline(w, q, p) = (w \o v) \o p
    BY DEF Pipeline
  <2> HIDE DEF h, t, v
  <2>3. <<h>> \in Seq(A) /\ Append(w, h) = w \o <<h>>
    BY <2>1, AppendIsConcat
  <2>4. (w \o <<h>>) \o t = w \o (<<h>> \o t)
    BY <2>1, <2>3, ConcatAssociative
  <2> QED
    BY <2>1, <2>2, <2>3, <2>4 DEF h
<1>5. ASSUME q # <<>>, Head(q) = UserFrame
      PROVE  Pipeline(w, Tail(q), p) = Pipeline(w, q, p)
  <2> DEFINE t == Without(Tail(q), U)
  <2>1. t \in Seq(A) /\ v = <<>> \o t
    BY <1>3, <1>5
  <2>2. v = t
    <3> HIDE DEF v, t
    <3> QED
      BY <2>1, ConcatEmptySeq
  <2> QED
    BY <2>2 DEF Pipeline
<1>6. ASSUME p # <<>>
      PROVE  Pipeline(w, Append(q, Head(p)), Tail(p)) = Pipeline(w, q, p)
  <2> DEFINE h == Head(p)
             t == Tail(p)
  <2>1. h \in A /\ t \in Seq(A) /\ p = <<h>> \o t
    BY <1>6
  <2>2. h \in B /\ h \notin U
    BY <2>1
  <2>3. Without(Append(q, h), U) = Append(v, h)
    <3> HIDE DEF h, B, U
    <3>1. q \in Seq(B)
      BY DEF B
    <3> QED
      BY <2>2, <3>1, WithoutAppend
  <2>4. Pipeline(w, Append(q, h), t) = (w \o Append(v, h)) \o t
        /\ Pipeline(w, q, p) = (w \o v) \o p
    BY <2>3 DEF Pipeline
  <2> HIDE DEF h, t, v
  <2>5. <<h>> \in Seq(A) /\ w \o v \in Seq(A)
    BY <1>2, <2>1, ConcatProperties
  <2>6. w \o Append(v, h) = (w \o v) \o <<h>>
    BY <1>2, <2>1, ConcatAppend
  <2>7. ((w \o v) \o <<h>>) \o t = (w \o v) \o (<<h>> \o t)
    BY <2>1, <2>5, ConcatAssociative
  <2> QED
    BY <2>1, <2>4, <2>5, <2>6, <2>7 DEF h, t
<1>7. Pipeline(w, Append(q, UserFrame), p) = Pipeline(w, q, p)
  <2>1. Without(Append(q, UserFrame), U) = v
    BY WithoutAppend
  <2> QED
    BY <2>1 DEF Pipeline
<1>8. ASSUME w # <<>>
      PROVE  /\ Head(Pipeline(w, q, p)) = Head(w)
             /\ Tail(Pipeline(w, q, p)) = Pipeline(Tail(w), q, p)
  <2>1. Pipeline(w, q, p) = (w \o v) \o p /\ Pipeline(Tail(w), q, p) = (Tail(w) \o v) \o p
    BY DEF Pipeline
  <2> HIDE DEF v
  <2> DEFINE u == v \o p
             t == Tail(w)
  <2>4. t \in Seq(A)
    BY <1>8
  <2>5. u \in Seq(A)
    BY <1>2, ConcatProperties
  <2>6. \A x \in Seq(A) : (x \o v) \o p = x \o u
    <3> SUFFICES ASSUME NEW x \in Seq(A) PROVE (x \o v) \o p = x \o (v \o p)
      OBVIOUS
    <3> QED
      BY <1>2, ConcatAssociative
  <2>2. u \in Seq(A) /\ t \in Seq(A) /\ (w \o v) \o p = w \o u /\ (t \o v) \o p = t \o u
    BY <2>4, <2>5, <2>6
  <2>3. Head(w \o u) = Head(w) /\ Tail(w \o u) = t \o u
    <3> HIDE DEF u
    <3>1. w \in Seq(A) /\ u \in Seq(A) /\ w # <<>> /\ Len(w) \in Nat /\ Len(w) >= 1
      BY <1>8, <2>2
    <3>2. Head(w \o u) = Head(w)
      BY <3>1
    <3>3. Tail(w \o u) \in Seq(A) /\ t \o u \in Seq(A) /\ Len(Tail(w \o u)) = Len(t \o u)
      BY <3>1
    <3>4. \A i \in 1 .. Len(t \o u) : Tail(w \o u)[i] = (t \o u)[i]
      BY <3>1
    <3> QED
      BY <3>2, <3>3, <3>4, SeqEqual
  <2> QED
    BY <2>1, <2>2, <2>3
<1> QED
  BY <1>4, <1>5, <1>6, <1>7, <1>8

\* The enquiry is queued or its answer is coming.
Asking ==
    /\ stage = "inventory_addresses" /\ ~known /\ ~asked
    /\ limit = 0 /\ seen = 0 /\ found = {} /\ putting = <<>>
    /\ \/ wire = <<>> /\ Without(cmdq, {UserFrame}) = <<Enquiry>>
       \/ wire = <<Enquiry>> /\ cmdq \in Seq({UserFrame})

\* Nothing but reads of the sweep and the user's commands is on its way.
OnlyReads == wire \in Seq(Registers) /\ cmdq \in Seq(Registers \cup {UserFrame})

\* The registers before the k-th were heard, the others are on their way.
Reading(k) ==
    /\ stage = "inventory_addresses" /\ OnlyReads
    /\ Pipeline(wire, cmdq, putting) = From(k)
    /\ IF k = Header THEN limit = 0 /\ seen = 0 /\ found = {}
       ELSE limit = Records /\ seen = k - 1 /\ found = 1 .. (k - 1)

\* Every record was heard.
Complete ==
    /\ OnlyReads
    /\ limit = Records /\ seen = Records /\ found = 1 .. Records

\* How far the sweep is.
Swept == Asking \/ (\E k \in 0 .. Records : Reading(k)) \/ Complete

\* The inventory that RegistryWhole speaks of.
Whole == kind = "inventory" /\ Undisturbed /\ ~hurried

\* The window closes, and the host is told, only after every record was heard.
WholeInv ==
    Whole => IF Told THEN report = 1 .. Records
             ELSE Swept /\ (task["inventory"].pc # "idle" => Complete)

\* What is counted.
CountsOK ==
    /\ lost \in Nat /\ users.queued <= Users
    /\ busy => users.sent > 0

\* The counts of frames lost and of the user's commands.
LEMMA StepCounts ==
    ASSUME FlagsOK, KindsOK, QueuesOK, CountsOK, [Next]_vars
    PROVE  CountsOK'
<1> USE DEF flagVars, timerVars, sweepVars, busVars, histVars
<1>0. users \in [queued : Nat, sent : Nat] /\ Users \in Nat
  BY RunAssumption DEF QueuesOK
<1>1. CASE Send
  <2>1. lost' \in Nat
    <3>1. lost' = lost \/ lost' = lost + 1
      BY <1>1 DEF Send
    <3> QED
      BY <3>1 DEF CountsOK
  <2>2. CASE Head(cmdq) = UserFrame
    <3>1. users' = [users EXCEPT !.sent = @ + 1]
      BY <1>1, <2>2 DEF Send
    <3>2. users'.queued = users.queued /\ users'.sent = users.sent + 1
      BY <1>0, <3>1
    <3> QED
      BY <1>0, <2>1, <3>2 DEF CountsOK
  <2>3. CASE Head(cmdq) # UserFrame
    <3>1. users' = users /\ busy' = busy
      BY <1>1, <2>3 DEF Send
    <3> QED
      BY <2>1, <3>1 DEF CountsOK
  <2> QED
    BY <2>2, <2>3
<1>2. CASE UserCommands
  <2>1. users.queued < Users /\ users' = [users EXCEPT !.queued = @ + 1] /\ UNCHANGED <<busy, lost>>
    BY <1>2 DEF UserCommands
  <2>2. users'.queued = users.queued + 1 /\ users'.sent = users.sent
    BY <1>0, <2>1
  <2>3. users'.queued <= Users
    BY <1>0, <2>1, <2>2
  <2> QED
    BY <2>1, <2>2, <2>3 DEF CountsOK
<1>3. CASE Repeated
  <2>1. lost' = lost + 1 /\ UNCHANGED <<users, busy>>
    BY <1>3 DEF Repeated
  <2> QED
    BY <2>1 DEF CountsOK
<1>4. CASE CommandDone
  BY <1>4 DEF CommandDone, CountsOK
<1>5. ASSUME UNCHANGED <<lost, users, busy>> PROVE CountsOK'
  BY <1>5 DEF CountsOK
<1>6. CASE Begin
  BY <1>5, <1>6 DEF Begin, ScanOne, ScanAll, StartInventory
<1>7. ASSUME NEW p \in Tasks, Chain(p) PROVE CountsOK'
  BY <1>5, <1>7 DEF Chain, Notify, Notified, CallbackRaises, PauseOver, Count, ScanBegins,
     ScanEnds, Saved, ScanFails
<1>8. CASE \/ PutRead \/ HearAddress \/ HearRegister \/ HearStraggler \/ WindowElapses
           \/ InventorySaved \/ InventoryFails \/ TimerFires \/ ForeignFrame \/ CancelScan
           \/ CancelInventory \/ UNCHANGED vars
  BY <1>5, <1>8 DEF PutRead, HearAddress, HearRegister, HearStraggler, WindowElapses,
     InventorySaved, InventoryFails, TimerFires, ForeignFrame, CancelScan, CancelInventory, vars
<1> QED
  BY <1>1, <1>2, <1>3, <1>4, <1>6, <1>7, <1>8 DEF Next, System, Inventory

\* A run that is undisturbed was so before, but for its beginning.
LEMMA WholeBefore ==
    ASSUME FlagsOK, KindsOK, CountsOK, [Next]_vars, ~Begin, Whole'
    PROVE  Whole
<1> USE DEF flagVars, timerVars, sweepVars, busVars, histVars
<1>1. ASSUME UNCHANGED <<kind, raised, spoilt, crossed, lost, hurried>> PROVE Whole
  BY <1>1 DEF Whole, Undisturbed
<1>2. CASE Send
  <2>1. /\ UNCHANGED <<kind, raised, spoilt, crossed, hurried>>
        /\ lost' = lost \/ lost' = lost + 1
    BY <1>2 DEF Send
  <2>2. lost' = 0 => lost = 0
    BY <2>1 DEF CountsOK
  <2> QED
    BY <2>1, <2>2 DEF Whole, Undisturbed
<1>3. CASE Repeated
  <2>1. lost' = lost + 1
    BY <1>3 DEF Repeated
  <2> QED
    BY <2>1 DEF CountsOK, Whole, Undisturbed
<1>4. CASE WindowElapses
  <2>1. /\ UNCHANGED <<kind, raised, spoilt, crossed, lost>>
        /\ hurried' = hurried \/ hurried' = (hurried \/ \E i \in DOMAIN cmdq : cmdq[i] = Enquiry)
    BY <1>4 DEF WindowElapses
  <2>2. ~hurried' => ~hurried
    BY <2>1 DEF KindsOK
  <2> QED
    BY <2>1, <2>2 DEF Whole, Undisturbed
<1>5. CASE HearAddress
  <2>1. UNCHANGED <<kind, raised, spoilt, lost, hurried>>
        /\ crossed' = (crossed \/ query # "pc_link")
    BY <1>5 DEF HearAddress
  <2> QED
    BY <2>1 DEF Whole, Undisturbed
<1>6. CASE HearStraggler \/ ForeignFrame \/ CancelInventory
  BY <1>6 DEF HearStraggler, ForeignFrame, CancelInventory, Whole, Undisturbed
<1>7. ASSUME NEW p \in Tasks, Abort(p), UNCHANGED <<kind, spoilt, crossed, lost, hurried>>
      PROVE  Whole
  <2>1. ~raised' => ~raised
    BY <1>7 DEF Abort, FlagsOK
  <2> QED
    BY <1>7, <2>1 DEF Whole, Undisturbed
<1>8. CASE CancelScan
  <2>1. "host" \in Tasks
    BY DEF Tasks
  <2> QED
    BY <1>7, <1>8, <2>1 DEF CancelScan
<1>9. ASSUME NEW p \in Tasks, Chain(p) PROVE Whole
  <2>1. CASE ScanFails(p)
    BY <1>7, <2>1 DEF ScanFails
  <2>2. CASE CallbackRaises(p)
    BY <2>2 DEF CallbackRaises, Whole, Undisturbed
  <2>3. CASE Count(p)
    <3>1. UNCHANGED <<kind, raised, spoilt, lost, hurried>> /\ (crossed' = TRUE \/ crossed' = crossed)
      BY <2>3 DEF Count
    <3> QED
      BY <3>1 DEF Whole, Undisturbed
  <2>4. CASE Notify(p) \/ Notified(p) \/ PauseOver(p) \/ ScanBegins(p) \/ ScanEnds(p) \/ Saved(p)
    BY <1>1, <2>4 DEF Notify, Notified, PauseOver, ScanBegins, ScanEnds, Saved
  <2> QED
    BY <1>9, <2>1, <2>2, <2>3, <2>4 DEF Chain
<1>10. CASE \/ CommandDone \/ PutRead \/ UserCommands \/ HearRegister \/ InventorySaved
            \/ InventoryFails \/ TimerFires \/ UNCHANGED vars
  BY <1>1, <1>10 DEF CommandDone, PutRead, UserCommands, HearRegister, InventorySaved,
     InventoryFails, TimerFires, vars
<1> QED
  BY <1>2, <1>3, <1>4, <1>5, <1>6, <1>8, <1>9, <1>10 DEF Next, System, Inventory

\* The kinds of commands are apart.
LEMMA CommandKinds ==
    /\ Records \in Nat /\ Records > 0 /\ Filler \in Nat /\ QueueSize \in Nat /\ QueueSize > 0
    /\ Enquiry \notin Registers /\ UserFrame \notin Registers /\ Enquiry # UserFrame
    /\ 0 .. Records \subseteq Registers
BY RunAssumption DEF Registers, Enquiry, UserFrame

\* The sweep from a register on: that register, and the sweep from the next.
LEMMA SweepFrom ==
    /\ From(0) = Sweep
    /\ \A k \in 0 .. Records : /\ From(k) \in Seq(Registers) /\ From(k) # <<>>
                               /\ Head(From(k)) = k /\ Tail(From(k)) = From(k + 1)
<1>1. Records \in Nat /\ Filler \in Nat
  BY CommandKinds
<1>2. From(0) = Sweep
  <2>1. \A i \in 1 .. (Records + Filler + 1) : 0 + i - 1 = i - 1
    BY <1>1
  <2>2. Records + Filler + 1 - 0 = Records + Filler + 1
    BY <1>1
  <2> QED
    BY <2>1, <2>2 DEF From, Sweep
<1>3. ASSUME NEW k \in 0 .. Records
      PROVE  /\ From(k) \in Seq(Registers) /\ From(k) # <<>>
             /\ Head(From(k)) = k /\ Tail(From(k)) = From(k + 1)
  <2> DEFINE n == Records + Filler + 1 - k
             s == From(k)
             t == From(k + 1)
  <2>1. n \in Nat /\ n >= 1 /\ n - 1 \in Nat
    BY <1>1
  <2>2. \A i \in 1 .. n : k + i - 1 \in Registers
    BY <1>1, <2>1 DEF Registers
  <2>3. s \in Seq(Registers) /\ Len(s) = n /\ \A i \in 1 .. n : s[i] = k + i - 1
    BY <2>1, <2>2 DEF From
  <2>4. Records + Filler + 1 - (k + 1) = n - 1
    BY <1>1
  <2>5. \A i \in 1 .. (n - 1) : (k + 1) + i - 1 \in Registers
    BY <1>1, <2>1 DEF Registers
  <2>6. t \in Seq(Registers) /\ Len(t) = n - 1 /\ \A i \in 1 .. (n - 1) : t[i] = (k + 1) + i - 1
    BY <2>1, <2>4, <2>5 DEF From
  <2> HIDE DEF s, t, n
  <2>7. s # <<>> /\ Head(s) = k
    BY <2>1, <2>3
  <2>8. /\ Tail(s) \in Seq(Registers) /\ Len(Tail(s)) = n - 1
        /\ \A i \in 1 .. (n - 1) : Tail(s)[i] = s[i + 1]
    BY <2>1, <2>3, <2>7
  <2>9. \A i \in 1 .. (n - 1) : Tail(s)[i] = t[i]
    BY <2>1, <2>3, <2>6, <2>8
  <2>10. Tail(s) = t
    BY <2>1, <2>6, <2>8, <2>9, SeqEqual
  <2> QED
    BY <2>3, <2>7, <2>10 DEF s, t
<1> QED
  BY <1>2, <1>3

\* A worker that loses nothing puts the next read on the wire.
LEMMA SendKeepsReads ==
    ASSUME QueuesOK, OnlyReads, Send, lost' = lost, lost \in Nat
    PROVE  /\ OnlyReads' /\ Pipeline(wire, cmdq, putting)' = Pipeline(wire, cmdq, putting)
<1> DEFINE h == Head(cmdq)
<1>1. /\ cmdq # <<>> /\ cmdq' = Tail(cmdq) /\ h \in Registers \cup {UserFrame}
      /\ cmdq' \in Seq(Registers \cup {UserFrame}) /\ UNCHANGED putting
  <2>1. cmdq # <<>> /\ cmdq' = Tail(cmdq) /\ UNCHANGED putting
    BY DEF Send, busVars
  <2> DEFINE S == Registers \cup {UserFrame}
  <2>2. cmdq \in Seq(S)
    BY DEF OnlyReads
  <2> HIDE DEF S
  <2>3. Head(cmdq) \in S /\ Tail(cmdq) \in Seq(S)
    BY <2>1, <2>2
  <2> QED
    BY <2>1, <2>3 DEF S
<1>2. CASE h = UserFrame
  <2>1. UNCHANGED wire
    BY <1>2 DEF Send
  <2>2. OnlyReads'
    BY <1>1, <2>1 DEF OnlyReads
  <2>3. Pipeline(wire, Tail(cmdq), putting) = Pipeline(wire, cmdq, putting)
    BY SMTT(30), <1>1, <1>2, CommandKinds, PipelineMoves DEF OnlyReads, QueuesOK
  <2> QED
    BY <1>1, <2>1, <2>2, <2>3
<1>3. CASE h # UserFrame
  <2>1. wire' = Append(wire, h)
    <3>1. (wire' = Append(wire, h) /\ UNCHANGED lost) \/ lost' = lost + 1
      BY <1>3 DEF Send
    <3> QED
      BY <3>1
  <2>2. OnlyReads'
    <3>1. h \in Registers /\ wire \in Seq(Registers)
      BY <1>1, <1>3 DEF OnlyReads
    <3> HIDE DEF h
    <3>2. wire' \in Seq(Registers)
      BY <2>1, <3>1
    <3> QED
      BY <1>1, <3>2 DEF OnlyReads
  <2>3. Pipeline(Append(wire, h), Tail(cmdq), putting) = Pipeline(wire, cmdq, putting)
    BY <1>1, <1>3, CommandKinds, PipelineMoves DEF OnlyReads, QueuesOK
  <2> QED
    BY <1>1, <2>1, <2>2, <2>3
<1> QED
  BY <1>2, <1>3

\* The identity task puts the next read in the queue.
LEMMA PutKeepsReads ==
    ASSUME QueuesOK, OnlyReads, PutRead
    PROVE  /\ OnlyReads' /\ Pipeline(wire, cmdq, putting)' = Pipeline(wire, cmdq, putting)
<1> DEFINE S == Registers \cup {UserFrame}
<1>1. /\ putting # <<>> /\ cmdq' = Append(cmdq, Head(putting)) /\ putting' = Tail(putting)
      /\ UNCHANGED wire
  BY DEF PutRead
<1>2. Head(putting) \in S /\ cmdq \in Seq(S) /\ wire \in Seq(Registers)
  BY <1>1 DEF OnlyReads, QueuesOK
<1>3. cmdq' \in Seq(S)
  <2> HIDE DEF S
  <2> QED
    BY <1>1, <1>2
<1>5. putting \in Seq(Registers) /\ UserFrame \notin Registers
  BY CommandKinds DEF QueuesOK
<1>4. Pipeline(wire, Append(cmdq, Head(putting)), Tail(putting)) = Pipeline(wire, cmdq, putting)
  <2>1. putting # <<>> =>
          Pipeline(wire, Append(cmdq, Head(putting)), Tail(putting)) = Pipeline(wire, cmdq, putting)
    BY <1>2, <1>5, PipelineMoves
  <2> QED
    BY <1>1, <2>1
<1> QED
  BY <1>1, <1>2, <1>3, <1>4 DEF OnlyReads

\* The user's command goes behind the reads.
LEMMA UserKeepsReads ==
    ASSUME QueuesOK, OnlyReads, UserCommands
    PROVE  /\ OnlyReads' /\ Pipeline(wire, cmdq, putting)' = Pipeline(wire, cmdq, putting)
<1> DEFINE S == Registers \cup {UserFrame}
<1>1. cmdq' = Append(cmdq, UserFrame) /\ UNCHANGED <<wire, putting>>
  BY DEF UserCommands, busVars
<1>2. UserFrame \in S /\ cmdq \in Seq(S) /\ wire \in Seq(Registers)
  BY DEF OnlyReads
<1>3. cmdq' \in Seq(S)
  <2> HIDE DEF S
  <2> QED
    BY <1>1, <1>2
<1>4. Pipeline(wire, Append(cmdq, UserFrame), putting) = Pipeline(wire, cmdq, putting)
  BY CommandKinds, PipelineMoves DEF OnlyReads, QueuesOK
<1> QED
  BY <1>1, <1>2, <1>3, <1>4 DEF OnlyReads

\* The gateway has yet to answer: only its answer moves the inventory on.
LEMMA AskingMoves ==
    ASSUME QueuesOK, Asking, BusStep, lost' = lost, lost \in Nat
    PROVE  Asking' \/ Reading(0)'
<1> USE DEF flagVars, timerVars, sweepVars, busVars, histVars
<1> DEFINE U == {UserFrame}
<1>0. /\ UserFrame \in Commands /\ Enquiry \in Commands /\ cmdq \in Seq(Commands)
      /\ Enquiry \notin U
  BY CommandKinds DEF Commands, QueuesOK
<1>1. CASE Send
  <2> DEFINE h == Head(cmdq)
  <2>1. /\ UNCHANGED <<stage, known, asked, limit, seen, found, putting>>
        /\ cmdq # <<>> /\ cmdq' = Tail(cmdq)
    BY <1>1 DEF Send
  <2>2. /\ h \in Commands /\ cmdq' \in Seq(Commands)
        /\ Without(cmdq, U) = (IF h \in U THEN <<>> ELSE <<h>>) \o Without(cmdq', U)
        /\ Without(cmdq', U) \in Seq(Commands \ U)
    <3>1. h \in Commands /\ Tail(cmdq) \in Seq(Commands)
      BY <1>0, <2>1
    <3>2. Without(cmdq, U) = (IF h \in U THEN <<>> ELSE <<h>>) \o Without(Tail(cmdq), U)
      BY <1>0, <2>1, WithoutTail
    <3> QED
      BY <2>1, <3>1, <3>2, WithoutFacts
  <2>3. CASE h = UserFrame
    <3>1. UNCHANGED wire
      BY <1>1, <2>3 DEF Send
    <3>2. Without(cmdq, U) = Without(cmdq', U)
      <4> DEFINE v == Without(cmdq', U)
      <4>1. v \in Seq(Commands \ U) /\ Without(cmdq, U) = <<>> \o v
        BY <2>2, <2>3
      <4> HIDE DEF v
      <4>2. Without(cmdq, U) = v
        BY <4>1, ConcatEmptySeq
      <4> QED
        BY <4>2 DEF v
    <3>3. cmdq \in Seq(U) => cmdq' \in Seq(U)
      BY <2>1
    <3> QED
      BY <2>1, <3>1, <3>2, <3>3 DEF Asking
  <2>4. CASE h # UserFrame
    <3>1. wire' = Append(wire, h)
      <4>1. (wire' = Append(wire, h) /\ UNCHANGED lost) \/ lost' = lost + 1
        BY <1>1, <2>4 DEF Send
      <4> QED
        BY <4>1
    <3>2. ~(cmdq \in Seq(U))
      BY <2>1, <2>4
    <3>3. wire = <<>> /\ Without(cmdq, U) = <<Enquiry>>
      BY <3>2 DEF Asking
    <3>4. h = Enquiry /\ Without(cmdq', U) = <<>>
      <4> DEFINE v == Without(cmdq', U)
      <4>1. v \in Seq(Commands \ U) /\ <<h>> \o v = <<Enquiry>> /\ <<h>> \in Seq(Commands)
        <5>1. v \in Seq(Commands \ U) /\ h \in Commands /\ h \notin U
          BY <2>2, <2>4
        <5>2. Without(cmdq, U) = <<h>> \o v
          BY <2>2, <5>1
        <5> HIDE DEF v, h
        <5>3. <<h>> \o v = <<Enquiry>>
          BY <3>3, <5>2, Zenon
        <5>4. <<h>> \in Seq(Commands)
          BY <5>1
        <5> QED
          BY <5>1, <5>3, <5>4
      <4> HIDE DEF v, h
      <4>2. (<<h>> \o v)[1] = h /\ Len(<<h>> \o v) = 1 + Len(v) /\ Len(v) \in Nat
        BY <4>1
      <4>3. h = Enquiry /\ Len(v) = 0
        <5> DEFINE c == <<h>> \o v
        <5>1. c = <<Enquiry>> /\ c[1] = h /\ Len(c) = 1 + Len(v)
          BY <4>1, <4>2
        <5> HIDE DEF c
        <5>2. c[1] = Enquiry /\ Len(c) = 1
          BY <5>1
        <5> QED
          BY <4>2, <5>1, <5>2
      <4>4. v = <<>>
        BY <4>1, <4>3
      <4> QED
        BY <4>3, <4>4 DEF v
    <3>5. cmdq' \in Seq(U)
      <4>1. cmdq' \in Seq(Commands \cap U)
        BY <2>2, <3>4, WithoutNothing
      <4>2. Commands \cap U = U
        BY <1>0
      <4> QED
        BY <4>1, <4>2
    <3>6. wire' = <<Enquiry>>
      <4> HIDE DEF h
      <4> QED
        BY <3>1, <3>3, <3>4
    <3> QED
      BY <2>1, <3>5, <3>6 DEF Asking
  <2> QED
    BY <2>3, <2>4
<1>2. CASE UserCommands
  <2>1. /\ cmdq' = Append(cmdq, UserFrame)
        /\ UNCHANGED <<stage, known, asked, limit, seen, found, putting, wire>>
    BY <1>2 DEF UserCommands
  <2>2. Without(cmdq', U) = Without(cmdq, U)
    BY <1>0, <2>1, WithoutAppend
  <2>3. cmdq \in Seq(U) => cmdq' \in Seq(U)
    BY <2>1
  <2> QED
    BY <2>1, <2>2, <2>3 DEF Asking
<1>3. CASE HearAddress
  <2>1. wire = <<Enquiry>> /\ cmdq \in Seq(U)
    BY <1>3 DEF HearAddress, Asking
  <2>2. /\ wire' = <<>> /\ putting' = putting \o Sweep
        /\ UNCHANGED <<stage, cmdq, limit, seen, found>>
    BY <1>3, <2>1 DEF HearAddress, Asking, NewAddress
  <2>3. putting' = Sweep /\ Sweep \in Seq(Registers)
    <3>1. Sweep \in Seq(Registers)
      BY SweepFrom, CommandKinds
    <3>2. <<>> \o Sweep = Sweep
      BY <3>1, ConcatEmptySeq
    <3> QED
      BY <2>2, <3>1, <3>2 DEF Asking
  <2>4. Pipeline(<<>>, cmdq, Sweep) = Sweep
    <3>1. Without(cmdq, U) = <<>>
      BY <2>1, WithoutNone
    <3>2. <<>> \o <<>> = <<>>
      OBVIOUS
    <3>3. <<>> \o Sweep = Sweep
      BY <2>3, ConcatEmptySeq
    <3> QED
      BY <3>1, <3>2, <3>3 DEF Pipeline
  <2>5. OnlyReads'
    <3>1. cmdq \in Seq(Registers \cup U)
      BY <2>1, SeqMonotonic
    <3>2. wire' \in Seq(Registers)
      BY <2>2
    <3> QED
      BY <2>2, <3>1, <3>2 DEF OnlyReads
  <2> QED
    BY <2>2, <2>3, <2>4, <2>5, SweepFrom DEF Reading, Asking, Header
<1>4. CASE CommandDone
  BY <1>4 DEF CommandDone, Asking
<1>5. CASE PutRead \/ HearRegister
  BY <1>5, CommandKinds DEF PutRead, HearRegister, Asking
<1>6. CASE Repeated
  BY <1>6 DEF Repeated
<1> QED
  BY <1>1, <1>2, <1>3, <1>4, <1>5, <1>6 DEF BusStep

\* The next answer is the next register's.
LEMMA ReadingMoves ==
    ASSUME QueuesOK, NEW k \in 0 .. Records, Reading(k), BusStep, lost' = lost, lost \in Nat
    PROVE  Swept'
<1> USE DEF flagVars, timerVars, sweepVars, busVars, histVars
<1>0. OnlyReads /\ Records \in Nat /\ Records > 0
  BY CommandKinds DEF Reading
<1>1. ASSUME UNCHANGED <<stage, limit, seen, found>>, OnlyReads',
             Pipeline(wire, cmdq, putting)' = Pipeline(wire, cmdq, putting)
      PROVE  Swept'
  <2>1. Reading(k)'
    BY <1>1 DEF Reading
  <2> QED
    BY <2>1 DEF Swept
<1>2. CASE Send
  <2>1. UNCHANGED <<stage, limit, seen, found>>
    BY <1>2 DEF Send
  <2> QED
    BY <1>0, <1>1, <1>2, <2>1, SendKeepsReads
<1>3. CASE PutRead
  <2>1. UNCHANGED <<stage, limit, seen, found>>
    BY <1>3 DEF PutRead
  <2> QED
    BY <1>0, <1>1, <1>3, <2>1, PutKeepsReads
<1>4. CASE UserCommands
  <2>1. UNCHANGED <<stage, limit, seen, found>>
    BY <1>4 DEF UserCommands
  <2> QED
    BY <1>0, <1>1, <1>4, <2>1, UserKeepsReads
<1>5. CASE CommandDone
  BY <1>0, <1>1, <1>5 DEF CommandDone, OnlyReads
<1>6. CASE HearAddress
  <2>1. wire # <<>> /\ Head(wire) = Enquiry /\ wire \in Seq(Registers)
    BY <1>0, <1>6 DEF HearAddress, OnlyReads
  <2>2. Head(wire) \in Registers
    BY <2>1
  <2> QED
    BY <2>1, <2>2, CommandKinds
<1>7. CASE HearRegister
  <2> DEFINE r == Head(wire)
             P == Pipeline(wire, cmdq, putting)
  <2>1. /\ wire # <<>> /\ wire' = Tail(wire) /\ UNCHANGED <<stage, putting>>
        /\ wire \in Seq(Registers) /\ cmdq \in Seq(Registers \cup {UserFrame})
        /\ putting \in Seq(Registers)
    BY <1>0, <1>7 DEF HearRegister, OnlyReads, QueuesOK
  <2>2. Head(P) = r /\ Tail(P) = Pipeline(Tail(wire), cmdq, putting)
    BY <2>1, CommandKinds, PipelineMoves
  <2>3. r = k /\ Pipeline(wire', cmdq, putting) = From(k + 1)
    BY <2>1, <2>2, SweepFrom DEF Reading
  <2>4. wire' \in Seq(Registers)
    BY <2>1
  <2>5. /\ k \in Nat /\ k <= Records /\ k + 1 \in Nat /\ (k + 1) - 1 = k
        /\ k # 0 => k - 1 < Records
    BY <1>0
  <2>6. ~(LastRecord(seen) \/ r > Records)
    <3>1. CASE k = 0
      BY <2>3, <2>5, <1>0, <3>1 DEF Reading, LastRecord, Header
    <3>2. CASE k # 0
      BY <2>3, <2>5, <1>0, <3>2 DEF Reading, LastRecord, Header
    <3> QED
      BY <3>1, <3>2
  <2>7. CASE k = 0
    <3>1. limit' = Records /\ seen' = 0 /\ UNCHANGED <<found, cmdq>>
      BY <1>7, <2>3, <2>6, <2>7 DEF HearRegister, Header
    <3>2. found' = 1 .. 0
      BY <2>7, <3>1 DEF Reading, Header
    <3>3. OnlyReads'
      BY <2>1, <2>4, <3>1 DEF OnlyReads
    <3>4. Reading(1)'
      BY <2>1, <2>3, <2>7, <3>1, <3>2, <3>3 DEF Reading, Header
    <3>5. 1 \in 0 .. Records
      BY <1>0
    <3> QED
      BY <3>4, <3>5 DEF Swept
  <2>8. CASE k # 0
    <3>1. limit = Records /\ seen = k - 1 /\ found = 1 .. (k - 1)
      BY <2>8 DEF Reading, Header
    <3>2. /\ seen' = seen + 1 /\ found' = found \cup {k} /\ limit' = limit
          /\ cmdq' = IF LastRecord(seen + 1) THEN DrainReads(cmdq) ELSE cmdq
      BY <1>7, <2>3, <2>6, <2>8 DEF HearRegister, Header
    <3>3. seen' = k /\ found' = 1 .. k /\ limit' = Records
      <4>1. seen' = k /\ limit' = Records
        BY <2>5, <3>1, <3>2
      <4>2. 1 .. k = (1 .. (k - 1)) \cup {k}
        BY <2>5, <2>8
      <4> QED
        BY <3>1, <3>2, <4>1, <4>2
    <3>4. LastRecord(seen + 1) <=> k = Records
      BY <1>0, <2>5, <3>1 DEF LastRecord
    <3>5. CASE k = Records
      <4>1. cmdq' = Without(cmdq, Registers)
        BY <3>2, <3>4, <3>5 DEF DrainReads
      <4> DEFINE S == Registers \cup {UserFrame}
      <4>2. Without(cmdq, Registers) \in Seq(S \ Registers)
        BY <2>1, WithoutFacts
      <4>3. cmdq' \in Seq(S)
        BY <4>1, <4>2, SeqMonotonic
      <4>4. Complete'
        BY <2>4, <3>3, <3>5, <4>3 DEF Complete, OnlyReads
      <4> QED
        BY <4>4 DEF Swept
    <3>6. CASE k # Records
      <4>1. cmdq' = cmdq
        BY <3>2, <3>4, <3>6
      <4>2. OnlyReads'
        BY <2>1, <2>4, <4>1 DEF OnlyReads
      <4>3. Reading(k + 1)'
        BY <2>1, <2>3, <2>5, <3>3, <4>1, <4>2 DEF Reading, Header
      <4>4. k + 1 \in 0 .. Records
        BY <1>0, <2>5, <3>6
      <4> QED
        BY <4>3, <4>4 DEF Swept
    <3> QED
      BY <3>5, <3>6
  <2> QED
    BY <2>7, <2>8
<1>8. CASE Repeated
  BY <1>8 DEF Repeated
<1> QED
  BY <1>2, <1>3, <1>4, <1>5, <1>6, <1>7, <1>8 DEF BusStep

\* What is heard after the last record changes nothing.
LEMMA CompleteMoves ==
    ASSUME QueuesOK, Complete, BusStep, lost' = lost, lost \in Nat
    PROVE  Complete'
<1> USE DEF flagVars, timerVars, sweepVars, busVars, histVars
<1>0. OnlyReads /\ Records \in Nat /\ Records > 0
  BY CommandKinds DEF Complete
<1>1. ASSUME UNCHANGED <<limit, seen, found>>, OnlyReads' PROVE Complete'
  BY <1>1 DEF Complete
<1>2. CASE Send
  <2>1. UNCHANGED <<limit, seen, found>>
    BY <1>2 DEF Send
  <2> QED
    BY <1>0, <1>1, <1>2, <2>1, SendKeepsReads
<1>3. CASE PutRead
  <2>1. UNCHANGED <<limit, seen, found>>
    BY <1>3 DEF PutRead
  <2> QED
    BY <1>0, <1>1, <1>3, <2>1, PutKeepsReads
<1>4. CASE UserCommands
  <2>1. UNCHANGED <<limit, seen, found>>
    BY <1>4 DEF UserCommands
  <2> QED
    BY <1>0, <1>1, <1>4, <2>1, UserKeepsReads
<1>5. CASE CommandDone
  BY <1>0, <1>1, <1>5 DEF CommandDone, OnlyReads
<1>6. CASE HearAddress
  <2>1. wire # <<>> /\ Head(wire) = Enquiry /\ wire \in Seq(Registers)
    BY <1>0, <1>6 DEF HearAddress, OnlyReads
  <2>2. Head(wire) \in Registers
    BY <2>1
  <2> QED
    BY <2>1, <2>2, CommandKinds
<1>7. CASE HearRegister
  <2>1. LastRecord(seen)
    BY <1>0 DEF Complete, LastRecord
  <2>2. wire # <<>> /\ wire' = Tail(wire) /\ UNCHANGED <<limit, seen, found, cmdq>>
    BY <1>7, <2>1 DEF HearRegister
  <2>3. wire' \in Seq(Registers)
    BY <1>0, <2>2 DEF OnlyReads
  <2> QED
    BY <1>0, <1>1, <2>2, <2>3 DEF OnlyReads
<1>8. CASE Repeated
  BY <1>8 DEF Repeated
<1> QED
  BY <1>2, <1>3, <1>4, <1>5, <1>6, <1>7, <1>8 DEF BusStep

\* When the user leaves the queue room, its window closes on a sweep that is
\* through, or on an enquiry that never went out.
LEMMA WindowClosesLate ==
    ASSUME QueuesOK, UsersOK, CountsOK, Users <= QueueSize,
           Swept, WindowElapses, task'["inventory"].pc # "idle", ~hurried'
    PROVE  Complete
<1> DEFINE U == {UserFrame}
<1>1. /\ wire = <<>> /\ task["inventory"].pc = "idle"
      /\ putting = <<>> \/ Len(cmdq) = QueueSize
      /\ cmdq = <<>> \/ busy
      /\ ~(InInventory /\ ReadsQueued)
      /\ ~\E i \in DOMAIN cmdq : cmdq[i] = Enquiry
  BY DEF WindowElapses
<1>2. ~Asking
  <2> SUFFICES ASSUME Asking PROVE FALSE
    OBVIOUS
  <2>1. Without(cmdq, U) = <<Enquiry>>
    BY <1>1 DEF Asking
  <2>2. Times(Enquiry, Without(cmdq, U)) = Times(Enquiry, cmdq)
    BY WithoutFacts, CommandKinds DEF QueuesOK
  <2>3. Times(Enquiry, cmdq) = 0
    <3>1. {i \in DOMAIN cmdq : cmdq[i] = Enquiry} = {}
      BY <1>1
    <3> QED
      BY <3>1, FS_EmptySet DEF Times
  <2>4. Times(Enquiry, <<Enquiry>>) = 1
    <3>1. <<>> \in Seq({Enquiry}) /\ Append(<<>>, Enquiry) = <<Enquiry>>
      OBVIOUS
    <3>2. Times(Enquiry, Append(<<>>, Enquiry)) = Times(Enquiry, <<>>) + 1
      <4> DEFINE S == {Enquiry}
      <4>1. <<>> \in Seq(S) /\ Enquiry \in S
        OBVIOUS
      <4> HIDE DEF S
      <4> QED
        BY <4>1, TimesAppend
    <3> QED
      BY <3>1, <3>2, TimesEmpty
  <2> QED
    BY <2>1, <2>2, <2>3, <2>4
<1>3. ASSUME NEW k \in 0 .. Records, Reading(k) PROVE FALSE
  <2>1. cmdq \in Seq(U)
    <3>1. InInventory
      BY <1>3 DEF Reading, InInventory
    <3>2. ~\E i \in DOMAIN cmdq : cmdq[i] \in Registers
      BY <1>1, <3>1 DEF ReadsQueued
    <3>3. cmdq \in Seq(Registers \cup U)
      BY <1>3 DEF Reading, OnlyReads
    <3>4. \A i \in 1 .. Len(cmdq) : cmdq[i] \in U
      BY <3>2, <3>3
    <3> QED
      BY <3>3, <3>4
  <2>2. putting # <<>>
    <3>1. Without(cmdq, U) = <<>>
      BY <2>1, WithoutNone
    <3>2. (<<>> \o <<>>) \o <<>> = <<>>
      OBVIOUS
    <3>3. putting = <<>> => Pipeline(wire, cmdq, putting) = <<>>
      BY <1>1, <3>1, <3>2 DEF Pipeline
    <3> QED
      BY <1>3, <3>3, SweepFrom DEF Reading
  <2>3. Len(cmdq) = QueueSize /\ busy
    BY <1>1, <2>2, CommandKinds
  <2>4. Times(UserFrame, cmdq) = Len(cmdq)
    <3>1. {i \in DOMAIN cmdq : cmdq[i] = UserFrame} = 1 .. Len(cmdq) /\ Len(cmdq) \in Nat
      BY <2>1
    <3>2. Cardinality(1 .. Len(cmdq)) = Len(cmdq)
      BY <3>1, IntervalSize
    <3> QED
      BY <3>1, <3>2 DEF Times
  <2>5. users.queued = users.sent + QueueSize /\ users.sent > 0 /\ users.queued <= Users
    BY <2>3, <2>4 DEF UsersOK, CountsOK
  <2>6. users.sent \in Nat /\ Users \in Nat
    BY RunAssumption DEF QueuesOK
  <2> QED
    BY <2>5, <2>6, CommandKinds
<1> QED
  BY <1>2, <1>3 DEF Swept

\* An inventory begins with nothing of another on its way.
LEMMA InventoryBegins ==
    ASSUME FlagsOK, QueuesOK, StartInventory, ~crossed'
    PROVE  ~Told' /\ Swept' /\ task'["inventory"].pc = "idle"
<1> USE DEF flagVars, timerVars, sweepVars, busVars, histVars
<1> DEFINE U == {UserFrame}
<1>1. /\ wire = <<>> /\ putting = <<>> /\ \A i \in DOMAIN cmdq : cmdq[i] = UserFrame
      /\ cmdq \in Seq(Commands)
  BY DEF StartInventory, Outstanding, QueuesOK
<1>2. cmdq \in Seq(U)
  BY <1>1
<1>3. Without(Append(cmdq, Enquiry), U) = <<Enquiry>>
  <2>1. Without(cmdq, U) = <<>>
    BY <1>2, WithoutNone
  <2>2. Enquiry \in Commands /\ Enquiry \notin U
    BY CommandKinds DEF Commands
  <2>3. Without(Append(cmdq, Enquiry), U) = Append(Without(cmdq, U), Enquiry)
    BY <1>1, <2>2, WithoutAppend
  <2>4. Append(<<>>, Enquiry) = <<Enquiry>>
    OBVIOUS
  <2> QED
    BY <2>1, <2>3, <2>4
<1>4. /\ stage' = "inventory_addresses" /\ known' = FALSE /\ asked' = FALSE
      /\ limit' = 0 /\ seen' = 0 /\ found' = {} /\ notes' = 0
      /\ cmdq' = Append(cmdq, Enquiry) /\ UNCHANGED <<putting, wire, task>>
      /\ crossed' = (crossed \/ ~AllIdle)
  BY DEF StartInventory, Begins
<1>5. Asking'
  BY <1>1, <1>3, <1>4 DEF Asking
<1>6. task'["inventory"].pc = "idle"
  BY <1>4 DEF AllIdle, Tasks
<1> QED
  BY <1>4, <1>5, <1>6 DEF Swept, Told

\* Once the host was told, the report stays.
LEMMA ReportStays ==
    ASSUME FlagsOK, RunInv, [Next]_vars, ~Begin, Told, ~crossed, ~crossed', ~spoilt',
           kind = "inventory"
    PROVE  UNCHANGED <<notes, report>>
<1> USE DEF flagVars, timerVars, sweepVars, busVars, histVars
<1>1. \A p \in Tasks : task[p].pc \notin {"finishing", "saving"}
  BY DEF RunInv, Resting, Scanning, Sweeping, CallingBack, Told, AllIdle, Alone, Tasks
<1>2. ASSUME NEW p \in Tasks, Chain(p) PROVE UNCHANGED <<notes, report>>
  BY <1>1, <1>2 DEF Chain, Notify, Notified, CallbackRaises, PauseOver, Count, ScanBegins,
     ScanEnds, Saved, ScanFails
<1>3. CASE BusStep
  BY <1>3 DEF BusStep, Send, CommandDone, PutRead, UserCommands, Repeated, HearAddress,
     HearRegister
<1>4. CASE InventoryFails
  BY <1>1, <1>4 DEF InventoryFails, Tasks
<1>5. CASE \/ HearStraggler \/ WindowElapses \/ InventorySaved \/ TimerFires
           \/ CancelScan \/ CancelInventory \/ ForeignFrame \/ UNCHANGED vars
  BY <1>5 DEF HearStraggler, WindowElapses, InventorySaved, TimerFires, CancelScan,
     CancelInventory, ForeignFrame, vars
<1> QED
  BY <1>2, <1>3, <1>4, <1>5 DEF Next, System, Inventory, BusStep

\* The sweep goes on until it is complete, and is then reported.
LEMMA SweepGoesOn ==
    ASSUME FlagsOK, KindsOK, QueuesOK, UsersOK, CountsOK, Users <= QueueSize,
           Sweeping, Whole, Swept, task["inventory"].pc # "idle" => Complete,
           [Next]_vars, ~Begin, Whole'
    PROVE  IF Told' THEN report' = 1 .. Records
           ELSE Swept' /\ (task'["inventory"].pc # "idle" => Complete')
<1> USE DEF flagVars, timerVars, sweepVars, busVars, histVars
<1>0. /\ lost = 0 /\ lost' = 0 /\ ~crossed' /\ ~raised' /\ ~hurried' /\ notes = 0
      /\ "inventory" \in Tasks /\ "host" \in Tasks
      /\ \A p \in Tasks : p # "inventory" => task[p].pc = "idle"
      /\ task["inventory"].pc \in {"idle", "saving", "finishing"}
  BY DEF Whole, Undisturbed, Sweeping, Alone, Tasks
<1>1. CASE BusStep
  <2>1. UNCHANGED <<task, notes>>
    BY <1>0, <1>1, BusMoves
  <2>2. Swept' /\ (Complete => Complete')
    BY <1>0, <1>1, AskingMoves, ReadingMoves, CompleteMoves, CommandKinds DEF Swept
  <2> QED
    BY <1>0, <2>1, <2>2 DEF Told
<1>2. ASSUME UNCHANGED <<stage, known, asked, limit, seen, found, putting, wire, cmdq>>
      PROVE  (Swept => Swept') /\ (Complete => Complete')
  BY <1>2 DEF Swept, Asking, Reading, Complete, OnlyReads
<1>3. ASSUME NEW p \in Tasks, Chain(p)
      PROVE  Told' /\ report' = 1 .. Records
  <2>1. Notify("inventory") /\ task["inventory"].pc = "finishing"
    BY <1>0, <1>3 DEF Chain, Notify, Notified, CallbackRaises, PauseOver, Count, ScanBegins,
       ScanEnds, Saved, ScanFails
  <2>2. notes' = notes + 1 /\ report' = found
    BY <2>1 DEF Notify
  <2> QED
    BY <1>0, <2>1, <2>2 DEF Complete, Told
<1>4. CASE WindowElapses
  <2>1. UNCHANGED <<known, asked, limit, seen, found, putting, wire, cmdq, notes>>
    BY <1>4 DEF WindowElapses
  <2>2. CASE InInventory /\ ReadsQueued
    <3>1. UNCHANGED <<task, stage>>
      BY <1>4, <2>2 DEF WindowElapses
    <3> QED
      BY <1>0, <1>2, <2>1, <3>1 DEF Told
  <2>3. CASE ~(InInventory /\ ReadsQueued)
    <3>1. Goes("inventory", "saving", None)
      BY <1>4, <2>3 DEF WindowElapses
    <3>2. task'["inventory"].pc # "idle"
      BY <1>0, <3>1, MovesAlone DEF Sweeping, Places
    <3>3. Complete
      BY <1>0, <1>4, <3>2, WindowClosesLate
    <3>4. Complete'
      BY <2>1, <3>3 DEF Complete, OnlyReads
    <3> QED
      BY <1>0, <2>1, <3>4 DEF Told, Swept
  <2> QED
    BY <2>2, <2>3
<1>5. CASE InventorySaved
  <2>1. /\ UNCHANGED <<stage, known, asked, limit, seen, found, putting, wire, cmdq, notes>>
        /\ task["inventory"].pc = "saving"
    BY <1>5 DEF InventorySaved
  <2> QED
    BY <1>0, <1>2, <2>1 DEF Told
<1>6. CASE InventoryFails
  <2>1. notes' = notes + 1 /\ report' = found /\ task["inventory"].pc = "saving"
    BY <1>6 DEF InventoryFails, Tells
  <2> QED
    BY <1>0, <2>1 DEF Complete, Told
<1>7. CASE UNCHANGED vars
  BY <1>0, <1>2, <1>7 DEF vars, Told
<1>8. CASE TimerFires \/ CancelScan \/ CancelInventory \/ HearStraggler \/ ForeignFrame
  BY <1>0, <1>8, Crosses DEF TimerFires, CancelScan, CancelInventory, Sweeping
<1> QED
  BY <1>1, <1>3, <1>4, <1>5, <1>6, <1>7, <1>8 DEF Next, System, Inventory, BusStep

\* A step of anyone keeps the report whole.
LEMMA StepWhole ==
    ASSUME FlagsOK, RunInv, KindsOK, QueuesOK, UsersOK, CountsOK, Users <= QueueSize,
           WholeInv, [Next]_vars
    PROVE  WholeInv'
<1> SUFFICES ASSUME Whole'
             PROVE  IF Told' THEN report' = 1 .. Records
                    ELSE Swept' /\ (task'["inventory"].pc # "idle" => Complete')
  BY DEF WholeInv
<1>1. CASE Begin
  <2>1. ~crossed' /\ kind' = "inventory"
    BY DEF Whole, Undisturbed
  <2>2. StartInventory
    BY <1>1, <2>1 DEF Begin, ScanOne, ScanAll, Begins
  <2> QED
    BY <2>1, <2>2, InventoryBegins
<1>2. CASE ~Begin
  <2>1. /\ Whole /\ ~crossed /\ ~crossed' /\ ~spoilt' /\ ~raised /\ kind = "inventory"
    BY <1>2, WholeBefore DEF Whole, Undisturbed
  <2>2. CASE Told
    <3>1. UNCHANGED <<notes, report>>
      BY <1>2, <2>1, <2>2, ReportStays
    <3> QED
      BY <2>1, <2>2, <3>1 DEF WholeInv, Told
  <2>3. CASE ~Told
    <3>1. Sweeping
      BY <2>1, <2>3 DEF RunInv, Resting, Scanning, CallingBack, Told
    <3>2. Swept /\ (task["inventory"].pc # "idle" => Complete)
      BY <2>1, <2>3 DEF WholeInv
    <3> QED
      BY <1>2, <2>1, <3>1, <3>2, SweepGoesOn
  <2> QED
    BY <2>2, <2>3
<1> QED
  BY <1>1, <1>2

-----------------------------------------------------------------------------
(* No register is read twice.                                              *)

\* A read of a register is to be queued, queued or done; before the address is
\* heard there is none.
ReadsOnce ==
    /\ reads \in [Registers -> Nat]
    /\ \A r \in Registers :
          /\ reads[r] + Times(r, cmdq) + Times(r, putting) <= 1
          /\ stage = "inventory_addresses" /\ ~asked =>
                putting = <<>> /\ reads[r] = 0 /\ Times(r, cmdq) = 0

\* A queue has an item a number of times.
LEMMA TimesNatural ==
    ASSUME NEW S, NEW q \in Seq(S), NEW x
    PROVE  Times(x, q) \in Nat
<1> DEFINE P == {i \in DOMAIN q : q[i] = x}
<1>1. P \subseteq 1 .. Len(q) /\ Len(q) \in Nat
  OBVIOUS
<1>2. IsFiniteSet(1 .. Len(q))
  BY <1>1, FS_Interval
<1>3. Times(x, q) = Cardinality(P)
  BY Zenon DEF Times
<1> HIDE DEF P
<1>4. IsFiniteSet(P)
  BY <1>1, <1>2, FS_Subset
<1> QED
  BY <1>3, <1>4, FS_CardinalityType

\* The sweep has every register once.
LEMMA SweepOnce ==
    ASSUME NEW r \in Registers
    PROVE  Times(r, Sweep) = 1
<1>1. Records \in Nat /\ Filler \in Nat /\ r \in 0 .. (Records + Filler)
  BY CommandKinds DEF Registers
<1>2. DOMAIN Sweep = 1 .. (Records + Filler + 1) /\ \A i \in DOMAIN Sweep : Sweep[i] = i - 1
  BY DEF Sweep
<1>3. {i \in DOMAIN Sweep : Sweep[i] = r} = {r + 1}
  BY <1>1, <1>2
<1>4. Cardinality({r + 1}) = 1
  BY FS_Singleton
<1> QED
  BY <1>3, <1>4 DEF Times

\* An item that is not of a queue's kind is not in it.
LEMMA TimesNever ==
    ASSUME NEW S, NEW q \in Seq(S), NEW x, x \notin S
    PROVE  Times(x, q) = 0
<1>1. {i \in DOMAIN q : q[i] = x} = {}
  OBVIOUS
<1> QED
  BY <1>1, FS_EmptySet DEF Times

\* Reads move on one by one and are dropped, never added but once.
LEMMA StepReads ==
    ASSUME FlagsOK, KindsOK, QueuesOK, ReadsOnce, [Next]_vars
    PROVE  ReadsOnce'
<1> USE DEF flagVars, timerVars, sweepVars, busVars, histVars
<1>0. /\ \A r \in Registers : /\ Times(r, cmdq) \in Nat /\ Times(r, putting) \in Nat
                              /\ reads[r] \in Nat /\ r # Enquiry /\ r # UserFrame
      /\ Registers \subseteq Commands /\ Enquiry \in Commands /\ UserFrame \in Commands
  <2>1. \A r \in Registers : Times(r, cmdq) \in Nat /\ Times(r, putting) \in Nat
    BY TimesNatural DEF QueuesOK
  <2>2. \A r \in Registers : reads[r] \in Nat
    BY DEF ReadsOnce
  <2> QED
    BY <2>1, <2>2, CommandKinds DEF Commands
<1>1. ASSUME NEW c \in Commands, cmdq' = Append(cmdq, c)
      PROVE  \A r \in Registers :
                Times(r, cmdq') = Times(r, cmdq) + (IF c = r THEN 1 ELSE 0)
  BY <1>1, TimesAppend DEF QueuesOK
<1>2. ASSUME UNCHANGED <<cmdq, putting, reads>>,
             \/ UNCHANGED <<stage, asked>>
             \/ stage' # "inventory_addresses"
      PROVE  ReadsOnce'
  BY <1>2 DEF ReadsOnce
<1>3. CASE StartInventory
  <2>1. /\ putting = <<>> /\ \A i \in DOMAIN cmdq : cmdq[i] = UserFrame
        /\ cmdq' = Append(cmdq, Enquiry) /\ reads' = [r \in Registers |-> 0] /\ UNCHANGED putting
    BY <1>3 DEF StartInventory, Outstanding
  <2>2. cmdq \in Seq({UserFrame})
    BY <2>1 DEF QueuesOK
  <2>3. \A r \in Registers : Times(r, cmdq) = 0
    BY <1>0, <2>2, TimesNever
  <2>4. \A r \in Registers : Times(r, cmdq') = 0
    BY <1>0, <1>1, <2>1, <2>3
  <2>5. \A r \in Registers : Times(r, putting) = 0
    BY <2>1, TimesEmpty
  <2> QED
    BY <2>1, <2>4, <2>5 DEF ReadsOnce
<1>4. ASSUME NEW m \in ToSet(Modules), ScanOne(m) PROVE ReadsOnce'
  <2>1. /\ UNCHANGED <<cmdq, putting, reads, asked>>
        /\ stage' = IF stage = None THEN "register_scan" ELSE stage
    BY <1>4 DEF ScanOne
  <2> QED
    BY <1>2, <2>1
<1>5. CASE ScanAll
  <2>1. /\ UNCHANGED <<cmdq, putting, reads, asked>>
        /\ stage' = "register_scan" \/ stage' = stage
    BY <1>5 DEF ScanAll
  <2> QED
    BY <1>2, <2>1
<1>6. ASSUME NEW p \in Tasks, Chain(p) PROVE ReadsOnce'
  <2>1. CASE Notified(p) \/ CallbackRaises(p) \/ ScanFails(p)
    <3>1. stage' = None /\ UNCHANGED <<cmdq, putting, reads>>
      BY <2>1 DEF Notified, CallbackRaises, ScanFails, Abort, ResetState
    <3> QED
      BY <1>2, <3>1 DEF None
  <2>2. CASE Notify(p) \/ PauseOver(p) \/ Count(p) \/ ScanBegins(p) \/ ScanEnds(p) \/ Saved(p)
    BY <1>2, <2>2 DEF Notify, PauseOver, Count, ScanBegins, ScanEnds, Saved
  <2> QED
    BY <1>6, <2>1, <2>2 DEF Chain
<1>7. CASE CancelScan \/ InventoryFails \/ CancelInventory
  <2>1. stage' = None /\ UNCHANGED <<cmdq, putting, reads>>
    BY <1>7 DEF CancelScan, InventoryFails, CancelInventory, Abort, ResetState
  <2> QED
    BY <1>2, <2>1 DEF None
<1>8. CASE WindowElapses
  <2>1. /\ UNCHANGED <<cmdq, putting, reads, asked>>
        /\ stage' = stage \/ stage' = "inventory_identity"
    BY <1>8 DEF WindowElapses
  <2> QED
    BY <1>2, <2>1
<1>9. CASE \/ CommandDone \/ HearStraggler \/ InventorySaved \/ TimerFires \/ ForeignFrame
           \/ Repeated \/ UNCHANGED vars
  BY <1>2, <1>9 DEF CommandDone, HearStraggler, InventorySaved, TimerFires, ForeignFrame,
     Repeated, vars
<1>10. CASE Send
  <2> DEFINE c == Head(cmdq)
  <2>1. cmdq # <<>> /\ cmdq' = Tail(cmdq) /\ UNCHANGED <<putting, stage, asked>>
    BY <1>10 DEF Send
  <2>2. \A r \in Registers :
           /\ Times(r, cmdq') \in Nat
           /\ Times(r, cmdq) = Times(r, cmdq') + (IF c = r THEN 1 ELSE 0)
    BY <2>1, TimesTail DEF QueuesOK
  <2>3. c \in Commands
    BY <2>1 DEF QueuesOK
  <2>4. CASE c \in Registers
    <3>1. reads' = [reads EXCEPT ![c] = @ + 1]
      BY <1>0, <1>10, <2>4 DEF Send
    <3> HIDE DEF c
    <3>2. /\ reads' \in [Registers -> Nat]
          /\ \A r \in Registers : reads'[r] = reads[r] + (IF c = r THEN 1 ELSE 0)
      BY <2>4, <3>1 DEF ReadsOnce
    <3>3. ASSUME NEW r \in Registers
          PROVE  reads'[r] + Times(r, cmdq') + Times(r, putting) <= 1
      BY <1>0, <2>2, <3>2 DEF ReadsOnce
    <3>4. ~(stage = "inventory_addresses" /\ ~asked)
      <4>1. Times(c, cmdq) = Times(c, cmdq') + 1 /\ Times(c, cmdq') \in Nat
        BY <2>2, <2>4
      <4>2. Times(c, cmdq) # 0
        BY <4>1
      <4> QED
        BY <2>4, <4>2 DEF ReadsOnce
    <3> QED
      BY <2>1, <3>2, <3>3, <3>4 DEF ReadsOnce
  <2>5. CASE c \notin Registers
    <3>1. reads' = reads
      BY <1>10, <2>3, <2>5 DEF Send, Commands
    <3>2. \A r \in Registers : Times(r, cmdq') = Times(r, cmdq)
      BY <2>2, <2>5
    <3> QED
      BY <2>1, <3>1, <3>2 DEF ReadsOnce
  <2> QED
    BY <2>4, <2>5
<1>11. CASE UserCommands
  <2>1. cmdq' = Append(cmdq, UserFrame) /\ UNCHANGED <<putting, reads, stage, asked>>
    BY <1>11 DEF UserCommands
  <2>2. \A r \in Registers : Times(r, cmdq') = Times(r, cmdq)
    BY <1>0, <1>1, <2>1
  <2> QED
    BY <2>1, <2>2 DEF ReadsOnce
<1>12. CASE PutRead
  <2> DEFINE c == Head(putting)
  <2>1. /\ putting # <<>> /\ cmdq' = Append(cmdq, c) /\ putting' = Tail(putting)
        /\ UNCHANGED <<reads, stage, asked>>
    BY <1>12 DEF PutRead
  <2>2. c \in Commands
    BY <1>0, <2>1 DEF QueuesOK
  <2>3. \A r \in Registers : Times(r, cmdq') = Times(r, cmdq) + (IF c = r THEN 1 ELSE 0)
    BY <1>1, <2>1, <2>2
  <2>4. \A r \in Registers :
           /\ Times(r, putting') \in Nat
           /\ Times(r, putting) = Times(r, putting') + (IF c = r THEN 1 ELSE 0)
    BY <2>1, TimesTail DEF QueuesOK
  <2> HIDE DEF c
  <2>5. ASSUME NEW r \in Registers
        PROVE  reads[r] + Times(r, cmdq') + Times(r, putting') <= 1
    BY <1>0, <2>3, <2>4 DEF ReadsOnce
  <2>6. ~(stage = "inventory_addresses" /\ ~asked)
    <3>1. 0 \in Registers
      BY CommandKinds
    <3> QED
      BY <2>1, <3>1 DEF ReadsOnce
  <2> QED
    BY <2>1, <2>5, <2>6 DEF ReadsOnce
<1>13. CASE HearAddress
  <2>1. UNCHANGED <<cmdq, reads, stage>>
    BY <1>13 DEF HearAddress
  <2>2. CASE stage = "inventory_addresses" /\ NewAddress
    <3>1. asked' = TRUE /\ putting' = putting \o Sweep
      BY <1>13, <2>2 DEF HearAddress
    <3>2. putting = <<>> /\ \A r \in Registers : reads[r] = 0 /\ Times(r, cmdq) = 0
      <4>1. 0 \in Registers
        BY CommandKinds
      <4> QED
        BY <2>2, <4>1 DEF ReadsOnce, NewAddress
    <3>3. putting' = Sweep
      <4>1. Sweep \in Seq(Registers)
        BY SweepFrom, CommandKinds
      <4> QED
        BY <3>1, <3>2, <4>1, ConcatEmptySeq
    <3>4. \A r \in Registers : Times(r, putting') = 1
      BY <3>3, SweepOnce
    <3> QED
      BY <2>1, <3>1, <3>2, <3>4 DEF ReadsOnce
  <2>3. CASE ~(stage = "inventory_addresses" /\ NewAddress)
    <3>1. UNCHANGED <<asked, putting>>
      BY <1>13, <2>3 DEF HearAddress
    <3> QED
      BY <1>2, <2>1, <3>1
  <2> QED
    BY <2>2, <2>3
<1>14. CASE HearRegister
  <2>1. /\ UNCHANGED <<putting, reads, stage, asked>>
        /\ cmdq' = cmdq \/ cmdq' = Without(cmdq, Registers)
    BY <1>14 DEF HearRegister, DrainReads
  <2>2. CASE cmdq' = Without(cmdq, Registers)
    <3>1. Without(cmdq, Registers) \in Seq(Commands \ Registers)
      BY WithoutFacts DEF QueuesOK
    <3>2. \A r \in Registers : Times(r, cmdq') = 0
      BY <2>2, <3>1, TimesNever
    <3>3. \A r \in Registers : reads[r] + 0 + Times(r, putting) <= 1
      BY <1>0 DEF ReadsOnce
    <3> QED
      BY <2>1, <3>2, <3>3 DEF ReadsOnce
  <2> QED
    BY <1>2, <2>1, <2>2
<1> QED
  BY <1>3, <1>4, <1>5, <1>6, <1>7, <1>8, <1>9, <1>10, <1>11, <1>12, <1>13, <1>14
     DEF Next, Begin, System, Inventory

\* The initial state.
LEMMA InitSweep ==
    Init => CountsOK /\ WholeInv /\ ReadsOnce
<1> SUFFICES ASSUME Init PROVE CountsOK /\ WholeInv /\ ReadsOnce
  OBVIOUS
<1>1. CountsOK
  BY RunAssumption DEF Init, CountsOK
<1>2. WholeInv
  BY DEF Init, WholeInv, Whole, None
<1>3. ReadsOnce
  BY TimesEmpty DEF Init, ReadsOnce, None
<1> QED
  BY <1>1, <1>2, <1>3

-----------------------------------------------------------------------------
(* The theorems.                                                           *)

\* Whoever ends a run, the coordinator's flags and tasks belong to one run: it
\* is the caller's scan, the inventory's window or a callback, one at a time.
THEOREM OneRun == Spec => [](FlagsOK /\ RunInv)
BY InitRun, StepFlags, StepRun, PTL DEF Spec

\* _finalize_discovery, _complete_discovery_run and _abort_run_with_notification
\* between them tell the host of the end of a run once, by the callback or by an
\* exception, though four tasks call them.
THEOREM HostToldOnce == Spec => []ToldOnce
<1>1. FlagsOK /\ RunInv => ToldOnce
  BY DEF FlagsOK, RunInv, Resting, Scanning, Sweeping, CallingBack, ToldOnce
<1> QED
  BY <1>1, OneRun, PTL

\* _start_next_register_scan and the finalizers work the queue off: a run over
\* the whole of it that ends without an exception has scanned every output
\* module once and in order, and a module with its own type set up.
THEOREM EveryModuleScanned == Spec => []QueueScanned
<1>1. FlagsOK /\ RunInv => QueueScanned
  <2> SUFFICES ASSUME FlagsOK, RunInv, ~crossed
               PROVE  /\ kind = "all" /\ Told /\ ~raised => scanned = Scannable
                      /\ \A p \in Tasks : task[p].pc = "scan" => context = task[p].mod
    BY DEF QueueScanned
  <2>1. CASE Resting
    BY <2>1 DEF Resting, AllIdle
  <2>2. CASE Scanning
    BY <2>2 DEF Scanning, Alone, Told
  <2>3. CASE Sweeping \/ CallingBack
    BY <2>3 DEF Sweeping, CallingBack, Alone
  <2> QED
    BY <2>1, <2>2, <2>3 DEF RunInv
<1> QED
  BY <1>1, OneRun, PTL

\* reset_state and the flags: once the host was told and every task returned,
\* nothing is left that would refuse the next run or end it early.
THEOREM NothingLeft == Spec => []CleanAfterwards
<1>1. FlagsOK /\ RunInv => CleanAfterwards
  <2> SUFFICES ASSUME FlagsOK, RunInv, ~crossed, Over, AllIdle PROVE Resting
    BY DEF CleanAfterwards, Resting
  <2>1. ~Scanning /\ ~CallingBack
    BY DEF Scanning, CallingBack, AllIdle, Tasks
  <2>2. ~Sweeping
    BY DEF Sweeping, Over, Told, FlagsOK
  <2> QED
    BY <2>1, <2>2 DEF RunInv
<1> QED
  BY <1>1, OneRun, PTL

\* Every task that touches the coordinator's state leaves it well formed: the
\* scan lock is held by the task that scans, the queue keeps its size, and only
\* records of the registry are filed and reported.
THEOREM StateWellFormed == Spec => []TypeOK
<1>1. FlagsOK /\ KindsOK /\ LockOK /\ QueuesOK => TypeOK
  <2> SUFFICES ASSUME FlagsOK, KindsOK, LockOK, QueuesOK PROVE TypeOK
    OBVIOUS
  <2>1. ToSet(regq) \subseteq ToSet(Modules)
    BY DEF FlagsOK, ToSet
  <2>2. \A p \in Tasks : (lock = p) = (task[p].pc = "scan")
    BY DEF LockOK
  <2> QED
    BY <2>1, <2>2 DEF FlagsOK, KindsOK, LockOK, QueuesOK, TypeOK
<1> QED
  BY <1>1, InitRun, InitData, StepFlags, StepKinds, StepLock, StepQueues, PTL DEF Spec

\* drain_queue takes the PC-Link's reads out of the queue and puts the rest back:
\* what the user queued during a sweep is sent or still queued.
THEOREM UserCommandsKept == Spec => []UserKept
<1>1. UsersOK => UserKept
  BY DEF UsersOK, UserKept, Times
<1> QED
  BY <1>1, InitRun, InitData, StepFlags, StepQueues, StepUsers, PTL DEF Spec

\* parse_inventory_response and _inventory_timeout_after: an inventory that nothing was
\* lost in reports every record of the registry, and no register is read twice,
\* when the user queues no more commands than the queue has places for.
THEOREM RegistryRead ==
    ASSUME Users <= QueueSize
    PROVE  Spec => []RegistryWhole
<1>1. WholeInv /\ ReadsOnce /\ QueuesOK => RegistryWhole
  <2> SUFFICES ASSUME WholeInv, ReadsOnce, QueuesOK PROVE RegistryWhole
    OBVIOUS
  <2>1. ASSUME NEW r \in Registers PROVE reads[r] <= 1
    <3>1. Times(r, cmdq) \in Nat /\ Times(r, putting) \in Nat
      BY TimesNatural DEF QueuesOK
    <3> QED
      BY <3>1 DEF ReadsOnce
  <2> QED
    BY <2>1 DEF WholeInv, Whole, RegistryWhole
<1>2. FlagsOK /\ RunInv /\ KindsOK /\ QueuesOK /\ UsersOK /\ CountsOK /\ WholeInv /\ ReadsOnce
        /\ [Next]_vars => CountsOK' /\ WholeInv' /\ ReadsOnce'
  BY StepCounts, StepWhole, StepReads
<1> QED
  BY <1>1, <1>2, InitRun, InitData, InitSweep, StepFlags, StepRun, StepKinds, StepQueues,
     StepUsers, PTL DEF Spec
=============================================================================
