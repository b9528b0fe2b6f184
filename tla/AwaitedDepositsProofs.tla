------------------------ MODULE AwaitedDepositsProofs ------------------------
(***************************************************************************)
(* Theorems about await-deposit behind the rate limit: what the limit      *)
(* promises, for any ids, limit and window, and that callers do not        *)
(* disturb the monitor.                                                    *)
(***************************************************************************)
EXTENDS AwaitedDeposits, DepositMonitorProofs, FiniteSetTheorems

-----------------------------------------------------------------------------
(* What is admitted, one id at a time: e is its entry, r its requests. *)

CountType == [Age -> Nat]

Counted(r, ages) == Cardinality(Requests(r, ages))

\* What the check, an admission and a tick make of an entry, and of the requests.
LiveEntry(e)  == IF e.age < Window THEN e ELSE NoEntry
OneMore(e)    == [count |-> e.count + 1, age |-> e.age]
OlderEntry(e) == [e EXCEPT !.age = IF @ < Window /\ e.count > 0 THEN @ + 1 ELSE @]
OneNow(r)     == [r EXCEPT ![0] = @ + 1]
Older(r)      == [a \in Age |-> IF a = 0 THEN 0 ELSE r[a - 1]]

\* While its window runs, the count is of the requests since the first of them, which is
\* as old as the window; fewer than the limit are older: the window before them ended
\* when the oldest of its own was gone.
WindowRuns(e, r) ==
  /\ Counted(r, 0 .. e.age) = e.count
  /\ Counted(r, (e.age + 1) .. (Window - 1)) < MaxRequests
  /\ r[e.age] > 0

\* Once it is over, fewer than the limit are left, and none is new.
WindowIsOver(r) ==
  /\ Counted(r, Age) < MaxRequests
  /\ r[0] = 0

EntryInv(e, r) ==
  /\ e \in [count : 0 .. MaxRequests, age : 0 .. Window]
  /\ r \in CountType
  /\ IsFiniteSet(Requests(r, Age))
  /\ e.count = 0 => e.age = 0
  /\ e.count > 0 /\ e.age < Window => WindowRuns(e, r)
  /\ e.count = 0 \/ e.age = Window => WindowIsOver(r)

LimitInv ==
  /\ limiter \in [Id -> [count : 0 .. MaxRequests, age : 0 .. Window]]
  /\ recent \in [Id -> CountType]
  /\ \A i \in Id : EntryInv(limiter[i], recent[i])

\* A request is the pair of its age and its number.
LEMMA RequestIsPair ==
  ASSUME NEW r \in CountType, NEW S \in SUBSET Age, NEW p
  PROVE  p \in Requests(r, S) <=> \E a \in S : \E k \in 1 .. r[a] : p = <<a, k>>
BY DEF Requests

\* Fewer ages, fewer requests.
LEMMA FewerAges ==
  ASSUME NEW r \in CountType, NEW S \in SUBSET Age, NEW T \in SUBSET S,
         IsFiniteSet(Requests(r, S))
  PROVE  /\ IsFiniteSet(Requests(r, T))
         /\ Counted(r, T) \in Nat
         /\ Counted(r, S) \in Nat
         /\ Counted(r, T) <= Counted(r, S)
<1>1. Requests(r, T) \in SUBSET Requests(r, S)
  BY RequestIsPair
<1>. QED
  BY <1>1, FS_Subset, FS_CardinalityType DEF Counted

\* No request is of an age at which none was admitted.
LEMMA NoneAtAll ==
  ASSUME NEW r \in CountType, NEW a \in Age, r[a] = 0
  PROVE  Counted(r, {a}) = 0
<1>1. Requests(r, {a}) = {}
  <2>1. \A p : p \notin Requests(r, {a})
    BY RequestIsPair
  <2>. QED
    BY <2>1
<1>. QED
  BY <1>1, FS_EmptySet DEF Counted

\* What was admitted at the ages of two sets is at most what was at each of them.
LEMMA AgesTogether ==
  ASSUME NEW r \in CountType, NEW S \in SUBSET Age, NEW T \in SUBSET Age,
         IsFiniteSet(Requests(r, Age))
  PROVE  Counted(r, S \cup T) <= Counted(r, S) + Counted(r, T)
<1>1. Requests(r, S \cup T) = Requests(r, S) \cup Requests(r, T)
  <2>1. \A p : p \in Requests(r, S \cup T) <=> p \in Requests(r, S) \cup Requests(r, T)
    BY RequestIsPair
  <2>. QED
    BY <2>1
<1>2. IsFiniteSet(Requests(r, S)) /\ IsFiniteSet(Requests(r, T))
  BY FewerAges
<1>3. Cardinality(Requests(r, S) \cap Requests(r, T)) \in Nat
  BY <1>2, FS_Intersection, FS_CardinalityType
<1>4. Cardinality(Requests(r, S)) \in Nat /\ Cardinality(Requests(r, T)) \in Nat
  BY <1>2, FS_CardinalityType
<1>5. Cardinality(Requests(r, S) \cup Requests(r, T))
        = Cardinality(Requests(r, S)) + Cardinality(Requests(r, T))
            - Cardinality(Requests(r, S) \cap Requests(r, T))
  BY <1>2, FS_Union
<1>6. Cardinality(Requests(r, S \cup T))
        <= Cardinality(Requests(r, S)) + Cardinality(Requests(r, T))
  <2>. HIDE DEF Requests
  <2>1. ASSUME NEW x \in Nat, NEW y \in Nat, NEW z \in Nat
        PROVE  x + y - z <= x + y
    OBVIOUS
  <2>. QED
    BY <1>1, <1>3, <1>4, <1>5, <2>1
<1>. QED
  BY <1>6 DEF Counted

\* An admission counts among the ages that hold 0, and nowhere else.
LEMMA AdmissionCounts ==
  ASSUME NEW r \in CountType, NEW S \in SUBSET Age, IsFiniteSet(Requests(r, Age))
  PROVE  /\ OneNow(r) \in CountType
         /\ IsFiniteSet(Requests(OneNow(r), S))
         /\ Counted(OneNow(r), S) = Counted(r, S) + (IF 0 \in S THEN 1 ELSE 0)
<1>1. OneNow(r) \in CountType
  BY RateLimitAssumption DEF OneNow, CountType, Age
<1>2. IsFiniteSet(Requests(r, S)) /\ Counted(r, S) \in Nat
  BY FewerAges
<1>3. CASE 0 \in S
  <2>1. r[0] \in Nat
    BY RateLimitAssumption DEF CountType, Age
  <2>2. OneNow(r)[0] = r[0] + 1 /\ \A a \in Age \ {0} : OneNow(r)[a] = r[a]
    BY RateLimitAssumption DEF OneNow, CountType, Age
  <2>3. \A p : p \in Requests(OneNow(r), S) <=> p \in Requests(r, S) \cup {<<0, r[0] + 1>>}
    <3>. TAKE p
    <3>1. p \in Requests(OneNow(r), S) <=> \E a \in S : \E k \in 1 .. OneNow(r)[a] : p = <<a, k>>
      BY <1>1, RequestIsPair
    <3>2. p \in Requests(r, S) <=> \E a \in S : \E k \in 1 .. r[a] : p = <<a, k>>
      BY RequestIsPair
    <3>3. 1 .. (r[0] + 1) = (1 .. r[0]) \cup {r[0] + 1}
      BY <2>1
    <3>. QED
      BY <1>3, <2>2, <3>1, <3>2, <3>3
  <2>4. Requests(OneNow(r), S) = Requests(r, S) \cup {<<0, r[0] + 1>>}
    BY <2>3
  <2>5. <<0, r[0] + 1>> \notin Requests(r, S)
    BY <2>1, RequestIsPair
  <2>6. /\ IsFiniteSet(Requests(r, S) \cup {<<0, r[0] + 1>>})
        /\ Cardinality(Requests(r, S) \cup {<<0, r[0] + 1>>}) = Cardinality(Requests(r, S)) + 1
    BY <1>2, <2>5, FS_AddElement
  <2>. QED
    BY <1>1, <1>3, <2>4, <2>6 DEF Counted
<1>4. CASE 0 \notin S
  <2>1. \A a \in S : OneNow(r)[a] = r[a]
    BY <1>4 DEF OneNow, CountType
  <2>2. \A p : p \in Requests(OneNow(r), S) <=> p \in Requests(r, S)
    BY <1>1, <2>1, RequestIsPair
  <2>3. Requests(OneNow(r), S) = Requests(r, S)
    BY <2>2
  <2>. QED
    BY <1>1, <1>2, <1>4, <2>3 DEF Counted
<1>. QED
  BY <1>3, <1>4

\* A tick makes the requests of the ages of S those of the ages of T, if these are a tick
\* later, and 0.
LEMMA TickMoves ==
  ASSUME NEW r \in CountType, NEW S \in SUBSET Age, NEW T \in SUBSET Age,
         \A a \in S : a + 1 \in T,
         \A a \in T : a = 0 \/ a - 1 \in S,
         IsFiniteSet(Requests(r, Age))
  PROVE  /\ Older(r) \in CountType
         /\ IsFiniteSet(Requests(Older(r), T))
         /\ Counted(Older(r), T) = Counted(r, S)
<1>. DEFINE F == [p \in Requests(r, S) |-> <<p[1] + 1, p[2]>>]
<1>1. Older(r) \in CountType
  BY RateLimitAssumption DEF Older, CountType, Age
<1>2. Older(r)[0] = 0 /\ \A a \in Age \ {0} : Older(r)[a] = r[a - 1]
  BY RateLimitAssumption DEF Older, Age
<1>3. \A p \in Requests(r, S) :
        \E a \in S : \E k \in 1 .. r[a] : p = <<a, k>> /\ F[p] = <<a + 1, k>>
  BY RequestIsPair
<1>4. \A a \in S : a \in Int /\ a + 1 \in Age \ {0} /\ Older(r)[a + 1] = r[a]
  BY <1>2 DEF Age
<1>5. F \in [Requests(r, S) -> Requests(Older(r), T)]
  <2>1. ASSUME NEW p \in Requests(r, S)
        PROVE  F[p] \in Requests(Older(r), T)
    <3>1. PICK a \in S : \E k \in 1 .. r[a] : p = <<a, k>> /\ F[p] = <<a + 1, k>>
      BY <1>3
    <3>2. PICK k \in 1 .. r[a] : F[p] = <<a + 1, k>>
      BY <3>1
    <3>3. a + 1 \in T /\ k \in 1 .. Older(r)[a + 1]
      BY <1>4
    <3>. QED
      BY <1>1, <3>2, <3>3, RequestIsPair
  <2>. QED
    BY <2>1
<1>6. F \in Injection(Requests(r, S), Requests(Older(r), T))
  <2>1. ASSUME NEW p \in Requests(r, S), NEW q \in Requests(r, S), F[p] = F[q]
        PROVE  p = q
    <3>1. PICK a \in S : \E k \in 1 .. r[a] : p = <<a, k>> /\ F[p] = <<a + 1, k>>
      BY <1>3
    <3>2. PICK b \in S : \E k \in 1 .. r[b] : q = <<b, k>> /\ F[q] = <<b + 1, k>>
      BY <1>3
    <3>3. a + 1 = b + 1
      BY <2>1, <3>1, <3>2
    <3>4. a = b
      BY <1>4, <3>3
    <3>. QED
      BY <2>1, <3>1, <3>2, <3>4
  <2>. QED
    BY <1>5, <2>1 DEF Injection, IsInjective
<1>7. F \in Surjection(Requests(r, S), Requests(Older(r), T))
  <2>1. ASSUME NEW q \in Requests(Older(r), T)
        PROVE  \E p \in Requests(r, S) : F[p] = q
    <3>1. PICK b \in T : \E k \in 1 .. Older(r)[b] : q = <<b, k>>
      BY <1>1, RequestIsPair
    <3>2. PICK k \in 1 .. Older(r)[b] : q = <<b, k>>
      BY <3>1
    <3>3. b # 0
      BY <1>2, <3>2
    <3>4. b - 1 \in S /\ Older(r)[b] = r[b - 1] /\ (b - 1) + 1 = b
      BY <1>2, <3>3 DEF Age
    <3>5. <<b - 1, k>> \in Requests(r, S)
      BY <3>2, <3>4, RequestIsPair
    <3>6. F[<<b - 1, k>>] = <<(b - 1) + 1, k>>
      BY <3>5
    <3>. QED
      BY <3>2, <3>4, <3>5, <3>6
  <2>. QED
    BY <1>5, <2>1 DEF Surjection
<1>8. IsFiniteSet(Requests(r, S))
  BY FewerAges
<1>9. ExistsBijection(Requests(r, S), Requests(Older(r), T))
  BY <1>6, <1>7 DEF ExistsBijection, Bijection
<1>. QED
  BY <1>1, <1>8, <1>9, FS_Bijection DEF Counted

-----------------------------------------------------------------------------
(* The invariant of one entry *)

\* An id without an entry has asked nothing, or nothing that still counts.
LEMMA FreshEntry ==
  EntryInv(NoEntry, [a \in Age |-> 0])
<1>. DEFINE z == [a \in Age |-> 0]
<1>1. z \in CountType
  BY DEF CountType
<1>2. Requests(z, Age) = {}
  <2>1. \A p : p \notin Requests(z, Age)
    BY <1>1, RequestIsPair
  <2>. QED
    BY <2>1
<1>3. IsFiniteSet(Requests(z, Age)) /\ Counted(z, Age) = 0
  BY <1>2, FS_EmptySet DEF Counted
<1>4. z[0] = 0
  BY RateLimitAssumption DEF Age
<1>. QED
  BY <1>1, <1>3, <1>4, RateLimitAssumption DEF EntryInv, NoEntry, WindowIsOver

\* To forget a window that is over loses nothing.
LEMMA LiveKeeps ==
  ASSUME NEW e, NEW r, EntryInv(e, r)
  PROVE  /\ EntryInv(LiveEntry(e), r)
         /\ LiveEntry(e).age < Window
BY RateLimitAssumption DEF EntryInv, LiveEntry, NoEntry, WindowRuns, WindowIsOver

\* An admission below the limit joins the window of the entry, or opens one.
LEMMA AdmitKeeps ==
  ASSUME NEW e, NEW r, EntryInv(e, r), e.age < Window, e.count < MaxRequests
  PROVE  EntryInv(OneMore(e), OneNow(r))
<1>. DEFINE young == 0 .. e.age
            old   == (e.age + 1) .. (Window - 1)
<1>1. /\ e.count \in 0 .. MaxRequests /\ e.age \in 0 .. Window
      /\ r \in CountType /\ IsFiniteSet(Requests(r, Age))
  BY DEF EntryInv
<1>2. /\ young \in SUBSET Age /\ old \in SUBSET Age
      /\ 0 \in young /\ 0 \notin old
  BY <1>1, RateLimitAssumption DEF Age
<1>3. /\ OneNow(r) \in CountType
      /\ IsFiniteSet(Requests(OneNow(r), Age))
      /\ Counted(OneNow(r), young) = Counted(r, young) + 1
      /\ Counted(OneNow(r), old) = Counted(r, old)
  <2>1. Age \in SUBSET Age
    OBVIOUS
  <2>2. Counted(r, old) \in Nat
    BY <1>1, <1>2, FewerAges
  <2>3. Counted(r, young) \in Nat
    BY <1>1, <1>2, FewerAges
  <2>4. /\ OneNow(r) \in CountType
        /\ IsFiniteSet(Requests(OneNow(r), Age))
    BY <1>1, <2>1, AdmissionCounts
  <2>5. Counted(OneNow(r), young) = Counted(r, young) + 1
    BY <1>1, <1>2, AdmissionCounts
  <2>6. Counted(OneNow(r), old) = Counted(r, old) + 0
    BY <1>1, <1>2, AdmissionCounts
  <2>. QED
    BY <2>2, <2>4, <2>5, <2>6
<1>4. OneNow(r)[e.age] = (IF e.age = 0 THEN r[0] + 1 ELSE r[e.age])
  BY <1>1, RateLimitAssumption DEF OneNow, CountType, Age
<1>5. r[e.age] \in Nat
  BY <1>1, RateLimitAssumption DEF CountType, Age
<1>6. /\ Counted(r, young) = e.count
      /\ Counted(r, old) < MaxRequests
      /\ e.age # 0 => r[e.age] > 0
  <2>1. CASE e.count > 0
    BY <2>1 DEF EntryInv, WindowRuns
  <2>2. CASE e.count = 0
    <3>1. e.age = 0 /\ young = {0} /\ Counted(r, Age) < MaxRequests /\ r[0] = 0
      BY <2>2 DEF EntryInv, WindowIsOver
    <3>2. Counted(r, young) = 0
      BY <1>1, <3>1, NoneAtAll, RateLimitAssumption DEF Age
    <3>3. Counted(r, old) <= Counted(r, Age) /\ Counted(r, old) \in Nat /\ Counted(r, Age) \in Nat
      BY <1>1, <1>2, FewerAges
    <3>. QED
      BY <2>2, <3>1, <3>2, <3>3, RateLimitAssumption
  <2>. QED
    BY <1>1, <2>1, <2>2
<1>7. WindowRuns(OneMore(e), OneNow(r))
  BY <1>3, <1>4, <1>5, <1>6 DEF WindowRuns, OneMore
<1>. QED
  BY <1>1, <1>3, <1>7, RateLimitAssumption DEF EntryInv, OneMore

\* A tick ages the entry with its requests; when the window ends, the first request
\* of it is gone, and what is left is below the limit.
LEMMA TickKeeps ==
  ASSUME NEW e, NEW r, EntryInv(e, r)
  PROVE  EntryInv(OlderEntry(e), Older(r))
<1>. DEFINE kept == 0 .. (Window - 2)
<1>1. /\ e \in [count : 0 .. MaxRequests, age : 0 .. Window]
      /\ e.count \in 0 .. MaxRequests /\ e.age \in 0 .. Window
      /\ r \in CountType /\ IsFiniteSet(Requests(r, Age))
  BY DEF EntryInv
<1>2. kept \in SUBSET Age /\ Age \in SUBSET Age
  BY RateLimitAssumption DEF Age
<1>3. /\ Older(r) \in CountType
      /\ IsFiniteSet(Requests(Older(r), Age))
      /\ Counted(Older(r), Age) = Counted(r, kept)
  <2>1. (\A a \in kept : a + 1 \in Age) /\ (\A a \in Age : a = 0 \/ a - 1 \in kept)
    BY RateLimitAssumption DEF Age
  <2>. QED
    BY <1>1, <1>2, <2>1, TickMoves
<1>4. Older(r)[0] = 0
  BY RateLimitAssumption DEF Older, Age
<1>5. Counted(r, kept) <= Counted(r, Age) /\ Counted(r, kept) \in Nat /\ Counted(r, Age) \in Nat
  BY <1>1, <1>2, FewerAges
<1>6. CASE e.count = 0 \/ e.age = Window
  <2>1. OlderEntry(e) = e
    BY <1>1, <1>6 DEF OlderEntry
  <2>2. WindowIsOver(r)
    BY <1>6 DEF EntryInv
  <2>3. WindowIsOver(Older(r))
    BY <1>3, <1>4, <1>5, <2>2, RateLimitAssumption DEF WindowIsOver
  <2>. QED
    BY <1>1, <1>3, <1>6, <2>1, <2>3 DEF EntryInv
<1>7. CASE e.count > 0 /\ e.age < Window
  <2>1. /\ OlderEntry(e) \in [count : 0 .. MaxRequests, age : 0 .. Window]
        /\ OlderEntry(e).count = e.count
        /\ OlderEntry(e).age = e.age + 1
    BY <1>1, <1>7, RateLimitAssumption DEF OlderEntry
  <2>2. WindowRuns(e, r)
    BY <1>7 DEF EntryInv
  <2>3. CASE e.age + 1 < Window
    <3>. DEFINE young  == 0 .. e.age
                young2 == 0 .. (e.age + 1)
                old    == (e.age + 1) .. (Window - 1)
                mid    == (e.age + 1) .. (Window - 2)
                old2   == ((e.age + 1) + 1) .. (Window - 1)
    <3>1. /\ young \in SUBSET Age /\ young2 \in SUBSET Age /\ old \in SUBSET Age
          /\ mid \in SUBSET old /\ old2 \in SUBSET Age /\ mid \in SUBSET Age
      BY <1>1, <2>3, RateLimitAssumption DEF Age
    <3>2. Counted(Older(r), young2) = Counted(r, young)
      <4>1. (\A a \in young : a + 1 \in young2) /\ (\A a \in young2 : a = 0 \/ a - 1 \in young)
        BY <1>1
      <4>. HIDE DEF young, young2
      <4>. QED
        BY <1>1, <3>1, <4>1, TickMoves
    <3>3. Counted(Older(r), old2) = Counted(r, mid)
      <4>1. (\A a \in mid : a + 1 \in old2) /\ (\A a \in old2 : a = 0 \/ a - 1 \in mid)
        BY <1>1, RateLimitAssumption
      <4>. HIDE DEF mid, old2
      <4>. QED
        BY <1>1, <3>1, <4>1, TickMoves
    <3>4. IsFiniteSet(Requests(r, old))
      BY <1>1, <1>2, <3>1, FewerAges
    <3>5. Counted(r, mid) <= Counted(r, old) /\ Counted(r, mid) \in Nat /\ Counted(r, old) \in Nat
      BY <1>1, <3>1, <3>4, FewerAges
    <3>6. Older(r)[e.age + 1] = r[e.age]
      BY <1>1, <2>3, RateLimitAssumption DEF Older, Age
    <3>7. WindowRuns(OlderEntry(e), Older(r))
      BY <2>1, <2>2, <3>2, <3>3, <3>5, <3>6, RateLimitAssumption DEF WindowRuns
    <3>. QED
      BY <1>1, <1>3, <1>7, <2>1, <2>3, <3>7 DEF EntryInv
  <2>4. CASE e.age + 1 = Window
    <3>1. e.age = Window - 1 /\ 0 .. e.age = Age
      BY <1>1, <2>4 DEF Age
    <3>2. Counted(r, Age) = e.count /\ r[Window - 1] > 0
      BY <2>2, <3>1 DEF WindowRuns
    <3>3. Counted(r, kept) < Counted(r, Age)
      <4>1. <<Window - 1, 1>> \in Requests(r, Age)
        <5>1. 1 \in 1 .. r[Window - 1] /\ Window - 1 \in Age
          BY <1>1, <3>2, RateLimitAssumption DEF CountType, Age
        <5>. QED
          BY <1>1, <1>2, <5>1, RequestIsPair
      <4>2. <<Window - 1, 1>> \notin Requests(r, kept)
        BY <1>1, <1>2, RateLimitAssumption, RequestIsPair
      <4>3. Requests(r, kept) \in SUBSET Requests(r, Age)
        BY <1>2 DEF Requests
      <4>4. Cardinality(Requests(r, kept)) # Cardinality(Requests(r, Age))
        BY <1>1, <4>1, <4>2, <4>3, FS_Subset
      <4>. QED
        BY <1>5, <4>4 DEF Counted
    <3>4. WindowIsOver(Older(r))
      BY <1>1, <1>3, <1>4, <1>5, <3>2, <3>3, RateLimitAssumption DEF WindowIsOver
    <3>. QED
      BY <1>3, <1>7, <2>1, <2>4, <3>4 DEF EntryInv
  <2>. QED
    BY <1>1, <1>7, <2>3, <2>4, RateLimitAssumption
<1>. QED
  BY <1>1, <1>6, <1>7, RateLimitAssumption

\* What the invariant says of an id is what the limit promises.
LEMMA EntryLimits ==
  ASSUME NEW e, NEW r, EntryInv(e, r)
  PROVE  /\ Counted(r, Age) <= 2 * MaxRequests - 1
         /\ LiveEntry(e).count >= MaxRequests => Counted(r, Age) >= MaxRequests
<1>. DEFINE young == 0 .. e.age
            old   == (e.age + 1) .. (Window - 1)
<1>1. /\ e.count \in 0 .. MaxRequests /\ e.age \in 0 .. Window
      /\ r \in CountType /\ IsFiniteSet(Requests(r, Age)) /\ Age \in SUBSET Age
  BY DEF EntryInv
<1>2. Counted(r, Age) \in Nat
  BY <1>1, FewerAges
<1>3. CASE e.count > 0 /\ e.age < Window
  <2>1. young \in SUBSET Age /\ old \in SUBSET Age /\ young \cup old = Age
    BY <1>1, <1>3, RateLimitAssumption DEF Age
  <2>2. Counted(r, young) = e.count /\ Counted(r, old) < MaxRequests
    BY <1>3 DEF EntryInv, WindowRuns
  <2>3. Counted(r, young) <= Counted(r, Age) /\ Counted(r, old) \in Nat
    <3>. HIDE DEF young, old
    <3>. QED
      BY <1>1, <2>1, FewerAges
  <2>4. Counted(r, Age) <= Counted(r, young) + Counted(r, old)
    BY <1>1, <2>1, AgesTogether
  <2>5. LiveEntry(e) = e
    BY <1>3 DEF LiveEntry
  <2>. QED
    BY <1>1, <1>2, <2>2, <2>3, <2>4, <2>5, RateLimitAssumption
<1>4. CASE e.count = 0 \/ e.age = Window
  <2>1. Counted(r, Age) < MaxRequests
    BY <1>4 DEF EntryInv, WindowIsOver
  <2>2. LiveEntry(e).count = 0
    BY <1>1, <1>4 DEF LiveEntry, NoEntry
  <2>. QED
    BY <1>2, <2>1, <2>2, RateLimitAssumption
<1>. QED
  BY <1>1, <1>3, <1>4, RateLimitAssumption

-----------------------------------------------------------------------------
(* The invariant of the limiter *)

LEMMA LiveIsLive ==
  ASSUME LimitInv, NEW i \in Id
  PROVE  Live[i] = LiveEntry(limiter[i])
BY DEF Live, LiveEntry

\* Every step of the limiter keeps its invariant.
LEMMA LimitSteps ==
  ASSUME LimitInv, \/ \E i \in Id : Admit(i) \/ Refuse(i)
                   \/ Tick
                   \/ UNCHANGED limitVars
  PROVE  LimitInv'
<1>1. \A i \in Id : limiter[i] \in [count : 0 .. MaxRequests, age : 0 .. Window]
                    /\ recent[i] \in CountType /\ EntryInv(limiter[i], recent[i])
  BY DEF LimitInv
<1>2. \A i \in Id : EntryInv(Live[i], recent[i]) /\ Live[i].age < Window
  BY <1>1, LiveKeeps, LiveIsLive
<1>3. Live = [i \in Id |-> Live[i]] /\ recent = [i \in Id |-> recent[i]]
  BY DEF Live, LimitInv
<1>4. ASSUME NEW i \in Id, Admit(i)
      PROVE  LimitInv'
  <2>1. limiter' = [Live EXCEPT ![i] = OneMore(Live[i])]
    BY <1>3, <1>4 DEF Admit, OneMore
  <2>2. recent' = [recent EXCEPT ![i] = OneNow(recent[i])]
    BY <1>3, <1>4 DEF Admit, Note, OneNow
  <2>3. Live[i].count < MaxRequests
    BY <1>4 DEF Admit
  <2>4. EntryInv(OneMore(Live[i]), OneNow(recent[i]))
    BY <1>2, <2>3, AdmitKeeps
  <2>5. \A j \in Id : EntryInv(limiter'[j], recent'[j])
    BY <1>2, <1>3, <2>1, <2>2, <2>4
  <2>. QED
    BY <1>3, <2>1, <2>2, <2>5 DEF LimitInv, EntryInv
<1>5. ASSUME NEW i \in Id, Refuse(i)
      PROVE  LimitInv'
  BY <1>2, <1>3, <1>5 DEF Refuse, LimitInv, EntryInv
<1>6. CASE Tick
  <2>1. limiter' = [i \in Id |-> OlderEntry(limiter[i])]
    BY <1>6 DEF Tick, OlderEntry
  <2>2. recent' = [i \in Id |-> Older(recent[i])]
    BY <1>6 DEF Tick, Older
  <2>3. \A i \in Id : EntryInv(OlderEntry(limiter[i]), Older(recent[i]))
    BY <1>1, TickKeeps
  <2>. QED
    BY <2>1, <2>2, <2>3 DEF LimitInv, EntryInv
<1>7. CASE UNCHANGED limitVars
  BY <1>7 DEF limitVars, LimitInv, EntryInv, WindowRuns, WindowIsOver, Counted
<1>. QED
  BY <1>4, <1>5, <1>6, <1>7

\* The rate limit holds whatever is asked under whichever id, and whatever the limit and
\* the window are: fewer than twice the limit pass in any time of a window's length, and
\* nobody is refused who made fewer requests than the limit.
THEOREM TheLimitHolds == DeskSpec => []LimitHolds
<1>1. DeskInit => LimitInv
  <2>. SUFFICES ASSUME DeskInit PROVE LimitInv
    OBVIOUS
  <2>1. /\ limiter = [i \in Id |-> NoEntry]
        /\ recent = [i \in Id |-> [a \in Age |-> 0]]
    BY DEF DeskInit, LimitInit
  <2>2. \A i \in Id : EntryInv(limiter[i], recent[i])
    BY <2>1, FreshEntry
  <2>. QED
    BY <2>1, <2>2, FreshEntry DEF LimitInv, EntryInv
<1>2. LimitInv /\ [DeskNext]_deskVars => LimitInv'
  <2>. SUFFICES ASSUME LimitInv, [DeskNext]_deskVars PROVE LimitInv'
    OBVIOUS
  <2>1. CASE Restart
    <3>1. /\ limiter' = [i \in Id |-> NoEntry]
          /\ recent' = [i \in Id |-> [a \in Age |-> 0]]
      BY <2>1 DEF Restart
    <3>2. \A i \in Id : EntryInv(limiter'[i], recent'[i])
      BY <3>1, FreshEntry
    <3>. QED
      BY <3>1, <3>2, FreshEntry DEF LimitInv, EntryInv
  <2>2. CASE \/ \E i \in Id : Admit(i) \/ Refuse(i)
             \/ Tick
             \/ UNCHANGED limitVars
    BY <2>2, LimitSteps
  <2>. QED
    BY <2>1, <2>2 DEF DeskNext, AskNamed, AskUnnamed, Read, Leave, Refused, Elapse, Monitor,
                      deskVars, limitVars
<1>3. LimitInv => LimitHolds
  BY EntryLimits, LiveIsLive DEF LimitInv, LimitHolds, Admitted, Full, Counted
<1>. QED
  BY <1>1, <1>2, <1>3, PTL DEF DeskSpec

-----------------------------------------------------------------------------
(* Callers *)

\* Whoever awaits deposits, and however the rate limit treats him, the monitor does what
\* it does alone: all that is proved of it holds with callers around it.
THEOREM CallersLeaveItAlone == DeskSpec => Spec
<1>1. DeskInit => Init
  BY DEF DeskInit
<1>2. [DeskNext]_deskVars => [Next]_vars
  <2>. SUFFICES ASSUME [DeskNext]_deskVars PROVE [Next]_vars
    OBVIOUS
  <2>1. CASE \/ \E i \in Id, o \in Op : AskNamed(i, o)
             \/ \E o \in Op : AskUnnamed(o) \/ Read(o) \/ Leave(o)
             \/ \E i \in Id : Refused(i)
             \/ Elapse
             \/ UNCHANGED deskVars
    BY <2>1 DEF AskNamed, AskUnnamed, Read, Leave, Refused, Elapse, deskVars
  <2>2. CASE Monitor \/ Restart
    BY <2>2 DEF Monitor, Restart, Next
  <2>. QED
    BY <2>1, <2>2 DEF DeskNext
<1>. QED
  BY <1>1, <1>2, PTL DEF DeskSpec, Spec

\* With callers around it the monitor keeps the promise of SettlementReporting.
THEOREM DeskReports == DeskSpec => ImplementsReporting
BY CallersLeaveItAlone, Refinement, PTL

-----------------------------------------------------------------------------
(* What a caller is told *)

\* A client says nothing more of a deposit once it has ended.
EndIsLast ==
  \A o \in Op : \A k \in DOMAIN history[o] : history[o][k] \in Terminal => k = Len(history[o])

\* A request that still waits has read no end: if its deposit has one, an update is left
\* for it to read.
AskInv ==
  /\ asking \in [Op -> {"none", "rejected", "waiting", "told", "refused"}]
  /\ heard \in [Op -> Nat]
  /\ \A o \in Op : asking[o] = "waiting" =>
       /\ heard[o] <= Len(history[o])
       /\ Ended(o) => heard[o] < Len(history[o])

DeskInv == Inv /\ EndIsLast /\ AskInv /\ AnswersAreTrue

\* What the monitor's steps do to the history of a deposit.
LEMMA HistorySteps ==
  ASSUME Inv, [Next]_vars
  PROVE  \/ history' = history
         \/ \E o \in Op, u \in Update : Settle(o, u)
         \/ \E o \in Op : CreateAddress(o)
BY DEF Next, Step, PollStep, CacheOutcome, Forward, Expire, CheckLimit, InsertDeposit, PollIdle,
       PollBegin, BeginFederation, Subscribe, SubscribeFails, TryReceive, EndFederation, Publish,
       PollEnd, Crash, vars, clientVars

\* Nothing a client said is unsaid, and what it adds is the end if it is one.
LEMMA HistoryGrows ==
  ASSUME Inv, EndIsLast, [Next]_vars
  PROVE  /\ EndIsLast'
         /\ \A o \in Op : /\ Seen(o) \subseteq Seen(o)'
                          /\ \/ history'[o] = history[o]
                             \/ /\ Len(history[o]) < Len(history'[o])
                                /\ Len(history[o]) \in Nat /\ Len(history'[o]) \in Nat
<1>1. \A o \in Op : history[o] \in Seq(Update) /\ Len(history[o]) \in Nat
                    /\ DOMAIN history[o] = 1 .. Len(history[o])
  BY DEF Inv, TypeOK
<1>2. CASE history' = history
  BY <1>2 DEF EndIsLast, Seen
<1>3. ASSUME NEW o \in Op, NEW u \in Update, Settle(o, u)
      PROVE  /\ EndIsLast'
             /\ \A p \in Op : /\ Seen(p) \subseteq Seen(p)'
                              /\ \/ history'[p] = history[p]
                                 \/ /\ Len(history[p]) < Len(history'[p])
                                    /\ Len(history[p]) \in Nat /\ Len(history'[p]) \in Nat
  <2>. DEFINE s == history[o]
              t == Append(s, u)
  <2>1. /\ history' = [history EXCEPT ![o] = t]
        /\ ~Ended(o)
    BY <1>3 DEF Settle
  <2>2. history'[o] = t /\ \A p \in Op \ {o} : history'[p] = history[p]
    BY <2>1 DEF Inv, TypeOK
  <2>3. /\ Len(t) = Len(s) + 1
        /\ DOMAIN t = 1 .. (Len(s) + 1)
        /\ \A k \in 1 .. Len(s) : t[k] = s[k]
    BY <1>1
  <2>4. \A k \in DOMAIN s : s[k] \notin Terminal
    BY <2>1 DEF Ended, Seen
  <2>5. \A k \in DOMAIN t : t[k] \in Terminal => k = Len(t)
    BY <1>1, <2>3, <2>4
  <2>6. EndIsLast'
    BY <2>2, <2>5 DEF EndIsLast
  <2>7. \A p \in Op : Seen(p) \subseteq Seen(p)'
    BY <1>3, SettleInv
  <2>. QED
    BY <1>1, <2>2, <2>3, <2>6, <2>7
<1>4. ASSUME NEW o \in Op, CreateAddress(o)
      PROVE  /\ EndIsLast'
             /\ \A p \in Op : /\ Seen(p) \subseteq Seen(p)'
                              /\ \/ history'[p] = history[p]
                                 \/ /\ Len(history[p]) < Len(history'[p])
                                    /\ Len(history[p]) \in Nat /\ Len(history'[p]) \in Nat
  <2>1. history[o] = <<>> /\ history' = [history EXCEPT ![o] = <<"waiting">>]
    BY <1>4 DEF CreateAddress, Inv, RequestInv
  <2>2. history'[o] = <<"waiting">> /\ \A p \in Op \ {o} : history'[p] = history[p]
    BY <2>1 DEF Inv, TypeOK
  <2>3. EndIsLast'
    BY <2>2 DEF EndIsLast, Terminal
  <2>4. \A p \in Op : Seen(p) \subseteq Seen(p)'
    BY <2>1, <2>2 DEF Seen
  <2>. QED
    BY <2>1, <2>2, <2>3, <2>4
<1>. QED
  BY <1>2, <1>3, <1>4, HistorySteps

\* The monitor goes on beneath who waits.
LEMMA MonitorKeepsAnswers ==
  ASSUME DeskInv, [Next]_vars, UNCHANGED askVars
  PROVE  DeskInv'
<1>1. Inv'
  BY NextInv DEF DeskInv
<1>2. /\ EndIsLast'
      /\ \A o \in Op : /\ Seen(o) \subseteq Seen(o)'
                       /\ \/ history'[o] = history[o]
                          \/ /\ Len(history[o]) < Len(history'[o])
                             /\ Len(history[o]) \in Nat /\ Len(history'[o]) \in Nat
  BY HistoryGrows DEF DeskInv
<1>3. AskInv'
  <2>1. \A o \in Op : heard[o] \in Nat
    BY DEF DeskInv, AskInv
  <2>2. ASSUME NEW o \in Op, asking[o] = "waiting"
        PROVE  heard[o] <= Len(history'[o]) /\ (Ended(o)' => heard[o] < Len(history'[o]))
    <3>1. CASE history'[o] = history[o]
      BY <2>2, <3>1 DEF DeskInv, AskInv, Ended, Seen
    <3>2. CASE /\ Len(history[o]) < Len(history'[o])
               /\ Len(history[o]) \in Nat /\ Len(history'[o]) \in Nat
      BY <2>1, <2>2, <3>2 DEF DeskInv, AskInv
    <3>. QED
      BY <1>2, <3>1, <3>2
  <2>. QED
    BY <2>2 DEF DeskInv, AskInv, askVars
<1>4. AnswersAreTrue'
  BY <1>2 DEF DeskInv, AnswersAreTrue, askVars
<1>. QED
  BY <1>1, <1>2, <1>3, <1>4 DEF DeskInv

\* A request begins before the end, or gets no stream at all, reads on, is answered by
\* what it reads, or goes.
LEMMA CallerKeepsAnswers ==
  ASSUME DeskInv, UNCHANGED vars, NEW o \in Op, Ask(o) \/ Reject(o) \/ Hear(o) \/ StopAsking(o)
  PROVE  DeskInv'
<1>1. Inv' /\ EndIsLast' /\ history' = history /\ \A p \in Op : Seen(p)' = Seen(p)
  <2>1. Inv' /\ EndIsLast'
    BY NextInv, HistoryGrows DEF DeskInv
  <2>2. history' = history
    BY DEF vars, clientVars
  <2>. QED
    BY <2>1, <2>2 DEF Seen
<1>2. /\ asking \in [Op -> {"none", "rejected", "waiting", "told", "refused"}]
      /\ heard \in [Op -> Nat]
      /\ history[o] \in Seq(Update) /\ Len(history[o]) \in Nat
      /\ DOMAIN history[o] = 1 .. Len(history[o])
  BY DEF DeskInv, AskInv, Inv, TypeOK
<1>3. ASSUME /\ asking' \in [Op -> {"none", "rejected", "waiting", "told", "refused"}]
             /\ heard' \in [Op -> Nat]
             /\ \A p \in Op \ {o} : asking'[p] = asking[p] /\ heard'[p] = heard[p]
             /\ asking'[o] = "waiting" => /\ heard'[o] <= Len(history[o])
                                          /\ Ended(o) => heard'[o] < Len(history[o])
             /\ asking'[o] = "told" => "confirmed" \in Seen(o)
             /\ asking'[o] = "refused" => "failed" \in Seen(o)
      PROVE  DeskInv'
  BY <1>1, <1>3 DEF DeskInv, AskInv, AnswersAreTrue, Ended
<1>4. CASE Ask(o)
  <2>1. /\ asking' = [asking EXCEPT ![o] = "waiting"]
        /\ heard' = [heard EXCEPT ![o] = IF o \in outcome THEN Len(history[o]) - 1 ELSE 0]
        /\ Len(history[o]) > 0
    BY <1>2, <1>4 DEF Ask
  <2>. QED
    BY <1>2, <1>3, <2>1
<1>5. CASE Reject(o) \/ StopAsking(o)
  BY <1>2, <1>3, <1>5 DEF Reject, StopAsking
<1>6. CASE Hear(o)
  <2>1. /\ asking[o] = "waiting" /\ heard[o] \in Nat /\ heard[o] <= Len(history[o])
        /\ Ended(o) => heard[o] < Len(history[o])
    BY <1>2, <1>6 DEF Hear, DeskInv, AskInv
  <2>2. heard[o] < Len(history[o])
    BY <1>6, <2>1 DEF Hear
  <2>. DEFINE k == heard[o] + 1
              u == history[o][k]
  <2>3. k \in DOMAIN history[o] /\ u \in Update /\ u \in Seen(o) /\ k \in Nat
    BY <1>2, <2>1, <2>2 DEF Seen
  <2>4. heard' = [heard EXCEPT ![o] = k] /\ asking' = [asking EXCEPT ![o] = Answer(u)]
    BY <1>2, <1>6, <2>2 DEF Hear
  <2>5. /\ u \in {"confirmed", "claimed"} => Answer(u) = "told"
        /\ u = "failed" => Answer(u) = "refused"
        /\ u = "waiting" => Answer(u) = "waiting"
    BY DEF Answer
  <2>6. u \in {"confirmed", "claimed"} => "confirmed" \in Seen(o)
    BY <2>3 DEF DeskInv, Inv, HistoryInv
  <2>7. u = "waiting" /\ Ended(o) => k < Len(history[o])
    <3>1. ASSUME u = "waiting", Ended(o), k = Len(history[o])
          PROVE  FALSE
      <4>1. PICK m \in DOMAIN history[o] : history[o][m] \in Terminal
        BY <3>1 DEF Ended, Seen
      <4>2. m = Len(history[o])
        BY <4>1 DEF DeskInv, EndIsLast
      <4>. QED
        BY <3>1, <4>1, <4>2 DEF Terminal
    <3>. QED
      BY <1>2, <2>3, <3>1
  <2>8. u \in {"waiting", "confirmed", "claimed", "failed"}
    BY <2>3 DEF Update
  <2>. HIDE DEF k, u
  <2>9. /\ asking' \in [Op -> {"none", "rejected", "waiting", "told", "refused"}]
        /\ heard' \in [Op -> Nat]
        /\ asking'[o] = Answer(u) /\ heard'[o] = k
        /\ \A p \in Op \ {o} : asking'[p] = asking[p] /\ heard'[p] = heard[p]
    BY <1>2, <2>3, <2>4, <2>5, <2>8
  <2>10. k <= Len(history[o])
    BY <1>2, <2>3
  <2>. QED
    BY <1>3, <2>3, <2>5, <2>6, <2>7, <2>8, <2>9, <2>10
<1>. QED
  BY <1>4, <1>5, <1>6

\* Whoever asks how often under whichever id, and whether he reads all updates or the
\* cached outcome alone, an answer to await-deposit is true: whoever is told of a deposit
\* asked after, or while, it was confirmed, and whoever is refused after he got a stream
\* asked for one that failed.  A request that gets no stream (Reject) is not answered but
\* ends with an error, whatever became of the deposit.
THEOREM CallersAreToldTheTruth == DeskSpec => []AnswersAreTrue
<1>1. DeskInit => DeskInv
  <2>1. DeskInit => Inv
    BY InitInv DEF DeskInit
  <2>2. DeskInit => EndIsLast /\ AskInv /\ AnswersAreTrue
    BY DEF DeskInit, Init, EndIsLast, AskInv, AnswersAreTrue
  <2>. QED
    BY <2>1, <2>2 DEF DeskInv
<1>2. DeskInv /\ [DeskNext]_deskVars => DeskInv'
  <2>. SUFFICES ASSUME DeskInv, [DeskNext]_deskVars PROVE DeskInv'
    OBVIOUS
  <2>1. CASE \E o \in Op : UNCHANGED vars /\ (Ask(o) \/ Reject(o) \/ Hear(o) \/ StopAsking(o))
    BY <2>1, CallerKeepsAnswers
  <2>2. CASE [Next]_vars /\ UNCHANGED askVars
    BY <2>2, MonitorKeepsAnswers
  <2>3. CASE Restart
    <3>1. Inv' /\ EndIsLast'
      <4>1. [Next]_vars
        BY <2>3 DEF Restart, Next
      <4>. QED
        BY <4>1, NextInv, HistoryGrows DEF DeskInv
    <3>2. AskInv' /\ AnswersAreTrue'
      BY <2>3 DEF Restart, AskInv, AnswersAreTrue
    <3>. QED
      BY <3>1, <3>2 DEF DeskInv
  <2>. QED
    BY <2>1, <2>2, <2>3 DEF DeskNext, AskNamed, AskUnnamed, Read, Leave, Refused, Elapse, Monitor,
                            Next, deskVars
<1>3. DeskInv => AnswersAreTrue
  BY DEF DeskInv
<1>. QED
  BY <1>1, <1>2, <1>3, PTL DEF DeskSpec
=============================================================================
