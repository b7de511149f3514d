------------------------- MODULE FinalResponseProof -------------------------
(***************************************************************************)
(* AnsweredIsFiled, LatestSound and HistoryImmutable for any number of     *)
(* jobs, turns, attempts and failed writes and any cache size, when a job  *)
(* has one session: the in-flight key then lets one task of a job run at a *)
(* time.                                                                   *)
(***************************************************************************)
EXTENDS FinalResponse, TLAPS, FiniteSetTheorems, FunctionTheorems, WellFoundedInduction

\* a job has one session
OneSession == \A s, t \in Sessions : s = t

\* The key of a job keeps out a second task of it, and so does a native session,
\* which waits for its publication.
OneTask ==
    /\ \A k, l \in tasks : k.job = l.job => k = l
    /\ \A k \in tasks : k.job \notin Native =>
          k.session \in Sessions /\ <<k.job, k.session>> \in in_flight

\* A file's number is smaller than the turn that wrote it, so there is a number left
\* for every turn.
NumbersLeft ==
    /\ \A j \in Jobs, n \in Numbers : history[j][n] # 0 => n < turns
    /\ \A k \in tasks : k.turn >= 1 /\ k.turn <= turns
    /\ \A k \in tasks : k.pc \in {"read", "number"} =>
          \A n \in Numbers : history[k.job][n] # 0 => n + 1 < k.turn
    /\ \A k \in tasks : k.pc = "history" => k.n < k.turn

\* What a task has written so far is what it holds, and it holds a text.
Written(k) ==
    /\ k.pc \in {"number", "history", "current", "index", "done", "put_ok"} => k.text # 0
    /\ k.job \notin blind =>
          /\ k.pc = "history" => history[k.job][k.n] = 0
          /\ k.pc \in {"current", "index", "done"} => history[k.job][k.n] = k.text
          /\ k.pc = "done" => \E i \in DOMAIN index[k.job] : index[k.job][i] = k.n
    /\ k.pc \in {"index", "done", "put_ok"} => current[k.job] = k.text

TasksWritten == \A k \in tasks : Written(k)

\* Every announced response is filed, with a text.
EventsFiled ==
    \A i \in DOMAIN published :
        /\ published[i].job \in Jobs /\ published[i].turn >= 1
        /\ published[i].ok => published[i].text # 0
        /\ published[i].ok /\ published[i].job \notin blind =>
              \E m \in DOMAIN index[published[i].job] :
                  history[published[i].job][index[published[i].job][m]] = published[i].text

\* The cache disagrees with final-response.md only while a task that wrote it runs.
CurrentKnown ==
    \A j \in Jobs : map[j].ok /\ map[j].text # current[j] =>
        \E k \in tasks : k.job = j /\ k.pc \in {"index", "done", "failed", "put_ok", "put_failed"}

\* a sequence names nothing twice
Distinct(s) == \A a, b \in DOMAIN s : s[a] = s[b] => a = b

Holds(s, x) == \E a \in DOMAIN s : s[a] = x

\* Queue and map of the cache name the same jobs, each once, at most Cap.
CacheSound ==
    /\ Len(order) <= Cap
    /\ Distinct(order)
    /\ \A j \in Jobs : map[j] # NoEvent <=> Holds(order, j)

Putting(j, k) == k.job = j /\ k.pc \in {"put_ok", "put_failed"}

\* The last event of a job is the one its task is about to cache, or cached, or it
\* was evicted by a full cache.
LastCached ==
    \A i \in DOMAIN published :
        LET e == published[i] IN
        (\A m \in DOMAIN published : m > i => published[m].job # e.job) =>
            /\ \A k \in tasks : Putting(e.job, k) => e = Event(k, k.pc = "put_ok")
            /\ (\A k \in tasks : ~Putting(e.job, k)) =>
                  \/ map[e.job] = e
                  \/ map[e.job] = NoEvent /\ Len(order) = Cap

CaptureInv ==
    /\ TypeOK /\ OneTask /\ NumbersLeft /\ TasksWritten /\ EventsFiled /\ CurrentKnown
    /\ CacheSound /\ LastCached

-----------------------------------------------------------------------------
(* The numbers and the queue *)

\* A non-empty set of naturals has a least element.
LEMMA LeastNatural ==
    ASSUME NEW T \in SUBSET Nat, T # {}
    PROVE  \E x \in T : \A y \in T : x <= y
<1>. DEFINE R == OpToRel(<, Nat)
<1>1. \A x, y \in Nat : y < x => <<y, x>> \in R
  BY DEF OpToRel
<1>2. IsWellFoundedOn(R, Nat)
  BY NatLessThanWellFounded
<1>. HIDE DEF R
<1>3. \E x \in T : \A y \in T : ~(<<y, x>> \in R)
  BY <1>2, WFMin
<1>4. PICK x \in T : \A y \in T : ~(<<y, x>> \in R)
  BY <1>3
<1>5. \A y \in T : ~(y < x)
  BY <1>1, <1>4
<1>. QED BY <1>4, <1>5

\* A bounded set of naturals has a greatest one.
LEMMA GreatestNatural ==
    ASSUME NEW S \in SUBSET Nat, S # {}, NEW b \in Nat, \A x \in S : x <= b
    PROVE  \E n \in S : \A x \in S : x <= n
<1>. DEFINE U == {n \in Nat : \A x \in S : x <= n}
<1>1. U \in SUBSET Nat /\ U # {}
  OBVIOUS
<1>2. PICK n \in U : \A y \in U : n <= y
  <2>. HIDE DEF U
  <2>. QED BY <1>1, LeastNatural
<1>3. n \in Nat /\ \A x \in S : x <= n
  OBVIOUS
<1>4. n \in S
  <2>1. SUFFICES ASSUME n \notin S PROVE FALSE
    OBVIOUS
  <2>2. PICK x \in S : TRUE
    OBVIOUS
  <2>3. \A y \in S : y < n
    BY <1>3, <2>1
  <2>4. n - 1 \in U
    BY <1>3, <2>2, <2>3
  <2>. QED BY <1>2, <1>3, <2>4
<1>. QED BY <1>3, <1>4

\* next_turn_index is larger than every number in use, and than one of them only.
LEMMA NextIndex ==
    ASSUME TypeOK, NEW j \in Jobs, NEW b \in Numbers, b >= 1,
           \A n \in Numbers : history[j][n] # 0 => n + 1 < b
    PROVE  /\ NextTurnIndex(j) \in Numbers /\ NextTurnIndex(j) < b
           /\ history[j][NextTurnIndex(j)] = 0
<1>. DEFINE used == {n \in Numbers : history[j][n] # 0}
<1>0. MaxTurns \in Nat /\ b \in Nat /\ b <= MaxTurns /\ Numbers = 0 .. MaxTurns
  BY CaptureConstants DEF Numbers
<1>1. CASE used = {}
  <2>1. \A n \in Numbers : history[j][n] = 0
    BY <1>1
  <2>2. NextTurnIndex(j) = 0
    BY <2>1 DEF NextTurnIndex
  <2>. QED BY <1>0, <2>1, <2>2
<1>2. CASE used # {}
  <2>1. used \in SUBSET Nat /\ \A x \in used : x <= MaxTurns
    BY <1>0
  <2>2. PICK n \in used : \A x \in used : x <= n
    <3>. HIDE DEF used
    <3>. QED BY <1>0, <1>2, <2>1, GreatestNatural
  <2>3. n \in Nat /\ n + 1 < b /\ history[j][n] # 0 /\ n + 1 \in 1 .. MaxTurns
    BY <1>0, <2>2
  <2>4. \A m \in Numbers : history[j][m] # 0 => m < n + 1
    BY <1>0, <2>2, <2>3
  <2>5. \E i \in 1 .. MaxTurns : /\ history[j][i - 1] # 0
                                 /\ \A m \in Numbers : history[j][m] # 0 => m < i
    <3>1. (n + 1) - 1 = n
      BY <2>3
    <3>. QED BY <2>3, <2>4, <3>1
  <2>. DEFINE next == CHOOSE i \in 1 .. MaxTurns :
                          /\ history[j][i - 1] # 0
                          /\ \A m \in Numbers : history[j][m] # 0 => m < i
  <2>6. NextTurnIndex(j) = next
    BY <1>2 DEF NextTurnIndex
  <2>7. /\ next \in 1 .. MaxTurns /\ history[j][next - 1] # 0
        /\ \A m \in Numbers : history[j][m] # 0 => m < next
    BY <2>5
  <2>. HIDE DEF next
  <2>8. next \in Numbers /\ next - 1 \in Numbers
    BY <1>0, <2>7
  <2>9. next < b
    BY <1>0, <2>7, <2>8
  <2>10. history[j][next] = 0
    BY <1>0, <2>7, <2>8
  <2>. QED BY <2>6, <2>8, <2>9, <2>10
<1>. QED BY <1>1, <1>2

\* f[n] is what retain leaves of the first n.
Leaves(f, s, j, m) ==
    f = [n \in 0 .. m |-> IF n = 0 THEN <<>>
                          ELSE IF s[n] = j THEN f[n - 1] ELSE Append(f[n - 1], s[n])]

\* The recursion of retain defines a function.
LEMMA LeavesExists ==
    ASSUME NEW s, NEW j
    PROVE  \A m \in Nat : \E f : Leaves(f, s, j, m)
<1>. DEFINE odd == {m \in Nat : ~ \E f : Leaves(f, s, j, m)}
<1>. SUFFICES ASSUME odd # {} PROVE FALSE
  OBVIOUS
<1>1. PICK m \in odd : \A k \in odd : m <= k
  <2>1. odd \in SUBSET Nat
    OBVIOUS
  <2>. HIDE DEF odd
  <2>. QED BY <2>1, LeastNatural
<1>2. m # 0
  <2>1. Leaves([n \in 0 .. 0 |-> <<>>], s, j, 0)
    BY DEF Leaves
  <2>. QED BY <2>1
<1>3. m \in Nat /\ m - 1 \in Nat /\ m - 1 \notin odd
  <2>1. m \in Nat
    OBVIOUS
  <2>. HIDE DEF odd
  <2>. QED BY <1>1, <1>2, <2>1
<1>4. PICK f : Leaves(f, s, j, m - 1)
  BY <1>3
<1>. DEFINE last == IF s[m] = j THEN f[m - 1] ELSE Append(f[m - 1], s[m])
            g == [n \in 0 .. m |-> IF n = m THEN last ELSE f[n]]
            e(n) == IF n = 0 THEN <<>> ELSE IF s[n] = j THEN f[n - 1] ELSE Append(f[n - 1], s[n])
            d(n) == IF n = 0 THEN <<>> ELSE IF s[n] = j THEN g[n - 1] ELSE Append(g[n - 1], s[n])
<1>5. \A n \in 0 .. (m - 1) : f[n] = e(n)
  BY <1>4 DEF Leaves
<1>6. \A n \in 0 .. (m - 1) : g[n] = f[n]
  BY <1>3
<1>7. last = d(m)
  BY <1>2, <1>3, <1>6
<1>8. \A n \in 0 .. (m - 1) : n # 0 => n - 1 \in 0 .. (m - 1)
  BY <1>3
<1>9. \A n \in 0 .. m : g[n] = d(n)
  <2>. SUFFICES ASSUME NEW n \in 0 .. m PROVE g[n] = d(n)
    OBVIOUS
  <2>1. CASE n = m
    BY <2>1, <1>7
  <2>2. CASE n # m
    <3>1. n \in 0 .. (m - 1)
      BY <2>2, <1>3
    <3>2. g[n] = e(n)
      BY <3>1, <1>5, <1>6
    <3>3. n # 0 => g[n - 1] = f[n - 1]
      BY <3>1, <1>6, <1>8
    <3>. HIDE DEF g
    <3>. QED BY <3>2, <3>3
  <2>. QED BY <2>1, <2>2
<1>10. DOMAIN g = 0 .. m /\ g = [n \in 0 .. m |-> g[n]]
  OBVIOUS
<1>11. g = [n \in 0 .. m |-> d(n)]
  <2>. HIDE DEF g, d
  <2>. QED BY <1>9, <1>10
<1>12. Leaves(g, s, j, m)
  <2>. HIDE DEF g
  <2>. QED BY <1>11 DEF Leaves
<1>. QED BY <1>1, <1>12

Left(s, j) == CHOOSE f : Leaves(f, s, j, Len(s))

\* retain takes out one job, keeps the others, and repeats none.
LEMMA WithoutFacts ==
    ASSUME NEW S, NEW s \in Seq(S), NEW j, Distinct(s)
    PROVE  /\ Without(s, j) \in Seq(S)
           /\ Distinct(Without(s, j))
           /\ \A x : Holds(Without(s, j), x) <=> (Holds(s, x) /\ x # j)
<1>0. Len(s) \in Nat /\ DOMAIN s = 1 .. Len(s)
  OBVIOUS
<1>1. PICK f : Leaves(f, s, j, Len(s)) /\ Without(s, j) = f[Len(s)]
  <2>1. \E f : Leaves(f, s, j, Len(s))
    BY <1>0, LeavesExists
  <2>2. Leaves(Left(s, j), s, j, Len(s))
    BY <2>1 DEF Left
  <2>3. Without(s, j) = Left(s, j)[Len(s)]
    BY DEF Without, Left, Leaves
  <2>. QED BY <2>2, <2>3
<1>. DEFINE Good(n) == /\ f[n] \in Seq(S) /\ Distinct(f[n])
                       /\ \A x : Holds(f[n], x) <=> ((\E a \in 1 .. n : s[a] = x) /\ x # j)
            odd == {n \in 0 .. Len(s) : ~Good(n)}
<1>2. ASSUME odd # {} PROVE FALSE
  <2>1. PICK n \in odd : \A k \in odd : n <= k
    <3>1. odd \in SUBSET Nat
      BY <1>0
    <3>. HIDE DEF odd
    <3>. QED BY <1>2, <3>1, LeastNatural
  <2>2. n \in 0 .. Len(s) /\ ~Good(n)
    OBVIOUS
  <2>3. f[0] = <<>>
    BY <1>0, <1>1 DEF Leaves
  <2>4. n # 0
    <3>1. f[0] \in Seq(S) /\ DOMAIN f[0] = {} /\ 1 .. 0 = {}
      BY <2>3
    <3>2. Good(0)
      BY <3>1 DEF Distinct, Holds
    <3>. HIDE DEF Good
    <3>. QED BY <2>2, <3>2
  <2>5. n \in 1 .. Len(s) /\ n - 1 \in 0 .. Len(s) /\ n - 1 \notin odd
    <3>. HIDE DEF odd
    <3>. QED BY <1>0, <2>1, <2>2, <2>4
  <2>6. Good(n - 1)
    BY <2>5
  <2>7. f[n] = IF s[n] = j THEN f[n - 1] ELSE Append(f[n - 1], s[n])
    BY <1>1, <2>2, <2>4 DEF Leaves
  <2>8. \A x : (\E a \in 1 .. n : s[a] = x) <=> ((\E a \in 1 .. n - 1 : s[a] = x) \/ x = s[n])
    BY <1>0, <2>5
  <2>9. CASE s[n] = j
    <3>1. f[n] = f[n - 1]
      BY <2>7, <2>9
    <3>2. Good(n)
      BY <2>6, <2>8, <2>9, <3>1
    <3>. QED BY <2>2, <3>2
  <2>10. CASE s[n] # j
    <3>. DEFINE g == f[n - 1]
    <3>1. f[n] = Append(g, s[n]) /\ g \in Seq(S) /\ s[n] \in S
      BY <1>0, <2>5, <2>6, <2>7, <2>10
    <3>2. Distinct(g) /\ \A x : Holds(g, x) <=> ((\E a \in 1 .. n - 1 : s[a] = x) /\ x # j)
      BY <2>6
    <3>3. ~Holds(g, s[n])
      <4>1. ASSUME NEW a \in 1 .. n - 1, s[a] = s[n] PROVE FALSE
        BY <1>0, <2>5, <4>1 DEF Distinct
      <4>. QED BY <3>2, <4>1
    <3>. HIDE DEF g, Good
    <3>4. /\ f[n] \in Seq(S) /\ DOMAIN f[n] = 1 .. Len(g) + 1 /\ DOMAIN g = 1 .. Len(g)
          /\ \A a \in DOMAIN g : f[n][a] = g[a]
          /\ f[n][Len(g) + 1] = s[n] /\ Len(g) \in Nat
      BY <3>1
    <3>5. Distinct(f[n])
      BY <3>2, <3>3, <3>4 DEF Distinct, Holds
    <3>6. \A x : Holds(f[n], x) <=> (Holds(g, x) \/ x = s[n])
      BY <3>4 DEF Holds
    <3>7. Good(n)
      BY <2>8, <2>10, <3>2, <3>4, <3>5, <3>6 DEF Good
    <3>. QED BY <2>2, <3>7
  <2>. QED BY <2>9, <2>10
<1>3. Good(Len(s))
  <2>. HIDE DEF Good
  <2>. QED BY <1>0, <1>2
<1>. QED BY <1>0, <1>1, <1>3 DEF Holds

\* A sequence that repeats nothing is as long as what it names.
LEMMA DistinctCardinality ==
    ASSUME NEW S, NEW s \in Seq(S), Distinct(s), NEW T, \A x : x \in T <=> Holds(s, x)
    PROVE  IsFiniteSet(T) /\ Cardinality(T) = Len(s)
<1>0. Len(s) \in Nat /\ DOMAIN s = 1 .. Len(s) /\ s = [i \in 1 .. Len(s) |-> s[i]]
  OBVIOUS
<1>1. s \in [1 .. Len(s) -> T]
  <2>1. \A i \in 1 .. Len(s) : s[i] \in T
    BY <1>0 DEF Holds
  <2>. QED BY <1>0, <2>1
<1>2. \A a, b \in 1 .. Len(s) : s[a] = s[b] => a = b
  BY <1>0 DEF Distinct
<1>3. \A x \in T : \E a \in 1 .. Len(s) : s[a] = x
  BY <1>0 DEF Holds
<1>4. s \in Bijection(1 .. Len(s), T)
  BY <1>1, <1>2, <1>3, Fun_IsBij
<1>5. ExistsBijection(1 .. Len(s), T)
  BY <1>4 DEF ExistsBijection
<1>6. IsFiniteSet(1 .. Len(s))
  <2>1. 1 \in Int /\ Len(s) \in Int
    OBVIOUS
  <2>. QED BY <2>1, FS_Interval
<1>. QED BY <1>0, <1>5, <1>6, FS_CountingElements, FS_Bijection

\* put keeps the queue within Cap and without repetition; what it evicts leaves the
\* queue full.
LEMMA OrderFacts ==
    ASSUME TypeOK, CacheSound, NEW j \in Jobs
    PROVE  LET o == OrderAfter(j) IN
           /\ o \in Seq(Jobs) /\ Len(o) <= Cap /\ Distinct(o) /\ Holds(o, j)
           /\ \A x : Holds(o, x) => x = j \/ Holds(order, x)
           /\ \A x : Holds(order, x) /\ ~Holds(o, x) => Len(o) = Cap
           /\ Len(order) = Cap => Len(o) = Cap
<1>0. order \in Seq(Jobs) /\ Cap \in Nat /\ Cap >= 1 /\ Len(order) \in Nat /\ Len(order) <= Cap
  BY CaptureConstants DEF TypeOK, CacheSound
<1>1. CASE map[j] = NoEvent
  <2>. DEFINE o == Append(order, j)
  <2>1. ~Holds(order, j) /\ Distinct(order)
    BY <1>1 DEF CacheSound
  <2>2. /\ o \in Seq(Jobs) /\ Len(o) \in Nat /\ Len(o) = Len(order) + 1
        /\ DOMAIN o = 1 .. Len(order) + 1 /\ DOMAIN order = 1 .. Len(order)
        /\ \A a \in DOMAIN order : o[a] = order[a]
        /\ o[Len(order) + 1] = j
    BY <1>0
  <2>3. OrderAfter(j) = IF Len(o) > Cap THEN Tail(o) ELSE o
    BY <1>1 DEF OrderAfter
  <2>. HIDE DEF o
  <2>4. Distinct(o)
    BY <1>0, <2>1, <2>2 DEF Distinct, Holds
  <2>5. Len(order) + 1 \in DOMAIN o /\ \A a \in DOMAIN o : a \in DOMAIN order \/ a = Len(order) + 1
    BY <1>0, <2>2
  <2>6. \A x : Holds(o, x) <=> (Holds(order, x) \/ x = j)
    BY <2>2, <2>5 DEF Holds
  <2>7. CASE Len(o) > Cap
    <3>0. Len(order) = Cap
      <4>1. \A n, c, l \in Nat : l = n + 1 /\ l > c /\ n <= c => n = c
        OBVIOUS
      <4>. QED BY <1>0, <2>2, <2>7, <4>1
    <3>1. Len(order) = Cap /\ OrderAfter(j) = Tail(o)
      BY <2>3, <2>7, <3>0
    <3>2. /\ Tail(o) \in Seq(Jobs) /\ Len(Tail(o)) = Cap
          /\ DOMAIN Tail(o) = 1 .. Cap
          /\ \A a \in 1 .. Cap : Tail(o)[a] = o[a + 1] /\ a + 1 \in DOMAIN o
      BY <1>0, <2>2, <3>1
    <3>. DEFINE q == Tail(o)
    <3>. HIDE DEF q
    <3>3. Distinct(q)
      BY <1>0, <2>4, <3>2 DEF Distinct, q
    <3>4. Holds(q, j)
      <4>1. Cap \in 1 .. Cap /\ q[Cap] = j
        BY <1>0, <2>2, <3>1, <3>2 DEF q
      <4>. QED BY <3>2, <4>1 DEF Holds, q
    <3>5. \A x : Holds(q, x) => Holds(o, x)
      BY <3>2 DEF Holds, q
    <3>. QED BY <1>0, <2>6, <3>1, <3>2, <3>3, <3>4, <3>5 DEF q
  <2>8. CASE ~(Len(o) > Cap)
    <3>1. OrderAfter(j) = o
      BY <2>3, <2>8
    <3>2. Len(o) <= Cap /\ Len(order) # Cap
      <4>1. \A n, c, l \in Nat : l = n + 1 /\ ~(l > c) => l <= c /\ n # c
        OBVIOUS
      <4>. QED BY <1>0, <2>2, <2>8, <4>1
    <3>. QED BY <2>2, <2>4, <2>6, <3>1, <3>2
  <2>. QED BY <2>7, <2>8
<1>2. CASE map[j] # NoEvent
  <2>. DEFINE w == Without(order, j)
              o == Append(w, j)
              T == {x \in Jobs : Holds(order, x)}
  <2>1. Holds(order, j) /\ Distinct(order)
    BY <1>2 DEF CacheSound
  <2>2. w \in Seq(Jobs) /\ Distinct(w) /\ \A x : Holds(w, x) <=> (Holds(order, x) /\ x # j)
    BY <1>0, <2>1, WithoutFacts
  <2>3. OrderAfter(j) = IF Len(o) > Cap THEN Tail(o) ELSE o
    BY <1>2 DEF OrderAfter
  <2>. HIDE DEF w
  <2>4. /\ o \in Seq(Jobs) /\ Len(o) = Len(w) + 1
        /\ DOMAIN o = 1 .. Len(w) + 1 /\ DOMAIN w = 1 .. Len(w) /\ Len(w) \in Nat
        /\ \A a \in DOMAIN w : o[a] = w[a]
        /\ o[Len(w) + 1] = j
    BY <2>2
  <2>. HIDE DEF o
  <2>5. Distinct(o)
    BY <2>2, <2>4 DEF Distinct, Holds
  <2>6. Len(w) + 1 \in DOMAIN o /\ \A a \in DOMAIN o : a \in DOMAIN w \/ a = Len(w) + 1
    BY <2>4
  <2>7. \A x : Holds(o, x) <=> Holds(order, x)
    <3>1. \A x : Holds(o, x) <=> (Holds(w, x) \/ x = j)
      BY <2>4, <2>6 DEF Holds
    <3>. QED BY <2>1, <2>2, <3>1
  <2>8. \A x : x \in T <=> Holds(order, x)
    BY <1>0 DEF Holds
  <2>. HIDE DEF T
  <2>9. Cardinality(T) = Len(order)
    BY <1>0, <2>1, <2>8, DistinctCardinality
  <2>10. Cardinality(T) = Len(o)
    BY <2>4, <2>5, <2>7, <2>8, DistinctCardinality
  <2>11. OrderAfter(j) = o /\ Len(o) = Len(order)
    BY <1>0, <2>3, <2>9, <2>10
  <2>. QED BY <1>0, <2>1, <2>4, <2>5, <2>7, <2>11
<1>. QED BY <1>1, <1>2

-----------------------------------------------------------------------------
(* Steps of a task *)

\* what a step of k makes of it
Becomes(k, x) ==
    /\ k \in tasks /\ x \in TaskType
    /\ x.job = k.job /\ x.session = k.session /\ x.turn = k.turn
    /\ tasks' = (tasks \ {k}) \union {x}

\* The other tasks are of other jobs.
LEMMA Others ==
    ASSUME OneTask, NEW k, NEW x, Becomes(k, x)
    PROVE  /\ x \in tasks'
           /\ \A l \in tasks' : l = x \/ (l \in tasks /\ l.job # k.job)
           /\ \A l \in tasks : l.job # k.job => l \in tasks'
           /\ in_flight' = in_flight => OneTask'
<1>1. /\ x \in tasks'
      /\ \A l \in tasks' : l = x \/ (l \in tasks /\ l.job # k.job)
      /\ \A l \in tasks : l.job # k.job => l \in tasks'
  BY DEF Becomes, OneTask
<1>2. ASSUME in_flight' = in_flight PROVE OneTask'
  <2>1. \A l, m \in tasks' : l.job = m.job => l = m
    BY <1>1 DEF Becomes, OneTask
  <2>2. \A l \in tasks' : l.job \notin Native =>
            l.session \in Sessions /\ <<l.job, l.session>> \in in_flight'
    BY <1>1, <1>2 DEF Becomes, OneTask
  <2>. QED BY <2>1, <2>2 DEF OneTask
<1>. QED BY <1>1, <1>2

\* A step of a task that writes no file, no event and no cache entry.
LEMMA QuietTask ==
    ASSUME CaptureInv, NEW k, NEW x, Becomes(k, x),
           UNCHANGED <<agent, in_flight, files, published, cache>>,
           blind \subseteq blind', blind' \subseteq Jobs, faults' \in 0 .. MaxFaults,
           Written(x)',
           x.pc \in {"read", "number"} => k.pc \in {"read", "number"},
           x.pc = "history" => x.n < x.turn,
           k.pc \in {"index", "done", "failed"} => x.pc = "failed",
           k.pc \notin {"put_ok", "put_failed"}, x.pc \notin {"put_ok", "put_failed"}
    PROVE  CaptureInv'
<1>0. /\ TypeOK /\ OneTask /\ NumbersLeft /\ TasksWritten /\ EventsFiled /\ CurrentKnown
      /\ CacheSound /\ LastCached
  BY DEF CaptureInv
<1>1. /\ UNCHANGED <<turns, said, in_flight, history, current, index, published, order, map>>
      /\ k \in tasks /\ x \in TaskType /\ x.job = k.job /\ x.turn = k.turn
      /\ tasks' = (tasks \ {k}) \union {x}
  BY DEF agent, files, cache, Becomes
<1>2. /\ x \in tasks' /\ OneTask'
      /\ \A l \in tasks' : l = x \/ (l \in tasks /\ l.job # k.job)
      /\ \A l \in tasks : l.job # k.job => l \in tasks'
  BY <1>0, <1>1, Others
<1>3. TypeOK'
  BY <1>0, <1>1 DEF TypeOK
<1>4. NumbersLeft'
  BY <1>0, <1>1, <1>2 DEF NumbersLeft
<1>5. TasksWritten'
  <2>1. \A l \in tasks : Written(l) => Written(l)'
    BY <1>1 DEF Written
  <2>. QED BY <1>0, <1>2, <2>1 DEF TasksWritten
<1>6. EventsFiled'
  BY <1>0, <1>1 DEF EventsFiled
<1>7. CurrentKnown'
  <2>. SUFFICES ASSUME NEW j \in Jobs, map[j].ok, map[j].text # current[j]
                PROVE  \E l \in tasks' : /\ l.job = j
                                         /\ l.pc \in {"index", "done", "failed", "put_ok",
                                                "put_failed"}
    BY <1>1 DEF CurrentKnown
  <2>1. PICK l \in tasks : l.job = j /\ l.pc \in {"index", "done", "failed", "put_ok", "put_failed"}
    BY <1>0 DEF CurrentKnown
  <2>2. CASE l.job = k.job
    <3>1. l = k
      BY <1>0, <1>1, <2>2 DEF OneTask
    <3>. QED BY <1>1, <1>2, <2>1, <3>1
  <2>3. CASE l.job # k.job
    BY <1>2, <2>1, <2>3
  <2>. QED BY <2>2, <2>3
<1>8. CacheSound'
  BY <1>0, <1>1 DEF CacheSound, Distinct, Holds
<1>9. LastCached'
  <2>1. \A j : \A l \in tasks' : Putting(j, l) => l \in tasks
    BY <1>2 DEF Putting
  <2>2. \A j : (\A l \in tasks' : ~Putting(j, l)) => \A l \in tasks : ~Putting(j, l)
    BY <1>0, <1>1, <1>2 DEF Putting, OneTask
  <2>. QED BY <1>0, <1>1, <2>1, <2>2 DEF LastCached, Event
<1>. QED BY <1>2, <1>3, <1>4, <1>5, <1>6, <1>7, <1>8, <1>9 DEF CaptureInv

\* A new task of a job that has none.
LEMMA NewTask ==
    ASSUME CaptureInv, NEW j \in Jobs, NEW x \in TaskType, EndTurn(j),
           tasks' = tasks \union {x}, \A k \in tasks : k.job # j,
           x.job = j, x.turn = turns + 1, x.pc \in {"read", "number", "failed"},
           x.pc = "number" => x.text # 0,
           j \notin Native => x.session \in Sessions /\ in_flight' = in_flight \union {<<j,
               x.session>>},
           j \in Native => in_flight' = in_flight,
           UNCHANGED <<files, published, cache, disk>>
    PROVE  CaptureInv'
<1>0. /\ TypeOK /\ OneTask /\ NumbersLeft /\ TasksWritten /\ EventsFiled /\ CurrentKnown
      /\ CacheSound /\ LastCached
  BY DEF CaptureInv
<1>1. /\ UNCHANGED <<history, current, index, published, order, map, blind, faults>>
      /\ turns < MaxTurns /\ turns' = turns + 1
      /\ said' = [said EXCEPT ![j] = @ \union {turns + 1}]
  BY DEF files, cache, disk, EndTurn
<1>2. turns \in Nat /\ turns' \in Numbers /\ turns + 1 \in 1 .. MaxTurns
  BY <1>0, <1>1, CaptureConstants DEF TypeOK, Numbers
<1>3. TypeOK'
  <2>1. said' \in [Jobs -> SUBSET (1 .. MaxTurns)]
    BY <1>0, <1>1, <1>2 DEF TypeOK
  <2>2. tasks' \subseteq TaskType
    BY <1>0 DEF TypeOK
  <2>3. in_flight' \subseteq (Jobs \ Native) \X Sessions
    BY <1>0 DEF TypeOK
  <2>. QED BY <1>0, <1>1, <1>2, <2>1, <2>2, <2>3 DEF TypeOK
<1>4. OneTask'
  BY <1>0 DEF OneTask
<1>5. NumbersLeft'
  <2>1. \A i \in Jobs, n \in Numbers : history'[i][n] # 0 => n < turns'
    BY <1>0, <1>1, <1>2 DEF NumbersLeft, Numbers
  <2>2. \A k \in tasks : k.turn \in Nat
    BY <1>0 DEF TypeOK, TaskType, Numbers
  <2>3. \A k \in tasks' : k.turn >= 1 /\ k.turn <= turns'
    BY <1>0, <1>1, <1>2, <2>2 DEF NumbersLeft
  <2>4. \A n \in Numbers : history'[j][n] # 0 => n + 1 < x.turn
    BY <1>0, <1>1, <1>2 DEF NumbersLeft, Numbers
  <2>. QED BY <1>0, <1>1, <2>1, <2>3, <2>4 DEF NumbersLeft
<1>6. TasksWritten'
  <2>1. \A l \in tasks : Written(l)'
    BY <1>0, <1>1 DEF TasksWritten, Written
  <2>2. Written(x)'
    BY DEF Written
  <2>. QED BY <2>1, <2>2 DEF TasksWritten
<1>7. EventsFiled'
  BY <1>0, <1>1 DEF EventsFiled
<1>8. CurrentKnown'
  BY <1>0, <1>1 DEF CurrentKnown
<1>9. CacheSound'
  BY <1>0, <1>1 DEF CacheSound, Distinct, Holds
<1>10. LastCached'
  <2>1. \A i : \A l \in tasks' : Putting(i, l) => l \in tasks
    BY DEF Putting
  <2>. QED BY <1>0, <1>1, <2>1 DEF LastCached, Event
<1>. QED BY <1>3, <1>4, <1>5, <1>6, <1>7, <1>8, <1>9, <1>10 DEF CaptureInv

\* What a task becomes when its place in the code moves.
LEMMA Moved ==
    ASSUME TypeOK, NEW k \in tasks,
           NEW pc \in {"read", "number", "history", "current", "index", "done", "failed",
                       "put_ok", "put_failed", "release"}, Move(k, pc)
    PROVE  \E x : Becomes(k, x) /\ x.pc = pc /\ x.n = k.n /\ x.text = k.text
<1>1. k \in TaskType
  BY DEF TypeOK
<1>2. PICK x : x = [k EXCEPT !.pc = pc]
  OBVIOUS
<1>3. /\ x \in TaskType /\ x.pc = pc /\ x.n = k.n /\ x.text = k.text
      /\ x.job = k.job /\ x.session = k.session /\ x.turn = k.turn
  BY <1>1, <1>2 DEF TaskType
<1>4. Becomes(k, x)
  BY <1>2, <1>3 DEF Move, Becomes
<1>. QED BY <1>3, <1>4

\* At the start there is no task, no file and no event.
LEMMA CaptureInit == Init => CaptureInv
<1>. SUFFICES ASSUME Init PROVE CaptureInv
  OBVIOUS
<1>1. /\ turns = 0 /\ said = [j \in Jobs |-> {}] /\ tasks = {} /\ in_flight = {}
      /\ history = [j \in Jobs |-> [n \in Numbers |-> 0]]
      /\ current = [j \in Jobs |-> 0] /\ index = [j \in Jobs |-> <<>>]
      /\ published = <<>> /\ order = <<>> /\ map = [j \in Jobs |-> NoEvent]
      /\ blind = {} /\ faults = 0
  BY DEF Init
<1>2. 0 \in Numbers /\ 0 \in 0 .. MaxFaults
  BY CaptureConstants DEF Numbers
<1>3. NoEvent \in Events /\ NoEvent.ok = FALSE
  BY <1>2 DEF NoEvent, Events
<1>4. TypeOK
  <2>1. history \in [Jobs -> [Numbers -> Numbers]] /\ current \in [Jobs -> Numbers]
    BY <1>1, <1>2
  <2>2. index \in [Jobs -> Seq(Numbers)] /\ published \in Seq(Events) /\ order \in Seq(Jobs)
    BY <1>1
  <2>3. map \in [Jobs -> Events] /\ said \in [Jobs -> SUBSET (1 .. MaxTurns)]
    BY <1>1, <1>3
  <2>. QED BY <1>1, <1>2, <2>1, <2>2, <2>3 DEF TypeOK
<1>5. DOMAIN published = {} /\ DOMAIN order = {} /\ Len(order) = 0
  BY <1>1
<1>6. NumbersLeft
  BY <1>1 DEF NumbersLeft
<1>7. CacheSound
  BY <1>1, <1>5, CaptureConstants DEF CacheSound, Distinct, Holds
<1>8. CurrentKnown
  BY <1>1, <1>3 DEF CurrentKnown
<1>9. OneTask /\ TasksWritten /\ EventsFiled /\ LastCached
  BY <1>1, <1>5 DEF OneTask, TasksWritten, EventsFiled, LastCached
<1>. QED BY <1>4, <1>6, <1>7, <1>8, <1>9 DEF CaptureInv

\* The last event of a job, once event e of job j is appended.
LEMMA Appended ==
    ASSUME published \in Seq(Events), NEW e \in Events, published' = Append(published, e)
    PROVE  /\ \A i \in DOMAIN published : i \in DOMAIN published' /\ published'[i] = published[i]
           /\ \A i \in DOMAIN published' : i \in DOMAIN published \/ published'[i] = e
           /\ \A i \in DOMAIN published' : i \notin DOMAIN published => i = Len(published) + 1
           /\ \A i \in DOMAIN published : i < Len(published) + 1
           /\ Len(published) + 1 \in DOMAIN published' /\ published'[Len(published) + 1] = e
           /\ published' \in Seq(Events)
  OBVIOUS

\* Every step keeps the invariant.
LEMMA CaptureStep == OneSession /\ CaptureInv /\ [Next]_vars => CaptureInv'
<1>. SUFFICES ASSUME OneSession, CaptureInv, [Next]_vars PROVE CaptureInv'
  OBVIOUS
<1>0. /\ TypeOK /\ OneTask /\ NumbersLeft /\ TasksWritten /\ EventsFiled /\ CurrentKnown
      /\ CacheSound /\ LastCached
  BY DEF CaptureInv
<1>t. \A k \in tasks : /\ k \in TaskType /\ k.job \in Jobs /\ k.n \in Numbers /\ k.text \in Numbers
                       /\ k.turn \in Numbers
  BY <1>0 DEF TypeOK, TaskType
<1>1. ASSUME NEW j \in Jobs \ Native, NEW s \in Sessions, OnStop(j, s) PROVE CaptureInv'
  <2>1. EndTurn(j) /\ UNCHANGED <<files, published, cache, disk>>
    BY <1>1 DEF OnStop
  <2>2. turns + 1 \in Numbers /\ turns \in Nat /\ 0 \in Numbers
    BY <1>0, <2>1, CaptureConstants DEF TypeOK, Numbers, EndTurn
  <2>3. CASE <<j, s>> \in in_flight
    <3>1. UNCHANGED <<in_flight, tasks>>
      BY <1>1, <2>3 DEF OnStop
    <3>2. /\ UNCHANGED <<history, current, index, published, order, map, blind, faults>>
          /\ turns < MaxTurns /\ turns' = turns + 1
          /\ said' = [said EXCEPT ![j] = @ \union {turns + 1}]
      BY <2>1 DEF files, cache, disk, EndTurn
    <3>3. turns' \in Numbers /\ turns + 1 \in 1 .. MaxTurns
      BY <2>2, <3>2, CaptureConstants DEF Numbers
    <3>4. said' \in [Jobs -> SUBSET (1 .. MaxTurns)]
      BY <1>0, <3>2, <3>3 DEF TypeOK
    <3>5. TypeOK'
      BY <1>0, <3>1, <3>2, <3>3, <3>4 DEF TypeOK
    <3>6. NumbersLeft'
      <4>1. \A i \in Jobs, n \in Numbers : history'[i][n] # 0 => n < turns'
        BY <1>0, <2>2, <3>2 DEF NumbersLeft, Numbers
      <4>2. \A k \in tasks' : k.turn >= 1 /\ k.turn <= turns'
        BY <1>0, <1>t, <2>2, <3>1, <3>2 DEF NumbersLeft, Numbers
      <4>. QED BY <1>0, <3>1, <3>2, <4>1, <4>2 DEF NumbersLeft
    <3>7. OneTask' /\ TasksWritten' /\ EventsFiled'
      BY <1>0, <3>1, <3>2 DEF OneTask, TasksWritten, Written, EventsFiled
    <3>8. CurrentKnown' /\ CacheSound' /\ LastCached'
      BY <1>0, <3>1, <3>2 DEF CurrentKnown, CacheSound, Distinct, Holds, LastCached, Putting, Event
    <3>. QED BY <3>5, <3>6, <3>7, <3>8 DEF CaptureInv
  <2>4. CASE <<j, s>> \notin in_flight
    <3>1. PICK x : x = Task(turns + 1, j, s)
      OBVIOUS
    <3>2. in_flight' = in_flight \union {<<j, s>>} /\ tasks' = tasks \union {x}
      BY <1>1, <2>4, <3>1 DEF OnStop
    <3>3. /\ x \in TaskType /\ x.job = j /\ x.session = s /\ x.turn = turns + 1
          /\ x.pc = "read"
      BY <2>2, <3>1, CaptureConstants DEF Task, TaskType
    <3>4. \A k \in tasks : k.job # j
      <4>. SUFFICES ASSUME NEW k \in tasks, k.job = j PROVE FALSE
        OBVIOUS
      <4>1. k.session \in Sessions /\ <<k.job, k.session>> \in in_flight
        BY <1>0 DEF OneTask
      <4>2. k.session = s
        BY <4>1 DEF OneSession
      <4>. QED BY <2>4, <4>1, <4>2
    <3>. QED BY <2>1, <3>2, <3>3, <3>4, NewTask
  <2>. QED BY <2>3, <2>4
<1>2. ASSUME NEW j \in Native, NEW ok \in BOOLEAN, PublishNative(j, ok) PROVE CaptureInv'
  <2>1. PICK x : x = NativeTask(turns + 1, j, ok)
    OBVIOUS
  <2>2. /\ EndTurn(j) /\ UNCHANGED <<in_flight, files, published, cache, disk>>
        /\ \A k \in tasks : k.job # j
        /\ tasks' = tasks \union {x} /\ j \in Jobs
    BY <1>2, <2>1, CaptureConstants DEF PublishNative
  <2>3. turns + 1 \in Numbers /\ turns \in Nat /\ 0 \in Numbers /\ turns + 1 # 0
    BY <1>0, <2>2, CaptureConstants DEF TypeOK, Numbers, EndTurn
  <2>4. /\ x \in TaskType /\ x.job = j /\ x.turn = turns + 1
        /\ x.pc \in {"number", "failed"} /\ (x.pc = "number" => x.text # 0)
    BY <2>1, <2>3, CaptureConstants DEF NativeTask, TaskType
  <2>. QED BY <2>2, <2>4, NewTask
<1>3. ASSUME NEW k \in tasks, Extract(k) PROVE CaptureInv'
  <2>0. /\ k.pc = "read" /\ UNCHANGED <<agent, in_flight, files, published, cache, disk>>
        /\ blind' = blind /\ faults' \in 0 .. MaxFaults /\ blind' \subseteq Jobs
    BY <1>0, <1>3 DEF Extract, disk, TypeOK
  <2>1. ASSUME NEW t \in said[k.job],
               tasks' = (tasks \ {k}) \union {[k EXCEPT !.text = t, !.pc = "number"]}
        PROVE  CaptureInv'
    <3>1. t \in Numbers /\ t # 0
      BY <1>0, <1>t, CaptureConstants DEF TypeOK, Numbers
    <3>2. PICK x : x = [k EXCEPT !.text = t, !.pc = "number"]
      OBVIOUS
    <3>3. Becomes(k, x) /\ x.pc = "number" /\ x.text = t
      BY <1>t, <2>1, <3>1, <3>2 DEF Becomes, TaskType
    <3>4. Written(x)'
      BY <3>1, <3>3 DEF Written
    <3>. QED BY <2>0, <3>3, <3>4, QuietTask
  <2>2. ASSUME k.tries + 1 < Attempts,
               tasks' = (tasks \ {k}) \union {[k EXCEPT !.tries = k.tries + 1]}
        PROVE  CaptureInv'
    <3>1. k.tries + 1 \in 0 .. Attempts - 1
      BY <1>t, <2>2, CaptureConstants DEF TaskType
    <3>2. PICK x : x = [k EXCEPT !.tries = k.tries + 1]
      OBVIOUS
    <3>3. Becomes(k, x) /\ x.pc = "read"
      BY <1>t, <2>0, <2>2, <3>1, <3>2 DEF Becomes, TaskType
    <3>4. Written(x)'
      BY <3>3 DEF Written
    <3>. QED BY <2>0, <3>3, <3>4, QuietTask
  <2>3. ASSUME Move(k, "failed") PROVE CaptureInv'
    <3>1. PICK x : Becomes(k, x) /\ x.pc = "failed"
      BY <1>0, <2>3, Moved
    <3>2. Written(x)'
      BY <3>1 DEF Written
    <3>. QED BY <2>0, <3>1, <3>2, QuietTask
  <2>. QED BY <1>3, <2>1, <2>2, <2>3 DEF Extract
<1>4. ASSUME NEW k \in tasks, Number(k) PROVE CaptureInv'
  <2>. DEFINE n == NextTurnIndex(k.job)
  <2>1. /\ k.pc = "number" /\ UNCHANGED <<agent, in_flight, files, published, cache, disk>>
        /\ blind' = blind /\ faults' \in 0 .. MaxFaults /\ blind' \subseteq Jobs
        /\ history' = history /\ current' = current /\ index' = index
        /\ tasks' = (tasks \ {k}) \union {[k EXCEPT !.pc = "history", !.n = n]}
    BY <1>0, <1>4 DEF Number, disk, files, TypeOK
  <2>2. n \in Numbers /\ n < k.turn /\ history[k.job][n] = 0
    <3>1. /\ k.turn \in Numbers /\ k.turn >= 1 /\ k.job \in Jobs
          /\ \A m \in Numbers : history[k.job][m] # 0 => m + 1 < k.turn
      BY <1>0, <1>t, <2>1 DEF NumbersLeft
    <3>. QED BY <1>0, <3>1, NextIndex
  <2>. HIDE DEF n
  <2>3. PICK x : x = [k EXCEPT !.pc = "history", !.n = n]
    OBVIOUS
  <2>4. Becomes(k, x) /\ x.pc = "history" /\ x.n = n /\ x.text = k.text /\ x.turn = k.turn
        /\ x.job = k.job
    BY <1>t, <2>1, <2>2, <2>3 DEF Becomes, TaskType
  <2>5. k.text # 0
    BY <1>0, <2>1 DEF TasksWritten, Written
  <2>6. Written(x)'
    BY <2>1, <2>2, <2>4, <2>5 DEF Written
  <2>. QED BY <2>1, <2>2, <2>4, <2>6, QuietTask
<1>5. ASSUME NEW k \in tasks, NumberBlind(k) PROVE CaptureInv'
  <2>1. /\ k.pc = "number" /\ UNCHANGED <<agent, in_flight, files, published, cache>>
        /\ blind' = blind \union {k.job} /\ faults < MaxFaults /\ faults' = faults + 1
        /\ tasks' = (tasks \ {k}) \union {[k EXCEPT !.pc = "history", !.n = 0]}
    BY <1>5 DEF NumberBlind
  <2>2. blind' \subseteq Jobs /\ blind \subseteq blind' /\ faults' \in 0 .. MaxFaults
            /\ 0 \in Numbers
    BY <1>0, <1>t, <2>1, CaptureConstants DEF TypeOK, Numbers
  <2>3. PICK x : x = [k EXCEPT !.pc = "history", !.n = 0]
    OBVIOUS
  <2>4. Becomes(k, x) /\ x.pc = "history" /\ x.n = 0 /\ x.text = k.text /\ x.turn = k.turn
        /\ x.job = k.job
    BY <1>t, <2>1, <2>2, <2>3 DEF Becomes, TaskType
  <2>5. k.text # 0 /\ 0 < k.turn
    BY <1>0, <1>t, <2>1 DEF TasksWritten, Written, NumbersLeft, Numbers
  <2>6. Written(x)'
    BY <2>1, <2>4, <2>5 DEF Written
  <2>. QED BY <2>1, <2>2, <2>4, <2>5, <2>6, QuietTask
<1>6. ASSUME NEW k \in tasks, PersistFails(k) PROVE CaptureInv'
  <2>1. /\ k.pc \in {"number", "history", "current", "index"} /\ Move(k, "failed")
        /\ UNCHANGED <<agent, in_flight, files, published, cache>> /\ blind' = blind
        /\ faults < MaxFaults /\ faults' = faults + 1
    BY <1>6 DEF PersistFails
  <2>2. blind' \subseteq Jobs /\ faults' \in 0 .. MaxFaults
    BY <1>0, <2>1, CaptureConstants DEF TypeOK
  <2>3. PICK x : Becomes(k, x) /\ x.pc = "failed"
    BY <1>0, <2>1, Moved
  <2>4. Written(x)'
    BY <2>3 DEF Written
  <2>. QED BY <2>1, <2>2, <2>3, <2>4, QuietTask
<1>7. ASSUME NEW k \in tasks, WriteHistory(k) PROVE CaptureInv'
  <2>1. /\ k.pc = "history" /\ Move(k, "current")
        /\ history' = [history EXCEPT ![k.job][k.n] = k.text]
        /\ UNCHANGED <<turns, said, in_flight, current, index, published, order, map, blind,
               faults>>
    BY <1>7 DEF WriteHistory, agent, cache, disk
  <2>2. PICK x : Becomes(k, x) /\ x.pc = "current" /\ x.n = k.n /\ x.text = k.text
    BY <1>0, <2>1, Moved
  <2>3. /\ x \in tasks' /\ OneTask' /\ x.job = k.job /\ x.turn = k.turn
        /\ \A l \in tasks' : l = x \/ (l \in tasks /\ l.job # k.job)
        /\ \A l \in tasks : l.job # k.job => l \in tasks'
        /\ tasks' = (tasks \ {k}) \union {x} /\ x \in TaskType
    BY <1>0, <2>1, <2>2, Others DEF Becomes
  <2>4. /\ history' \in [Jobs -> [Numbers -> Numbers]]
        /\ \A j \in Jobs, n \in Numbers :
              history'[j][n] = IF j = k.job /\ n = k.n THEN k.text ELSE history[j][n]
    BY <1>0, <1>t, <2>1 DEF TypeOK
  <2>5. k.text # 0 /\ k.n < k.turn /\ (k.job \notin blind => history[k.job][k.n] = 0)
    BY <1>0, <2>1 DEF TasksWritten, Written, NumbersLeft
  <2>6. \A j \in Jobs, n \in Numbers :
            j \notin blind /\ history[j][n] # 0 => history'[j][n] = history[j][n]
    BY <2>4, <2>5
  <2>7. TypeOK'
    BY <1>0, <2>1, <2>3, <2>4 DEF TypeOK
  <2>8. NumbersLeft'
    <3>1. turns \in Nat /\ k.turn <= turns
      BY <1>0 DEF TypeOK, NumbersLeft, Numbers
    <3>2. \A j \in Jobs, n \in Numbers : history'[j][n] # 0 => n < turns'
      BY <1>0, <1>t, <2>1, <2>4, <2>5, <3>1 DEF NumbersLeft, Numbers
    <3>3. \A l \in tasks' : l.turn >= 1 /\ l.turn <= turns'
      BY <1>0, <2>1, <2>3 DEF NumbersLeft
    <3>4. \A l \in tasks' : l.pc \in {"read", "number"} =>
              \A n \in Numbers : history'[l.job][n] # 0 => n + 1 < l.turn
      BY <1>0, <1>t, <2>2, <2>3, <2>4 DEF NumbersLeft
    <3>5. \A l \in tasks' : l.pc = "history" => l.n < l.turn
      BY <1>0, <2>2, <2>3 DEF NumbersLeft
    <3>. QED BY <3>2, <3>3, <3>4, <3>5 DEF NumbersLeft
  <2>9. TasksWritten'
    <3>1. \A l \in tasks : l.job # k.job => history'[l.job] = history[l.job]
      BY <1>0, <1>t, <2>1 DEF TypeOK
    <3>2. \A l \in tasks : l.job # k.job => Written(l)'
      BY <1>0, <2>1, <3>1 DEF TasksWritten, Written
    <3>3. history'[x.job][x.n] = x.text
      BY <1>t, <2>2, <2>3, <2>4
    <3>4. Written(x)'
      BY <2>2, <2>5, <3>3 DEF Written
    <3>. QED BY <2>3, <3>2, <3>4 DEF TasksWritten
  <2>10. EventsFiled'
    <3>. SUFFICES ASSUME NEW i \in DOMAIN published, published[i].ok,
                         published[i].job \notin blind
                  PROVE  \E m \in DOMAIN index[published[i].job] :
                            history'[published[i].job][index[published[i].job][m]] = published[i].text
      BY <1>0, <2>1 DEF EventsFiled
    <3>1. published[i].job \in Jobs /\ published[i].text # 0
      BY <1>0 DEF EventsFiled
    <3>2. PICK m \in DOMAIN index[published[i].job] :
              history[published[i].job][index[published[i].job][m]] = published[i].text
      BY <1>0 DEF EventsFiled
    <3>3. index[published[i].job] \in Seq(Numbers)
      BY <1>0, <3>1 DEF TypeOK
    <3>4. index[published[i].job][m] \in Numbers
      BY <3>2, <3>3
    <3>. QED BY <2>6, <3>1, <3>2, <3>4
  <2>11. CurrentKnown'
    BY <1>0, <2>1, <2>3 DEF CurrentKnown, OneTask
  <2>12. CacheSound'
    BY <1>0, <2>1 DEF CacheSound, Distinct, Holds
  <2>13. LastCached'
    <3>1. \A j : \A l \in tasks' : Putting(j, l) => l \in tasks
      BY <2>2, <2>3 DEF Putting
    <3>2. \A j : (\A l \in tasks' : ~Putting(j, l)) => \A l \in tasks : ~Putting(j, l)
      BY <1>0, <2>1, <2>3 DEF Putting, OneTask
    <3>. QED BY <1>0, <2>1, <3>1, <3>2 DEF LastCached, Event
  <2>. QED BY <2>3, <2>7, <2>8, <2>9, <2>10, <2>11, <2>12, <2>13 DEF CaptureInv
<1>8. ASSUME NEW k \in tasks, WriteCurrent(k) PROVE CaptureInv'
  <2>1. /\ k.pc = "current" /\ Move(k, "index")
        /\ current' = [current EXCEPT ![k.job] = k.text]
        /\ UNCHANGED <<turns, said, in_flight, history, index, published, order, map, blind,
               faults>>
    BY <1>8 DEF WriteCurrent, agent, cache, disk
  <2>2. PICK x : Becomes(k, x) /\ x.pc = "index" /\ x.n = k.n /\ x.text = k.text
    BY <1>0, <2>1, Moved
  <2>3. /\ x \in tasks' /\ OneTask' /\ x.job = k.job /\ x.turn = k.turn
        /\ \A l \in tasks' : l = x \/ (l \in tasks /\ l.job # k.job)
        /\ \A l \in tasks : l.job # k.job => l \in tasks'
        /\ tasks' = (tasks \ {k}) \union {x} /\ x \in TaskType
    BY <1>0, <2>1, <2>2, Others DEF Becomes
  <2>4. /\ current' \in [Jobs -> Numbers]
        /\ \A j \in Jobs : current'[j] = IF j = k.job THEN k.text ELSE current[j]
    BY <1>0, <1>t, <2>1 DEF TypeOK
  <2>5. TypeOK'
    BY <1>0, <2>1, <2>3, <2>4 DEF TypeOK
  <2>6. NumbersLeft'
    BY <1>0, <2>1, <2>2, <2>3 DEF NumbersLeft
  <2>7. TasksWritten'
    <3>1. \A l \in tasks : l.job # k.job => Written(l)'
      BY <1>0, <1>t, <2>1, <2>4 DEF TasksWritten, Written
    <3>2. Written(k)
      BY <1>0 DEF TasksWritten
    <3>3. Written(x)'
      BY <1>t, <2>1, <2>2, <2>3, <2>4, <3>2 DEF Written
    <3>. QED BY <2>3, <3>1, <3>3 DEF TasksWritten
  <2>8. EventsFiled'
    BY <1>0, <2>1 DEF EventsFiled
  <2>9. CurrentKnown'
    BY <1>0, <2>1, <2>2, <2>3, <2>4 DEF CurrentKnown, OneTask
  <2>10. CacheSound'
    BY <1>0, <2>1 DEF CacheSound, Distinct, Holds
  <2>11. LastCached'
    <3>1. \A j : \A l \in tasks' : Putting(j, l) => l \in tasks
      BY <2>2, <2>3 DEF Putting
    <3>2. \A j : (\A l \in tasks' : ~Putting(j, l)) => \A l \in tasks : ~Putting(j, l)
      BY <1>0, <2>1, <2>3 DEF Putting, OneTask
    <3>. QED BY <1>0, <2>1, <3>1, <3>2 DEF LastCached, Event
  <2>. QED BY <2>3, <2>5, <2>6, <2>7, <2>8, <2>9, <2>10, <2>11 DEF CaptureInv
<1>9. ASSUME NEW k \in tasks, AppendIndex(k) PROVE CaptureInv'
  <2>1. /\ k.pc = "index" /\ Move(k, "done")
        /\ index' = [index EXCEPT ![k.job] = Append(index[k.job], k.n)]
        /\ UNCHANGED <<turns, said, in_flight, history, current, published, order, map, blind,
               faults>>
    BY <1>9 DEF AppendIndex, agent, cache, disk
  <2>2. PICK x : Becomes(k, x) /\ x.pc = "done" /\ x.n = k.n /\ x.text = k.text
    BY <1>0, <2>1, Moved
  <2>3. /\ x \in tasks' /\ OneTask' /\ x.job = k.job /\ x.turn = k.turn
        /\ \A l \in tasks' : l = x \/ (l \in tasks /\ l.job # k.job)
        /\ \A l \in tasks : l.job # k.job => l \in tasks'
        /\ tasks' = (tasks \ {k}) \union {x} /\ x \in TaskType
    BY <1>0, <2>1, <2>2, Others DEF Becomes
  <2>4. index[k.job] \in Seq(Numbers) /\ index \in [Jobs -> Seq(Numbers)] /\ k.job \in Jobs
    BY <1>0, <1>t DEF TypeOK
  <2>5. /\ index' \in [Jobs -> Seq(Numbers)]
        /\ \A j \in Jobs : j # k.job => index'[j] = index[j]
        /\ index'[k.job] = Append(index[k.job], k.n)
    BY <1>t, <2>1, <2>4
  <2>6. /\ \A m \in DOMAIN index[k.job] :
              m \in DOMAIN index'[k.job] /\ index'[k.job][m] = index[k.job][m]
        /\ \E m \in DOMAIN index'[k.job] : index'[k.job][m] = k.n
    <3>1. Len(index[k.job]) + 1 \in DOMAIN Append(index[k.job], k.n)
      BY <1>t, <2>4
    <3>2. Append(index[k.job], k.n)[Len(index[k.job]) + 1] = k.n
      BY <1>t, <2>4
    <3>. QED BY <1>t, <2>4, <2>5, <3>1, <3>2
  <2>7. TypeOK'
    BY <1>0, <2>1, <2>3, <2>5 DEF TypeOK
  <2>8. NumbersLeft'
    BY <1>0, <2>1, <2>2, <2>3 DEF NumbersLeft
  <2>9. TasksWritten'
    <3>1. \A l \in tasks : l.job # k.job => Written(l)'
      BY <1>0, <1>t, <2>1, <2>5 DEF TasksWritten, Written
    <3>2. Written(k)
      BY <1>0 DEF TasksWritten
    <3>3. Written(x)'
      BY <2>1, <2>2, <2>3, <2>6, <3>2 DEF Written
    <3>. QED BY <2>3, <3>1, <3>3 DEF TasksWritten
  <2>10. EventsFiled'
    <3>. SUFFICES ASSUME NEW i \in DOMAIN published, published[i].ok,
                         published[i].job \notin blind
                  PROVE  \E m \in DOMAIN index'[published[i].job] :
                            history[published[i].job][index'[published[i].job][m]] = published[i].text
      BY <1>0, <2>1 DEF EventsFiled
    <3>1. published[i].job \in Jobs
      BY <1>0 DEF EventsFiled
    <3>2. PICK m \in DOMAIN index[published[i].job] :
              history[published[i].job][index[published[i].job][m]] = published[i].text
      BY <1>0 DEF EventsFiled
    <3>3. m \in DOMAIN index'[published[i].job]
              /\ index'[published[i].job][m] = index[published[i].job][m]
      BY <2>5, <2>6, <3>1, <3>2
    <3>. QED BY <3>2, <3>3
  <2>11. CurrentKnown'
    BY <1>0, <2>1, <2>2, <2>3 DEF CurrentKnown, OneTask
  <2>12. CacheSound'
    BY <1>0, <2>1 DEF CacheSound, Distinct, Holds
  <2>13. LastCached'
    <3>1. \A j : \A l \in tasks' : Putting(j, l) => l \in tasks
      BY <2>2, <2>3 DEF Putting
    <3>2. \A j : (\A l \in tasks' : ~Putting(j, l)) => \A l \in tasks : ~Putting(j, l)
      BY <1>0, <2>1, <2>3 DEF Putting, OneTask
    <3>. QED BY <1>0, <2>1, <3>1, <3>2 DEF LastCached, Event
  <2>. QED BY <2>3, <2>7, <2>8, <2>9, <2>10, <2>11, <2>12, <2>13 DEF CaptureInv
<1>10. ASSUME NEW k \in tasks, Send(k) PROVE CaptureInv'
  <2>. DEFINE pc == IF k.pc = "done" THEN "put_ok" ELSE "put_failed"
  <2>1. /\ k.pc \in {"done", "failed"} /\ Move(k, pc)
        /\ published' = Append(published, Event(k, k.pc = "done"))
        /\ UNCHANGED <<turns, said, in_flight, history, current, index, order, map, blind, faults>>
    BY <1>10 DEF Send, agent, files, cache, disk
  <2>2. PICK x : Becomes(k, x) /\ x.pc = pc /\ x.n = k.n /\ x.text = k.text
    BY <1>0, <2>1, Moved
  <2>3. /\ x \in tasks' /\ OneTask' /\ x.job = k.job /\ x.turn = k.turn
        /\ \A l \in tasks' : l = x \/ (l \in tasks /\ l.job # k.job)
        /\ \A l \in tasks : l.job # k.job => l \in tasks'
        /\ tasks' = (tasks \ {k}) \union {x} /\ x \in TaskType
    BY <1>0, <2>1, <2>2, Others DEF Becomes
  <2>4. PICK e : e = Event(k, k.pc = "done")
    OBVIOUS
  <2>5. 0 \in Numbers
    BY CaptureConstants DEF Numbers
  <2>6. /\ e \in Events /\ e.job = k.job /\ e.turn = k.turn /\ e.ok = (k.pc = "done")
        /\ e.text = IF k.pc = "done" THEN k.text ELSE 0
    BY <1>t, <2>4, <2>5 DEF Event, Events
  <2>7. e = Event(x, x.pc = "put_ok")
    BY <2>1, <2>2, <2>3, <2>4 DEF Event
  <2>8. published \in Seq(Events) /\ published' = Append(published, e)
    BY <1>0, <2>1, <2>4 DEF TypeOK
  <2>9. /\ \A i \in DOMAIN published : i \in DOMAIN published' /\ published'[i] = published[i]
        /\ \A i \in DOMAIN published' : i \in DOMAIN published \/ published'[i] = e
        /\ \A i \in DOMAIN published' : i \notin DOMAIN published => i = Len(published) + 1
        /\ \A i \in DOMAIN published : i < Len(published) + 1
        /\ Len(published) + 1 \in DOMAIN published' /\ published'[Len(published) + 1] = e
        /\ published' \in Seq(Events)
    BY <2>6, <2>8, Appended
  <2>10. TypeOK'
    BY <1>0, <2>1, <2>3, <2>9 DEF TypeOK
  <2>11. NumbersLeft'
    BY <1>0, <2>1, <2>2, <2>3 DEF NumbersLeft
  <2>12. Written(k)
    BY <1>0 DEF TasksWritten
  <2>13. TasksWritten'
    <3>1. \A l \in tasks : l.job # k.job => Written(l)'
      BY <1>0, <2>1 DEF TasksWritten, Written
    <3>2. Written(x)'
      BY <2>1, <2>2, <2>3, <2>12 DEF Written
    <3>. QED BY <2>3, <3>1, <3>2 DEF TasksWritten
  <2>14. EventsFiled'
    <3>1. /\ e.job \in Jobs /\ e.turn >= 1 /\ (e.ok => e.text # 0)
          /\ e.ok /\ e.job \notin blind =>
                \E m \in DOMAIN index[e.job] : history[e.job][index[e.job][m]] = e.text
      <4>1. e.job \in Jobs /\ e.turn >= 1 /\ (e.ok => e.text # 0)
        BY <1>0, <1>t, <2>6, <2>12 DEF Written, NumbersLeft
      <4>2. ASSUME e.ok, e.job \notin blind
            PROVE  \E m \in DOMAIN index[e.job] : history[e.job][index[e.job][m]] = e.text
        <5>1. k.pc = "done" /\ k.job \notin blind /\ e.text = k.text
          BY <2>6, <4>2
        <5>. QED BY <2>6, <2>12, <5>1 DEF Written
      <4>. QED BY <4>1, <4>2
    <3>. QED BY <1>0, <2>1, <2>9, <3>1 DEF EventsFiled
  <2>15. CurrentKnown'
    BY <1>0, <2>1, <2>2, <2>3 DEF CurrentKnown, OneTask
  <2>16. CacheSound'
    BY <1>0, <2>1 DEF CacheSound, Distinct, Holds
  <2>17. LastCached'
    <3>. SUFFICES ASSUME NEW i \in DOMAIN published',
                         \A m \in DOMAIN published' : m > i => published'[m].job # published'[i].job
                  PROVE  /\ \A l \in tasks' : Putting(published'[i].job, l) =>
                               published'[i] = Event(l, l.pc = "put_ok")
                         /\ (\A l \in tasks' : ~Putting(published'[i].job, l)) =>
                               \/ map[published'[i].job] = published'[i]
                               \/ map[published'[i].job] = NoEvent /\ Len(order) = Cap
      BY <2>1 DEF LastCached, Event
    <3>1. Putting(k.job, x)
      BY <2>2, <2>3 DEF Putting
    <3>2. CASE published'[i].job = k.job
      <4>1. i = Len(published) + 1 /\ published'[i] = e
        BY <2>6, <2>8, <2>9, <3>2
      <4>2. \A l \in tasks' : Putting(k.job, l) => l = x
        BY <2>3 DEF Putting
      <4>. QED BY <2>3, <2>7, <3>1, <3>2, <4>1, <4>2
    <3>3. CASE published'[i].job # k.job
      <4>1. i \in DOMAIN published /\ published'[i] = published[i]
        BY <2>6, <2>9, <3>3
      <4>2. \A m \in DOMAIN published : m > i => published[m].job # published[i].job
        BY <2>9, <4>1
      <4>3. \A l \in tasks' : Putting(published[i].job, l) => l \in tasks
        BY <2>3, <3>3, <4>1 DEF Putting
      <4>4. \A l \in tasks : Putting(published[i].job, l) => l \in tasks'
        BY <2>3, <3>3, <4>1 DEF Putting
      <4>. QED BY <1>0, <4>1, <4>2, <4>3, <4>4 DEF LastCached
    <3>. QED BY <3>2, <3>3
  <2>. QED BY <2>3, <2>10, <2>11, <2>13, <2>14, <2>15, <2>16, <2>17 DEF CaptureInv
<1>11. ASSUME NEW k \in tasks, Put(k) PROVE CaptureInv'
  <2>. DEFINE o == OrderAfter(k.job)
  <2>1. PICK e : e = Event(k, k.pc = "put_ok")
    OBVIOUS
  <2>2. /\ k.pc \in {"put_ok", "put_failed"} /\ order' = o
        /\ map' = [j \in Jobs |-> IF j = k.job THEN e
                                  ELSE IF j \in Range(o) THEN map[j] ELSE NoEvent]
        /\ IF k.job \in Native THEN tasks' = tasks \ {k} ELSE Move(k, "release")
        /\ UNCHANGED <<turns, said, in_flight, history, current, index, published, blind, faults>>
    BY <1>11, <2>1 DEF Put, agent, files, disk
  <2>3. /\ o \in Seq(Jobs) /\ Len(o) <= Cap /\ Distinct(o) /\ Holds(o, k.job)
        /\ \A x : Holds(o, x) => x = k.job \/ Holds(order, x)
        /\ \A x : Holds(order, x) /\ ~Holds(o, x) => Len(o) = Cap
        /\ Len(order) = Cap => Len(o) = Cap
    BY <1>0, <1>t, OrderFacts
  <2>4. \A j : j \in Range(o) <=> Holds(o, j)
    BY DEF Range, Holds
  <2>. HIDE DEF o
  <2>5. /\ OneTask'
        /\ \A l \in tasks' : \/ l \in tasks /\ l.job # k.job
                             \/ l.pc = "release" /\ l.job = k.job /\ l \in TaskType
                                    /\ l.turn = k.turn
        /\ \A l \in tasks : l.job # k.job => l \in tasks'
    <3>1. CASE k.job \in Native
      BY <1>0, <2>2, <3>1 DEF OneTask
    <3>2. CASE k.job \notin Native
      <4>1. PICK x : Becomes(k, x) /\ x.pc = "release"
        BY <1>0, <2>2, <3>2, Moved
      <4>2. x \in TaskType /\ x.job = k.job /\ x.turn = k.turn
        BY <4>1 DEF Becomes
      <4>. QED BY <1>0, <2>2, <4>1, <4>2, Others
    <3>. QED BY <3>1, <3>2
  <2>6. 0 \in Numbers
    BY CaptureConstants DEF Numbers
  <2>7. /\ e \in Events /\ e.turn = k.turn /\ e.ok = (k.pc = "put_ok")
        /\ e.text = IF k.pc = "put_ok" THEN k.text ELSE 0
    BY <1>t, <2>1, <2>6 DEF Event, Events
  <2>8. NoEvent \in Events /\ NoEvent.ok = FALSE /\ NoEvent.turn = 0
    BY <2>6 DEF NoEvent, Events
  <2>9. e # NoEvent
    BY <1>0, <2>7, <2>8 DEF NumbersLeft
  <2>10. /\ map' \in [Jobs -> Events] /\ map'[k.job] = e
         /\ \A j \in Jobs : j # k.job => map'[j] = IF Holds(o, j) THEN map[j] ELSE NoEvent
    <3>1. \A j \in Jobs : map[j] \in Events
      BY <1>0 DEF TypeOK
    <3>. QED BY <1>t, <2>2, <2>4, <2>7, <2>8, <3>1
  <2>11. TypeOK'
    <3>1. tasks' \subseteq TaskType
      BY <1>t, <2>5
    <3>. QED BY <1>0, <2>2, <2>3, <2>10, <3>1 DEF TypeOK
  <2>12. NumbersLeft'
    BY <1>0, <2>2, <2>5 DEF NumbersLeft
  <2>13. TasksWritten'
    <3>1. \A l \in tasks : Written(l)'
      BY <1>0, <2>2 DEF TasksWritten, Written
    <3>2. \A l : l.pc = "release" => Written(l)'
      BY DEF Written
    <3>. QED BY <2>5, <3>1, <3>2 DEF TasksWritten
  <2>14. EventsFiled'
    BY <1>0, <2>2 DEF EventsFiled
  <2>15. CurrentKnown'
    <3>. SUFFICES ASSUME NEW j \in Jobs, map'[j].ok, map'[j].text # current[j]
                  PROVE  \E l \in tasks' : /\ l.job = j
                             /\ l.pc \in {"index", "done", "failed", "put_ok", "put_failed"}
      BY <2>2 DEF CurrentKnown
    <3>1. j # k.job
      <4>1. ASSUME j = k.job PROVE FALSE
        <5>1. k.pc = "put_ok" /\ current[k.job] # k.text
          BY <2>7, <2>10, <4>1
        <5>. QED BY <1>0, <5>1 DEF TasksWritten, Written
      <4>. QED BY <4>1
    <3>2. map'[j] = map[j]
      BY <2>8, <2>10, <3>1
    <3>. QED BY <1>0, <2>5, <3>1, <3>2 DEF CurrentKnown
  <2>16. CacheSound'
    <3>1. \A j \in Jobs : map'[j] # NoEvent <=> Holds(o, j)
      <4>. SUFFICES ASSUME NEW j \in Jobs PROVE map'[j] # NoEvent <=> Holds(o, j)
        OBVIOUS
      <4>1. CASE j = k.job
        BY <2>3, <2>9, <2>10, <4>1
      <4>2. CASE j # k.job
        BY <1>0, <2>3, <2>10, <4>2 DEF CacheSound
      <4>. QED BY <4>1, <4>2
    <3>2. \A j : Holds(order, j)' <=> Holds(o, j)
      BY <2>2 DEF Holds
    <3>3. Distinct(order)' /\ Len(order') <= Cap
      BY <2>2, <2>3 DEF Distinct
    <3>. QED BY <3>1, <3>2, <3>3 DEF CacheSound
  <2>17. LastCached'
    <3>. SUFFICES ASSUME NEW i \in DOMAIN published,
                         \A m \in DOMAIN published : m > i => published[m].job # published[i].job
                  PROVE  /\ \A l \in tasks' : Putting(published[i].job, l) =>
                               published[i] = Event(l, l.pc = "put_ok")
                         /\ (\A l \in tasks' : ~Putting(published[i].job, l)) =>
                               \/ map'[published[i].job] = published[i]
                               \/ map'[published[i].job] = NoEvent /\ Len(order') = Cap
      BY <2>2 DEF LastCached, Event
    <3>1. published[i].job \in Jobs /\ published[i].turn >= 1
      BY <1>0 DEF EventsFiled
    <3>2. CASE published[i].job = k.job
      <4>1. published[i] = e
        BY <1>0, <2>1, <2>2, <3>2 DEF LastCached, Putting
      <4>2. \A l \in tasks' : ~Putting(k.job, l)
        BY <2>5 DEF Putting
      <4>. QED BY <2>10, <3>2, <4>1, <4>2
    <3>3. CASE published[i].job # k.job
      <4>1. \A l \in tasks' : Putting(published[i].job, l) => l \in tasks
        BY <2>5, <3>3 DEF Putting
      <4>2. \A l \in tasks : Putting(published[i].job, l) => l \in tasks'
        BY <2>5, <3>3 DEF Putting
      <4>3. \A l \in tasks' : Putting(published[i].job, l) =>
                published[i] = Event(l, l.pc = "put_ok")
        BY <1>0, <4>1 DEF LastCached
      <4>4. ASSUME \A l \in tasks' : ~Putting(published[i].job, l)
            PROVE  \/ map'[published[i].job] = published[i]
                   \/ map'[published[i].job] = NoEvent /\ Len(order') = Cap
        <5>1. \/ map[published[i].job] = published[i]
              \/ map[published[i].job] = NoEvent /\ Len(order) = Cap
          BY <1>0, <4>2, <4>4 DEF LastCached
        <5>2. published[i] # NoEvent
          BY <2>8, <3>1
        <5>3. map[published[i].job] # NoEvent <=> Holds(order, published[i].job)
          BY <1>0, <3>1 DEF CacheSound
        <5>4. map'[published[i].job] = IF Holds(o, published[i].job) THEN map[published[i].job]
                                       ELSE NoEvent
          BY <2>10, <3>1, <3>3
        <5>. QED BY <2>2, <2>3, <3>3, <5>1, <5>2, <5>3, <5>4
      <4>. QED BY <4>3, <4>4
    <3>. QED BY <3>2, <3>3
  <2>. QED BY <2>5, <2>11, <2>12, <2>13, <2>14, <2>15, <2>16, <2>17 DEF CaptureInv
<1>12. ASSUME NEW k \in tasks, Release(k) PROVE CaptureInv'
  <2>1. /\ k.pc = "release" /\ tasks' = tasks \ {k}
        /\ in_flight' = in_flight \ {<<k.job, k.session>>}
        /\ UNCHANGED <<turns, said, history, current, index, published, order, map, blind, faults>>
    BY <1>12 DEF Release, agent, files, cache, disk
  <2>2. \A l \in tasks' : l \in tasks /\ l.job # k.job
    BY <1>0, <2>1 DEF OneTask
  <2>3. OneTask'
    BY <1>0, <2>1, <2>2 DEF OneTask
  <2>4. TypeOK' /\ NumbersLeft'
    BY <1>0, <2>1 DEF TypeOK, NumbersLeft
  <2>5. TasksWritten' /\ EventsFiled'
    BY <1>0, <2>1 DEF TasksWritten, Written, EventsFiled
  <2>6. CurrentKnown' /\ CacheSound'
    BY <1>0, <2>1 DEF CurrentKnown, CacheSound, Distinct, Holds
  <2>7. \A j : (\A l \in tasks' : ~Putting(j, l)) => \A l \in tasks : ~Putting(j, l)
    BY <2>1 DEF Putting
  <2>8. LastCached'
    BY <1>0, <2>1, <2>7 DEF LastCached, Event
  <2>. QED BY <2>3, <2>4, <2>5, <2>6, <2>8 DEF CaptureInv
<1>13. CASE UNCHANGED vars
  <2>1. UNCHANGED <<turns, said, tasks, in_flight, history, current, index, published, order, map,
                    blind, faults>>
    BY <1>13 DEF vars, agent, files, cache, disk
  <2>2. TypeOK' /\ OneTask' /\ NumbersLeft'
    BY <1>0, <2>1 DEF TypeOK, OneTask, NumbersLeft
  <2>3. TasksWritten' /\ EventsFiled' /\ CurrentKnown'
    BY <1>0, <2>1 DEF TasksWritten, Written, EventsFiled, CurrentKnown
  <2>4. CacheSound' /\ LastCached'
    BY <1>0, <2>1 DEF CacheSound, Distinct, Holds, LastCached, Putting, Event
  <2>. QED BY <2>2, <2>3, <2>4 DEF CaptureInv
<1>. QED BY <1>1, <1>2, <1>3, <1>4, <1>5, <1>6, <1>7, <1>8, <1>9, <1>10, <1>11, <1>12, <1>13
         DEF Next, Step

\* CaptureInv holds in every reachable state.
LEMMA CaptureAlways == OneSession /\ Spec => []CaptureInv
<1>1. OneSession /\ CaptureInv /\ [Next]_vars => CaptureInv'
  BY CaptureStep
<1>2. OneSession => OneSession'
  BY DEF OneSession
<1>. QED BY <1>1, <1>2, CaptureInit, PTL DEF Spec

-----------------------------------------------------------------------------
(* What the invariant says *)

\* An event that announces a response is backed by an indexed file.
LEMMA FiledFromInv == CaptureInv => AnsweredIsFiled
<1>. SUFFICES ASSUME CaptureInv, NEW i \in DOMAIN published,
                     published[i].ok, published[i].job \notin blind
              PROVE  \E n \in Range(index[published[i].job]) :
                        history[published[i].job][n] = published[i].text
  BY DEF AnsweredIsFiled
<1>1. PICK m \in DOMAIN index[published[i].job] :
          history[published[i].job][index[published[i].job][m]] = published[i].text
  BY DEF CaptureInv, EventsFiled
<1>2. index[published[i].job][m] \in Range(index[published[i].job])
  BY DEF Range
<1>. QED BY <1>1, <1>2

\* LastOf names the last event of a job.
LEMMA LastOfFacts ==
    ASSUME TypeOK, NEW j, LastOf(j) > 0
    PROVE  /\ LastOf(j) \in DOMAIN published /\ published[LastOf(j)].job = j
           /\ \A m \in DOMAIN published : m > LastOf(j) => published[m].job # j
<1>. DEFINE S == {0} \union {i \in DOMAIN published : published[i].job = j}
<1>1. Len(published) \in Nat /\ DOMAIN published = 1 .. Len(published)
  BY DEF TypeOK
<1>2. S \in SUBSET Nat /\ S # {} /\ \A x \in S : x <= Len(published)
  BY <1>1
<1>3. PICK n \in S : \A x \in S : x <= n
  <2>. HIDE DEF S
  <2>. QED BY <1>1, <1>2, GreatestNatural
<1>4. n \in 0 .. Len(published) /\ (n > 0 => published[n].job = j)
  BY <1>1, <1>3
<1>5. \A m \in n + 1 .. Len(published) : published[m].job # j
  <2>. SUFFICES ASSUME NEW m \in n + 1 .. Len(published), published[m].job = j PROVE FALSE
    OBVIOUS
  <2>1. m \in S /\ m > n
    BY <1>1, <1>4
  <2>. QED BY <1>1, <1>3, <1>4, <2>1
<1>6. /\ LastOf(j) \in 0 .. Len(published) /\ (LastOf(j) > 0 => published[LastOf(j)].job = j)
      /\ \A m \in LastOf(j) + 1 .. Len(published) : published[m].job # j
  <2>1. \E i \in 0 .. Len(published) : /\ i > 0 => published[i].job = j
                                       /\ \A m \in i + 1 .. Len(published) : published[m].job # j
    BY <1>4, <1>5
  <2>. QED BY <2>1 DEF LastOf
<1>. QED BY <1>1, <1>6

\* Cache, journal and file agree on an idle job.
LEMMA LatestFromInv == CaptureInv => LatestSound
<1>. SUFFICES ASSUME CaptureInv PROVE LatestSound
  OBVIOUS
<1>0. TypeOK /\ CurrentKnown /\ CacheSound /\ LastCached
  BY DEF CaptureInv
<1>1. CurrentIsLatest
  BY <1>0 DEF CurrentIsLatest, CurrentKnown, Idle
<1>2. LatestIsLast
  <2>. SUFFICES ASSUME NEW j \in Jobs, Idle(j), LastOf(j) > 0
                PROVE  \/ map[j] = published[LastOf(j)]
                       \/ map[j] = NoEvent /\ Cardinality({i \in Jobs : map[i] # NoEvent}) = Cap
    BY DEF LatestIsLast
  <2>1. /\ LastOf(j) \in DOMAIN published /\ published[LastOf(j)].job = j
        /\ \A m \in DOMAIN published : m > LastOf(j) => published[m].job # j
    BY <1>0, LastOfFacts
  <2>2. \A k \in tasks : ~Putting(j, k)
    BY DEF Idle, Putting
  <2>3. map[j] = published[LastOf(j)] \/ (map[j] = NoEvent /\ Len(order) = Cap)
    BY <1>0, <2>1, <2>2 DEF LastCached
  <2>. DEFINE T == {i \in Jobs : map[i] # NoEvent}
  <2>4. \A x : x \in T <=> Holds(order, x)
    <3>1. \A x : Holds(order, x) => x \in Jobs
      BY <1>0 DEF TypeOK, Holds
    <3>. QED BY <1>0, <3>1 DEF CacheSound
  <2>5. order \in Seq(Jobs) /\ Distinct(order)
    BY <1>0 DEF TypeOK, CacheSound
  <2>. HIDE DEF T
  <2>6. Cardinality(T) = Len(order)
    BY <2>4, <2>5, DistinctCardinality
  <2>. QED BY <2>3, <2>6 DEF T
<1>. QED BY <1>0, <1>1, <1>2 DEF LatestSound

\* Only WriteHistory writes a numbered file, and it writes a number that was free when
\* the run directory could be scanned.
LEMMA HistoryStep ==
    ASSUME CaptureInv, [Next]_vars, NEW j \in Jobs, NEW n \in Numbers,
           history[j][n] # 0, history'[j][n] # history[j][n]
    PROVE  j \in blind
<1>1. PICK k \in tasks : WriteHistory(k)
  <2>1. history' # history
    OBVIOUS
  <2>2. \A i \in Jobs, s \in Sessions : ~OnStop(i, s)
    BY <2>1 DEF OnStop, files
  <2>3. \A i \in Native, ok \in BOOLEAN : ~PublishNative(i, ok)
    BY <2>1 DEF PublishNative, files
  <2>4. ~UNCHANGED vars
    BY <2>1 DEF vars, files
  <2>5. \A k \in tasks : ~Extract(k) /\ ~Number(k) /\ ~NumberBlind(k) /\ ~PersistFails(k)
    BY <2>1 DEF Extract, Number, NumberBlind, PersistFails, files
  <2>6. \A k \in tasks : ~WriteCurrent(k) /\ ~AppendIndex(k) /\ ~Send(k) /\ ~Put(k) /\ ~Release(k)
    BY <2>1 DEF WriteCurrent, AppendIndex, Send, Put, Release, files
  <2>. QED BY <2>2, <2>3, <2>4, <2>5, <2>6 DEF Next, Step
<1>2. /\ history \in [Jobs -> [Numbers -> Numbers]] /\ k \in TaskType
      /\ k.pc = "history" /\ history' = [history EXCEPT ![k.job][k.n] = k.text]
  BY <1>1 DEF CaptureInv, TypeOK, WriteHistory
<1>3. k.job \notin blind => history[k.job][k.n] = 0
  BY <1>2 DEF CaptureInv, TasksWritten, Written
<1>4. j = k.job /\ n = k.n
  BY <1>2 DEF TaskType
<1>. QED BY <1>3, <1>4

-----------------------------------------------------------------------------
(* The theorems *)

\* Whatever the interleaving of extractions, whatever writes fail and however long the
\* sessions run, an event that announces a response is backed by an indexed file with
\* its text.
THEOREM AnswersAlwaysFiled == OneSession /\ Spec => []AnsweredIsFiled
  BY CaptureAlways, FiledFromInv, PTL

\* Whatever the interleaving and the evictions, the cache of an idle job agrees with the
\* journal and with final-response.md.
THEOREM LatestAlwaysSound == OneSession /\ Spec => []LatestSound
  BY CaptureAlways, LatestFromInv, PTL

\* No step overwrites a numbered response of a run directory that could be scanned.
THEOREM HistoryNeverRewritten == OneSession /\ Spec => HistoryImmutable
<1>. DEFINE Kept == \A j \in Jobs, n \in Numbers :
                       history[j][n] # 0 /\ history'[j][n] # history[j][n] => j \in blind
<1>1. CaptureInv /\ [Next]_vars => [Kept]_history
  BY HistoryStep
<1>. HIDE DEF Kept
<1>2. OneSession /\ Spec => [][Kept]_history
  BY <1>1, CaptureAlways, PTL DEF Spec
<1>. QED BY <1>2 DEF HistoryImmutable, Kept

=============================================================================
