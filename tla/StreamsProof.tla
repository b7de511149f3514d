--------------------------- MODULE StreamsProof ---------------------------
(***************************************************************************)
(* What is proved about the two streams of events, for any number of       *)
(* chains, records, envelopes and sessions: the publisher's to the backend *)
(* (StreamPublisher: CursorSound, DeliveredInOrder, FailClosed) and the    *)
(* daemon's to the REPL (JournalReplay: NumberingSound, JoinSound).  The   *)
(* two specifications share no variable; the facts about filtering and     *)
(* about ranges of sequences serve both.                                   *)
(***************************************************************************)
EXTENDS StreamPublisher, JournalReplay, FiniteSetTheorems, FunctionTheorems,
        WellFoundedInduction, TLAPS

-----------------------------------------------------------------------------
(* Filtering *)

\* A non-empty set of naturals has a least element.
LEMMA LeastNatural ==
    ASSUME NEW T \in SUBSET Nat, T # {}
    PROVE  \E x \in T : \A y \in T : x <= y
<1>. DEFINE R == OpToRel(<, Nat)
<1>1. \A x, y \in Nat : y < x => <<y, x>> \in R
  BY DEF OpToRel
<1>2. IsWellFoundedOn(R, Nat)
  BY NatLessThanWellFounded
<1>. HIDE DEF R
<1>3. PICK x \in T : \A y \in T : ~(<<y, x>> \in R)
  BY <1>2, WFMin
<1>4. \A y \in T : ~(y < x)
  BY <1>1, <1>3
<1>. QED BY <1>3, <1>4

\* f is what the recursion of Keep builds over the first m elements of s.
Keeps(f, s, K, m) ==
    f = [n \in 0 .. m |->
            IF n = 0 THEN <<>>
            ELSE IF s[n] \in K THEN Append(f[n - 1], s[n]) ELSE f[n - 1]]

\* The recursion of Keep defines a function.
LEMMA KeepsExists ==
    ASSUME NEW s, NEW K
    PROVE  \A m \in Nat : \E f : Keeps(f, s, K, m)
<1>. DEFINE odd == {m \in Nat : ~ \E f : Keeps(f, s, K, m)}
<1>. SUFFICES ASSUME odd # {} PROVE FALSE
  OBVIOUS
<1>1. PICK m \in odd : \A k \in odd : m <= k
  <2>1. odd \in SUBSET Nat
    OBVIOUS
  <2>. HIDE DEF odd
  <2>. QED BY <2>1, LeastNatural
<1>2. m # 0
  <2>1. Keeps([n \in 0 .. 0 |-> <<>>], s, K, 0)
    BY DEF Keeps
  <2>. QED BY <2>1
<1>3. m \in Nat /\ m - 1 \in Nat /\ m - 1 \notin odd
  <2>1. m \in Nat
    OBVIOUS
  <2>. HIDE DEF odd
  <2>. QED BY <1>1, <1>2, <2>1
<1>4. PICK f : Keeps(f, s, K, m - 1)
  BY <1>3
<1>. DEFINE last == IF s[m] \in K THEN Append(f[m - 1], s[m]) ELSE f[m - 1]
            g == [n \in 0 .. m |-> IF n = m THEN last ELSE f[n]]
            e(n) == IF n = 0 THEN <<>>
                    ELSE IF s[n] \in K THEN Append(f[n - 1], s[n]) ELSE f[n - 1]
            d(n) == IF n = 0 THEN <<>>
                    ELSE IF s[n] \in K THEN Append(g[n - 1], s[n]) ELSE g[n - 1]
<1>5. \A n \in 0 .. (m - 1) : f[n] = e(n)
  BY <1>4 DEF Keeps
<1>6. \A n \in 0 .. (m - 1) : g[n] = f[n]
  BY <1>3
<1>7. last = d(m)
  BY <1>2, <1>3, <1>6
<1>8. \A n \in 0 .. (m - 1) : n # 0 => n - 1 \in 0 .. (m - 1)
  BY <1>3
<1>9. \A n \in 0 .. m : g[n] = d(n)
  <2>. SUFFICES ASSUME NEW n \in 0 .. m PROVE g[n] = d(n)
    OBVIOUS
  <2>1. CASE n = m
    BY <2>1, <1>7
  <2>2. CASE n # m
    <3>1. n \in 0 .. (m - 1)
      BY <2>2, <1>3
    <3>2. g[n] = e(n)
      BY <3>1, <1>5, <1>6
    <3>3. n # 0 => g[n - 1] = f[n - 1]
      BY <3>1, <1>6, <1>8
    <3>. HIDE DEF g
    <3>. QED BY <3>2, <3>3
  <2>. QED BY <2>1, <2>2
<1>10. DOMAIN g = 0 .. m /\ g = [n \in 0 .. m |-> g[n]]
  OBVIOUS
<1>11. g = [n \in 0 .. m |-> d(n)]
  <2>. HIDE DEF g, d
  <2>. QED BY <1>9, <1>10
<1>12. Keeps(g, s, K, m)
  <2>. HIDE DEF g
  <2>. QED BY <1>11 DEF Keeps
<1>. QED BY <1>1, <1>12

\* t is part of the first n elements of s, in their order, element i from place e[i].
Embeds(e, t, s, n) ==
    /\ e \in [1 .. Len(t) -> 1 .. n]
    /\ \A i \in 1 .. Len(t) : t[i] = s[e[i]]
    /\ \A i, j \in 1 .. Len(t) : i < j => e[i] < e[j]

\* t is what K has of the first n elements of s.
IsKept(t, s, K, n) ==
    /\ \E e : Embeds(e, t, s, n)
    /\ \A i \in 1 .. Len(t) : t[i] \in K
    /\ \A a \in 1 .. n : s[a] \in K => \E i \in 1 .. Len(t) : t[i] = s[a]

\* One more element is kept.
LEMMA KeepOne ==
    ASSUME NEW S, NEW s \in Seq(S), NEW K, NEW n \in 1 .. Len(s), NEW t \in Seq(S),
           IsKept(t, s, K, n - 1), s[n] \in K
    PROVE  IsKept(Append(t, s[n]), s, K, n)
<1>. DEFINE u == Append(t, s[n])
<1>1. Len(t) \in Nat /\ Len(u) = Len(t) + 1 /\ u[Len(t) + 1] = s[n]
  <2>1. s[n] \in S
    OBVIOUS
  <2>. QED BY <2>1
<1>2. \A i \in 1 .. Len(t) : u[i] = t[i]
  OBVIOUS
<1>. HIDE DEF u
<1>3. PICK e : Embeds(e, t, s, n - 1)
  BY DEF IsKept
<1>. DEFINE f == [i \in 1 .. Len(u) |-> IF i = Len(u) THEN n ELSE e[i]]
<1>4. f \in [1 .. Len(u) -> 1 .. n]
  BY <1>1, <1>3 DEF Embeds
<1>5. \A i \in 1 .. Len(u) : u[i] = s[f[i]]
  <2>1. \A i \in 1 .. Len(t) : i \in 1 .. Len(u) /\ i # Len(u) /\ u[i] = s[e[i]]
    BY <1>1, <1>2, <1>3 DEF Embeds
  <2>2. \A i \in 1 .. Len(u) : i = Len(u) \/ i \in 1 .. Len(t)
    BY <1>1
  <2>. QED BY <1>1, <2>1, <2>2
<1>6. \A i, j \in 1 .. Len(u) : i < j => f[i] < f[j]
  <2>. SUFFICES ASSUME NEW i \in 1 .. Len(u), NEW j \in 1 .. Len(u), i < j
                PROVE  f[i] < f[j]
    OBVIOUS
  <2>1. i \in 1 .. Len(t) /\ f[i] = e[i] /\ e[i] \in 1 .. n - 1
    BY <1>1, <1>3 DEF Embeds
  <2>2. CASE j = Len(u)
    BY <2>1, <2>2
  <2>3. CASE j # Len(u)
    <3>1. j \in 1 .. Len(t) /\ f[j] = e[j]
      BY <1>1, <2>3
    <3>. QED BY <1>3, <2>1, <3>1 DEF Embeds
  <2>. QED BY <2>2, <2>3
<1>7. Embeds(f, u, s, n)
  <2>. HIDE DEF f
  <2>. QED BY <1>4, <1>5, <1>6 DEF Embeds
<1>8. \A i \in 1 .. Len(u) : u[i] \in K
  BY <1>1, <1>2 DEF IsKept
<1>9. ASSUME NEW a \in 1 .. n, s[a] \in K PROVE \E i \in 1 .. Len(u) : u[i] = s[a]
  <2>1. CASE a = n
    BY <1>1, <2>1
  <2>2. CASE a # n
    <3>1. PICK i \in 1 .. Len(t) : t[i] = s[a]
      BY <1>9, <2>2 DEF IsKept
    <3>. QED BY <1>1, <1>2, <3>1
  <2>. QED BY <2>1, <2>2
<1>. QED BY <1>7, <1>8, <1>9 DEF IsKept, u

\* One more element is passed over.
LEMMA KeepNone ==
    ASSUME NEW S, NEW s \in Seq(S), NEW K, NEW n \in 1 .. Len(s), NEW t \in Seq(S),
           IsKept(t, s, K, n - 1), s[n] \notin K
    PROVE  IsKept(t, s, K, n)
<1>1. PICK e : Embeds(e, t, s, n - 1)
  BY DEF IsKept
<1>2. Embeds(e, t, s, n)
  BY <1>1 DEF Embeds
<1>3. \A a \in 1 .. n : s[a] \in K => a \in 1 .. n - 1
  OBVIOUS
<1>. QED BY <1>2, <1>3 DEF IsKept

\* Keep returns what is in K, all of it and in order.
LEMMA KeepFacts ==
    ASSUME NEW S, NEW s \in Seq(S), NEW K
    PROVE  Keep(s, K) \in Seq(S) /\ IsKept(Keep(s, K), s, K, Len(s))
<1>0. Len(s) \in Nat /\ DOMAIN s = 1 .. Len(s)
  OBVIOUS
<1>1. PICK f : Keeps(f, s, K, Len(s)) /\ Keep(s, K) = f[Len(s)]
  <2>. DEFINE g == CHOOSE f : Keeps(f, s, K, Len(s))
  <2>1. Keeps(g, s, K, Len(s))
    BY <1>0, KeepsExists
  <2>2. Keep(s, K) = g[Len(s)]
    BY DEF Keep, Keeps
  <2>. QED BY <2>1, <2>2
<1>. DEFINE Good(n) == f[n] \in Seq(S) /\ IsKept(f[n], s, K, n)
            odd == {n \in 0 .. Len(s) : ~Good(n)}
<1>2. ASSUME odd # {} PROVE FALSE
  <2>1. PICK n \in odd : \A k \in odd : n <= k
    <3>1. odd \in SUBSET Nat
      BY <1>0
    <3>. HIDE DEF odd
    <3>. QED BY <1>2, <3>1, LeastNatural
  <2>2. n \in 0 .. Len(s) /\ ~Good(n)
    OBVIOUS
  <2>3. n # 0
    <3>1. f[0] = <<>>
      BY <1>0, <1>1 DEF Keeps
    <3>2. Embeds(<<>>, <<>>, s, 0)
      BY DEF Embeds
    <3>3. IsKept(<<>>, s, K, 0)
      BY <3>2 DEF IsKept
    <3>4. <<>> \in Seq(S)
      OBVIOUS
    <3>. QED BY <2>2, <3>1, <3>3, <3>4
  <2>4. n \in 1 .. Len(s) /\ n - 1 \in 0 .. Len(s) /\ n - 1 \notin odd
    <3>. HIDE DEF odd
    <3>. QED BY <1>0, <2>1, <2>2, <2>3
  <2>5. Good(n - 1)
    BY <2>4
  <2>6. f[n] = IF s[n] \in K THEN Append(f[n - 1], s[n]) ELSE f[n - 1]
    BY <1>1, <2>2, <2>3 DEF Keeps
  <2>. DEFINE g == f[n - 1]
  <2>7. g \in Seq(S) /\ IsKept(g, s, K, n - 1) /\ s[n] \in S
    BY <1>0, <2>4, <2>5
  <2>. HIDE DEF g
  <2>8. CASE s[n] \in K
    <3>1. f[n] = Append(g, s[n])
      BY <2>6, <2>8 DEF g
    <3>2. Append(g, s[n]) \in Seq(S)
      BY <2>7
    <3>3. IsKept(Append(g, s[n]), s, K, n)
      BY <2>4, <2>7, <2>8, KeepOne
    <3>. QED BY <2>2, <3>1, <3>2, <3>3
  <2>9. CASE s[n] \notin K
    <3>1. f[n] = g
      BY <2>6, <2>9 DEF g
    <3>2. IsKept(g, s, K, n)
      BY <2>4, <2>7, <2>9, KeepNone
    <3>. QED BY <2>2, <2>7, <3>1, <3>2
  <2>. QED BY <2>8, <2>9
<1>3. Good(Len(s))
  BY <1>0, <1>2
<1>. QED BY <1>1, <1>3

-----------------------------------------------------------------------------
(* Ranges and orders of sequences *)

\* The elements of a sequence over S are in S.
LEMMA RangeType == ASSUME NEW S, NEW s \in Seq(S) PROVE Range(s) \subseteq S
  BY DEF Range

\* Each place of a sequence holds an element of its range.
LEMMA RangeElement == ASSUME NEW s PROVE \A i \in DOMAIN s : s[i] \in Range(s)
  BY DEF Range

\* A range is within every set that has all its places.
LEMMA RangeWithin ==
    ASSUME NEW s, NEW T, \A i \in DOMAIN s : s[i] \in T PROVE Range(s) \subseteq T
  BY DEF Range

\* The empty sequence has no element.
LEMMA RangeEmpty == Range(<<>>) = {}
  BY DEF Range

\* Appending adds one element.
LEMMA RangeAppend ==
    ASSUME NEW S, NEW s \in Seq(S), NEW x \in S
    PROVE  Range(Append(s, x)) = Range(s) \union {x}
<1>. DEFINE t == Append(s, x)
<1>1. /\ Len(s) \in Nat /\ DOMAIN s = 1 .. Len(s) /\ DOMAIN t = 1 .. Len(s) + 1
      /\ t[Len(s) + 1] = x /\ \A i \in 1 .. Len(s) : t[i] = s[i]
  OBVIOUS
<1>. HIDE DEF t
<1>2. \A i \in 1 .. Len(s) + 1 : i \in 1 .. Len(s) \/ i = Len(s) + 1
  BY <1>1
<1>3. \A i \in 1 .. Len(s) : i \in 1 .. Len(s) + 1
  BY <1>1
<1>4. Len(s) + 1 \in 1 .. Len(s) + 1
  BY <1>1
<1>. QED BY <1>1, <1>2, <1>3, <1>4 DEF Range

\* A concatenation has the elements of its parts.
LEMMA RangeConcat ==
    ASSUME NEW S, NEW s \in Seq(S), NEW t \in Seq(S)
    PROVE  Range(s \o t) = Range(s) \union Range(t)
<1>. DEFINE u == s \o t
<1>1. /\ Len(s) \in Nat /\ Len(t) \in Nat /\ DOMAIN s = 1 .. Len(s) /\ DOMAIN t = 1 .. Len(t)
      /\ DOMAIN u = 1 .. Len(s) + Len(t)
      /\ \A i \in 1 .. Len(s) : u[i] = s[i]
      /\ \A i \in 1 .. Len(t) : u[Len(s) + i] = t[i]
  OBVIOUS
<1>. HIDE DEF u
<1>2. \A i \in 1 .. Len(s) + Len(t) : i \in 1 .. Len(s) \/ \E k \in 1 .. Len(t) : i = Len(s) + k
  <2>. SUFFICES ASSUME NEW i \in 1 .. Len(s) + Len(t), i \notin 1 .. Len(s)
                PROVE  \E k \in 1 .. Len(t) : i = Len(s) + k
    OBVIOUS
  <2>1. i - Len(s) \in 1 .. Len(t) /\ i = Len(s) + (i - Len(s))
    BY <1>1
  <2>. QED BY <2>1
<1>3. \A i \in 1 .. Len(s) : i \in 1 .. Len(s) + Len(t)
  BY <1>1
<1>4. \A k \in 1 .. Len(t) : Len(s) + k \in 1 .. Len(s) + Len(t)
  BY <1>1
<1>5. Range(u) \subseteq Range(s) \union Range(t)
  <2>1. ASSUME NEW i \in DOMAIN u PROVE u[i] \in Range(s) \union Range(t)
    <3>1. CASE i \in 1 .. Len(s)
      BY <3>1, <1>1, RangeElement
    <3>2. CASE \E k \in 1 .. Len(t) : i = Len(s) + k
      BY <3>2, <1>1, RangeElement
    <3>. QED BY <1>1, <1>2, <3>1, <3>2
  <2>. QED BY <2>1, RangeWithin
<1>6. Range(s) \subseteq Range(u)
  <2>1. \A i \in DOMAIN s : s[i] \in Range(u)
    BY <1>1, <1>3, RangeElement
  <2>. QED BY <2>1, RangeWithin
<1>7. Range(t) \subseteq Range(u)
  <2>1. \A i \in DOMAIN t : t[i] \in Range(u)
    BY <1>1, <1>4, RangeElement
  <2>. QED BY <2>1, RangeWithin
<1>. QED BY <1>5, <1>6, <1>7 DEF u

\* A sequence has the elements of its head and of its tail.
LEMMA RangeTail ==
    ASSUME NEW S, NEW s \in Seq(S), s # <<>>
    PROVE  /\ Head(s) \in S /\ Tail(s) \in Seq(S)
           /\ Range(s) = {Head(s)} \union Range(Tail(s))
<1>. DEFINE t == Tail(s)
<1>1. /\ Len(s) \in Nat /\ Len(s) # 0 /\ DOMAIN s = 1 .. Len(s) /\ DOMAIN t = 1 .. Len(s) - 1
      /\ \A i \in 1 .. Len(s) - 1 : t[i] = s[i + 1]
      /\ Head(s) = s[1] /\ s[1] \in S /\ t \in Seq(S)
  OBVIOUS
<1>. HIDE DEF t
<1>2. \A i \in 1 .. Len(s) : i = 1 \/ \E k \in 1 .. Len(s) - 1 : i = k + 1
  <2>. SUFFICES ASSUME NEW i \in 1 .. Len(s), i # 1
                PROVE  \E k \in 1 .. Len(s) - 1 : i = k + 1
    OBVIOUS
  <2>1. i - 1 \in 1 .. Len(s) - 1 /\ i = (i - 1) + 1
    BY <1>1
  <2>. QED BY <2>1
<1>3. \A k \in 1 .. Len(s) - 1 : k + 1 \in 1 .. Len(s)
  BY <1>1
<1>4. 1 \in 1 .. Len(s)
  BY <1>1
<1>5. Range(s) = {Head(s)} \union Range(t)
  <2>1. ASSUME NEW i \in DOMAIN s PROVE s[i] \in {Head(s)} \union Range(t)
    <3>1. CASE i = 1
      BY <3>1, <1>1
    <3>2. CASE \E k \in 1 .. Len(s) - 1 : i = k + 1
      BY <3>2, <1>1, RangeElement
    <3>. QED BY <1>1, <1>2, <3>1, <3>2
  <2>2. Head(s) \in Range(s)
    BY <1>1, <1>4 DEF Range
  <2>3. \A i \in DOMAIN t : t[i] \in Range(s)
    BY <1>1, <1>3 DEF Range
  <2>. QED BY <2>1, <2>2, <2>3 DEF Range
<1>. QED BY <1>1, <1>5 DEF t

-----------------------------------------------------------------------------
(* The publisher: the inductive invariant *)

\* What the gate turned away or the backend refused.
TurnedAway == ledger.refused \union ledger.withheld \union ledger.unnamed

\* The batch that goes out next: put back, or being pushed.
Old == IF held # <<>> THEN held[1] ELSE batch

\* Every line of S comes before every line of T from the same source.
Below(S, T) == \A l \in S, m \in T : l.src = m.src => l.n < m.n

\* The lines of each source come in order, none twice.
Ascending(s) ==
    \A i, j \in DOMAIN s : i < j /\ s[i].src = s[j].src => s[i].n < s[j].n

\* What each state of the loop holds in memory.
Shape ==
    /\ held = <<>> \/ \E b \in {held[1]} : held = <<b>>
    /\ pc \in {"push", "last"} => held = <<>>
    /\ pc \notin {"push", "last"} => batch = Empty /\ ~keyed
    /\ pc # "seal" => events = <<>>
    /\ pc = "off" => held = <<>> /\ pending = Empty /\ queue = <<>>
    /\ pc = "off" => offset = Zero /\ cursor = Zero
    /\ pc = "off" /\ ~ledger.again => backend = <<>> /\ ledger.withheld = {}

\* A line of a chain is the record it was read from.
FromChain(l) ==
    /\ l.src \in Chains
    /\ l.n \in 1 .. Len(file[l.src])
    /\ l = Rec(l.src, l.n)
    /\ l.scope # "bad"

FromBus(l) == l.src = Bus /\ l.n <= ledger.journal

Origins ==
    /\ \A l \in Range(events) : FromChain(l)
    /\ \A l \in Range(queue) : FromBus(l)
    /\ \A l \in Range(pending.lines) : FromChain(l) \/ FromBus(l)
    /\ \A l \in Range(Old.lines) : FromChain(l) \/ FromBus(l)
    /\ \A l \in Range(backend) : FromChain(l) \/ FromBus(l)
    /\ \A l \in ledger.withheld : FromChain(l)

\* Only what the gate let through is batched.
Published == {"public", "team"}
Gated ==
    /\ \A l \in Range(pending.lines) : l.scope \in Published
    /\ \A l \in Range(Old.lines) : l.scope \in Published
    /\ \A l \in Range(backend) : l.scope \in Published

\* The next batch, the batch being filled and the lines still to be processed or drained
\* follow one another.
Queued ==
    /\ Ascending(Old.lines) /\ Ascending(pending.lines)
    /\ Ascending(events) /\ Ascending(queue)
    /\ Below(Range(Old.lines), Range(pending.lines))
    /\ Below(Range(Old.lines), Range(events)) /\ Below(Range(pending.lines), Range(events))
    /\ Below(Range(Old.lines), Range(queue)) /\ Below(Range(pending.lines), Range(queue))

\* Where the cursors, the two batches and the reader stand in chain c.
Standing ==
    \A c \in Chains :
        /\ Len(file[c]) <= MaxRecords
        /\ saved[c] <= Len(file[c]) /\ cursor[c] <= Len(file[c]) /\ offset[c] <= Len(file[c])
        /\ pc # "off" => saved[c] <= offset[c] /\ cursor[c] <= offset[c]
        /\ pending.adv[c] <= offset[c] /\ Old.adv[c] <= offset[c]
        /\ \A l \in Range(Old.lines) : l.src = c =>
              saved[c] < l.n /\ cursor[c] < l.n /\ l.n <= Old.adv[c]
        /\ \A l \in Range(pending.lines) : l.src = c =>
              saved[c] < l.n /\ cursor[c] < l.n /\ Old.adv[c] < l.n /\ l.n <= pending.adv[c]
        /\ \A l \in Range(events) : l.src = c =>
              /\ saved[c] < l.n /\ cursor[c] < l.n
              /\ Old.adv[c] < l.n /\ pending.adv[c] < l.n /\ l.n <= offset[c]

\* record n of chain c needs no more attention
Done(c, n) == file[c][n] = "bad" \/ Settled(Rec(c, n))

Passed ==
    \A c \in Chains :
        /\ \A n \in 1 .. saved[c] : Done(c, n)
        /\ \A n \in 1 .. cursor[c] : Done(c, n)

\* What was read is settled or in memory, as long as the task may still settle it.
Remembered ==
    pc # "done" =>
        \A c \in Chains : \A n \in 1 .. offset[c] :
            \/ Done(c, n)
            \/ Rec(c, n) \in Range(events)
            \/ Rec(c, n) \in Range(pending.lines)
            \/ Rec(c, n) \in Range(Old.lines)

\* A record at the backend was preceded by every earlier one of its chain that was not
\* turned away.
Preceded ==
    \A i \in DOMAIN backend : backend[i].src \in Chains =>
        \A n \in 1 .. backend[i].n - 1 :
            \/ file[backend[i].src][n] = "bad"
            \/ Rec(backend[i].src, n) \in TurnedAway
            \/ \E k \in 1 .. i : backend[k] = Rec(backend[i].src, n)

\* The backend has the lines of a push whose key it knows.
KeyKnown == keyed => Range(batch.lines) \subseteq Range(backend)

\* Until lines may be sent again: what the backend took or the gate turned away comes
\* before what is in memory.
Fresh ==
    ~ledger.again =>
        /\ Ascending(backend)
        /\ keyed \/ Below(Range(backend), Range(Old.lines))
        /\ Below(Range(backend), Range(pending.lines))
        /\ Below(Range(backend), Range(events))
        /\ Below(Range(backend), Range(queue))
        /\ Below(ledger.withheld, Range(events))
        /\ \A l \in Range(backend) \union ledger.withheld : l.src \in Chains => l.n <= offset[l.src]
        /\ ledger.withheld \intersect Range(Old.lines) = {}
        /\ ledger.withheld \intersect Range(pending.lines) = {}
        /\ ledger.withheld \intersect Range(backend) = {}

StreamInv ==
    /\ StreamTypeOK /\ Shape /\ Origins /\ Gated /\ Queued /\ Standing
    /\ Passed /\ Remembered /\ Preceded /\ KeyKnown /\ Fresh

-----------------------------------------------------------------------------
(* Lines in the order of their source *)

\* The empty sequence is in order.
LEMMA AscendingEmpty == Ascending(<<>>)
  BY DEF Ascending

\* A line behind all others goes to the end.
LEMMA AscendingAppend ==
    ASSUME NEW S, NEW s \in Seq(S), NEW x \in S, Ascending(s), Below(Range(s), {x})
    PROVE  Ascending(Append(s, x))
<1>. DEFINE t == Append(s, x)
<1>1. /\ Len(s) \in Nat /\ DOMAIN s = 1 .. Len(s) /\ DOMAIN t = 1 .. Len(s) + 1
      /\ t[Len(s) + 1] = x /\ \A i \in 1 .. Len(s) : t[i] = s[i]
  OBVIOUS
<1>2. \A i \in 1 .. Len(s) : s[i].src = x.src => s[i].n < x.n
  BY <1>1 DEF Below, Range
<1>. HIDE DEF t
<1>3. SUFFICES ASSUME NEW i \in 1 .. Len(s) + 1, NEW j \in 1 .. Len(s) + 1, i < j,
                      t[i].src = t[j].src
               PROVE  t[i].n < t[j].n
  BY <1>1 DEF Ascending, t
<1>4. i \in 1 .. Len(s) /\ (j \in 1 .. Len(s) \/ j = Len(s) + 1)
  BY <1>1, <1>3
<1>. QED BY <1>1, <1>2, <1>3, <1>4 DEF Ascending

\* Lines in order, followed by later lines in order.
LEMMA AscendingConcat ==
    ASSUME NEW S, NEW s \in Seq(S), NEW t \in Seq(S), Ascending(s), Ascending(t),
           Below(Range(s), Range(t))
    PROVE  Ascending(s \o t)
<1>. DEFINE u == s \o t
<1>1. /\ Len(s) \in Nat /\ Len(t) \in Nat /\ DOMAIN s = 1 .. Len(s) /\ DOMAIN t = 1 .. Len(t)
      /\ DOMAIN u = 1 .. Len(s) + Len(t)
      /\ \A i \in 1 .. Len(s) : u[i] = s[i]
      /\ \A i \in 1 .. Len(s) + Len(t) : i > Len(s) =>
            i - Len(s) \in 1 .. Len(t) /\ u[i] = t[i - Len(s)]
  OBVIOUS
<1>2. \A i \in 1 .. Len(s), j \in 1 .. Len(t) : s[i].src = t[j].src => s[i].n < t[j].n
  BY <1>1 DEF Below, Range
<1>. HIDE DEF u
<1>3. SUFFICES ASSUME NEW i \in 1 .. Len(s) + Len(t), NEW j \in 1 .. Len(s) + Len(t), i < j,
                      u[i].src = u[j].src
               PROVE  u[i].n < u[j].n
  BY <1>1 DEF Ascending, u
<1>4. CASE j \in 1 .. Len(s)
  <2>1. i \in 1 .. Len(s)
    BY <1>1, <1>3, <1>4
  <2>. QED BY <1>1, <1>3, <1>4, <2>1 DEF Ascending
<1>5. CASE i \in 1 .. Len(s) /\ j \notin 1 .. Len(s)
  <2>1. j > Len(s)
    BY <1>1, <1>5
  <2>. QED BY <1>1, <1>2, <1>3, <1>5, <2>1
<1>6. CASE i \notin 1 .. Len(s) /\ j \notin 1 .. Len(s)
  <2>1. i > Len(s) /\ j > Len(s)
    BY <1>1, <1>6
  <2>2. /\ i - Len(s) \in 1 .. Len(t) /\ u[i] = t[i - Len(s)]
        /\ j - Len(s) \in 1 .. Len(t) /\ u[j] = t[j - Len(s)]
    BY <1>1, <2>1
  <2>3. i - Len(s) < j - Len(s)
    BY <1>1, <1>3
  <2>. QED BY <1>1, <1>3, <2>2, <2>3 DEF Ascending
<1>. QED BY <1>4, <1>5, <1>6, <1>1, <1>3

\* Without its head the sequence is in order, and behind the head.
LEMMA AscendingTail ==
    ASSUME NEW S, NEW s \in Seq(S), s # <<>>, Ascending(s)
    PROVE  Ascending(Tail(s)) /\ Below({Head(s)}, Range(Tail(s)))
<1>. DEFINE t == Tail(s)
<1>1. /\ Len(s) \in Nat /\ Len(s) # 0 /\ DOMAIN s = 1 .. Len(s) /\ DOMAIN t = 1 .. Len(s) - 1
      /\ \A i \in 1 .. Len(s) - 1 : t[i] = s[i + 1]
      /\ Head(s) = s[1]
  OBVIOUS
<1>. HIDE DEF t
<1>2. \A i \in 1 .. Len(s) - 1 : i + 1 \in 1 .. Len(s) /\ 1 < i + 1
  BY <1>1
<1>3. \A i, j \in 1 .. Len(s) - 1 : i < j => i + 1 < j + 1
  BY <1>1
<1>4. 1 \in 1 .. Len(s)
  BY <1>1
<1>5. Ascending(t)
  BY <1>1, <1>2, <1>3 DEF Ascending
<1>6. Below({s[1]}, Range(t))
  BY <1>1, <1>2, <1>4 DEF Ascending, Below, Range
<1>. QED BY <1>1, <1>5, <1>6 DEF t

\* Part of an ascending sequence, in its order.
LEMMA AscendingKept ==
    ASSUME NEW S, NEW s \in Seq(S), NEW t \in Seq(S), NEW K, IsKept(t, s, K, Len(s)), Ascending(s)
    PROVE  Ascending(t) /\ Range(t) = Range(s) \intersect K
<1>1. PICK e : Embeds(e, t, s, Len(s))
  BY DEF IsKept
<1>2. /\ Len(s) \in Nat /\ Len(t) \in Nat /\ DOMAIN s = 1 .. Len(s) /\ DOMAIN t = 1 .. Len(t)
      /\ e \in [1 .. Len(t) -> 1 .. Len(s)]
  BY <1>1 DEF Embeds
<1>3. Ascending(t)
  BY <1>1, <1>2 DEF Embeds, Ascending
<1>4. Range(t) \subseteq Range(s) \intersect K
  BY <1>1, <1>2 DEF Embeds, IsKept, Range
<1>5. Range(s) \intersect K \subseteq Range(t)
  BY <1>2 DEF IsKept, Range
<1>. QED BY <1>3, <1>4, <1>5

-----------------------------------------------------------------------------
(* One poll reads what is there beyond the offsets *)

Unseen == UNION {Unread(c) : c \in Chains}

\* What a poll finds are the records beyond the offsets that parse.
LEMMA UnseenLines ==
    ASSUME StreamTypeOK, Standing
    PROVE  \A l : l \in Unseen <=>
              /\ l.src \in Chains /\ l.n \in 1 .. Len(file[l.src]) /\ l = Rec(l.src, l.n)
              /\ offset[l.src] < l.n /\ l.scope # "bad"
<1>1. \A c \in Chains : Len(file[c]) \in Nat /\ offset[c] \in Nat
  BY StreamConstants DEF StreamTypeOK, Marks
<1>2. \A c \in Chains, n \in Nat :
          n \in offset[c] + 1 .. Len(file[c]) <=> n \in 1 .. Len(file[c]) /\ offset[c] < n
  BY <1>1
<1>3. \A c, n : Rec(c, n).src = c /\ Rec(c, n).n = n /\ Rec(c, n).scope = file[c][n]
  BY DEF Rec, Line
<1>4. ASSUME NEW l, l \in Unseen
      PROVE  /\ l.src \in Chains /\ l.n \in 1 .. Len(file[l.src]) /\ l = Rec(l.src, l.n)
             /\ offset[l.src] < l.n /\ l.scope # "bad"
  <2>1. PICK c \in Chains : l \in Unread(c)
    BY <1>4 DEF Unseen
  <2>2. PICK n \in offset[c] + 1 .. Len(file[c]) : l = Rec(c, n) /\ file[c][n] # "bad"
    BY <2>1 DEF Unread
  <2>. QED BY <1>1, <1>2, <1>3, <2>2
<1>5. ASSUME NEW l, l.src \in Chains, l.n \in 1 .. Len(file[l.src]), l = Rec(l.src, l.n),
             offset[l.src] < l.n, l.scope # "bad"
      PROVE  l \in Unseen
  <2>1. l.n \in offset[l.src] + 1 .. Len(file[l.src]) /\ file[l.src][l.n] # "bad"
    BY <1>1, <1>3, <1>5
  <2>2. l \in Unread(l.src)
    BY <1>5, <2>1 DEF Unread
  <2>. QED BY <1>5, <2>2 DEF Unseen
<1>. QED BY <1>4, <1>5

\* There are finitely many of them.
LEMMA UnseenFinite ==
    ASSUME StreamTypeOK, Standing
    PROVE  IsFiniteSet(Unseen)
<1>. DEFINE D == Chains \X (1 .. MaxRecords)
            f == [l \in Unseen |-> <<l.src, l.n>>]
<1>1. IsFiniteSet(D)
  <2>1. MaxRecords \in Nat /\ IsFiniteSet(Chains)
    BY StreamConstants
  <2>2. IsFiniteSet(1 .. MaxRecords)
    BY <2>1, FS_Interval
  <2>. QED BY <2>1, <2>2, FS_Product
<1>2. \A l \in Unseen : l.src \in Chains /\ l.n \in 1 .. MaxRecords /\ l = Rec(l.src, l.n)
  <2>1. \A c \in Chains : Len(file[c]) \in Nat /\ Len(file[c]) <= MaxRecords /\ MaxRecords \in Nat
    BY StreamConstants DEF StreamTypeOK, Standing
  <2>. QED BY <2>1, UnseenLines
<1>3. f \in [Unseen -> D]
  BY <1>2
<1>4. \A l, m \in Unseen : f[l] = f[m] => l = m
  BY <1>2
<1>. HIDE DEF D, f
<1>5. f \in Injection(Unseen, D)
  BY <1>3, <1>4 DEF Injection, IsInjective
<1>. QED BY <1>1, <1>5, FS_Injection

\* What a poll may return holds every line beyond the offsets, each chain's in order.
LEMMA PolledLines ==
    ASSUME StreamTypeOK, Standing, NEW s \in SetToSeqs(Unseen), ChainByChain(s)
    PROVE  s \in Seq(Lines) /\ Range(s) = Unseen /\ Ascending(s)
<1>. DEFINE D == 1 .. Cardinality(Unseen)
<1>1. Cardinality(Unseen) \in Nat
  BY UnseenFinite, FS_CardinalityType
<1>2. s \in [D -> Unseen] /\ \A i, j \in D : i # j => s[i] # s[j]
  BY DEF SetToSeqs
<1>3. s \in Seq(Unseen)
  BY <1>1, <1>2
<1>4. Range(s) = Unseen
  <2>1. IsFiniteSet(D) /\ Cardinality(D) = Cardinality(Unseen)
    BY <1>1, FS_Interval
  <2>. HIDE DEF D
  <2>2. s \in Injection(D, Unseen)
    BY <1>2 DEF Injection, IsInjective
  <2>3. s \in Surjection(D, Unseen)
    BY <2>1, <2>2, UnseenFinite, FS_Injection
  <2>. QED BY <1>2, <2>3 DEF Surjection, Range
<1>5. Unseen \subseteq Lines
  <2>. SUFFICES ASSUME NEW l \in Unseen PROVE l \in Lines
    OBVIOUS
  <2>1. /\ l.src \in Chains /\ l.n \in 1 .. Len(file[l.src]) /\ l = Rec(l.src, l.n)
    BY UnseenLines
  <2>2. file[l.src] \in Seq(Classes) /\ Len(file[l.src]) <= MaxRecords
    BY <2>1 DEF StreamTypeOK, Standing
  <2>3. MaxRecords \in Nat /\ MaxJournal \in Nat
    BY StreamConstants
  <2>4. l.n \in 1 .. MaxRecords + MaxJournal /\ file[l.src][l.n] \in Classes
    BY <2>1, <2>2, <2>3
  <2>5. file[l.src][l.n] \in {"public", "team", "private", "bad"}
    BY <2>4, StreamConstants
  <2>. QED BY <2>1, <2>4, <2>5 DEF Lines, Rec
<1>6. s \in Seq(Lines)
  BY <1>3, <1>5
<1>7. Ascending(s)
  BY DEF ChainByChain, Ascending
<1>. QED BY <1>4, <1>6, <1>7

-----------------------------------------------------------------------------
(* The ledger *)

LedgerType == [withheld : SUBSET Lines, unnamed : SUBSET Lines, refused : SUBSET Lines,
               again : BOOLEAN, journal : 0 .. MaxJournal,
               changes : 0 .. MaxChanges, faults : 0 .. MaxFaults]

\* h says of the lines what g says
SameLines(h, g) ==
    h.withheld = g.withheld /\ h.unnamed = g.unnamed /\ h.refused = g.refused

\* A counted fault leaves the lines of the ledger alone.
LEMMA LedgerFault ==
    ASSUME NEW h \in LedgerType, h.faults < MaxFaults
    PROVE  /\ Faulted(h) \in LedgerType /\ SameLines(Faulted(h), h)
           /\ Faulted(h).again = h.again /\ Faulted(h).journal = h.journal
<1>1. h.faults + 1 \in 0 .. MaxFaults
  BY StreamConstants DEF LedgerType
<1>. QED BY <1>1 DEF LedgerType, Faulted, SameLines

\* So does the mark that lines may be sent again.
LEMMA LedgerAgain ==
    ASSUME NEW h \in LedgerType, NEW b \in BOOLEAN
    PROVE  /\ [h EXCEPT !.again = b] \in LedgerType /\ SameLines([h EXCEPT !.again = b], h)
           /\ [h EXCEPT !.again = b].again = b /\ [h EXCEPT !.again = b].journal = h.journal
  BY DEF LedgerType, SameLines

\* So does a counted change of the surroundings.
LEMMA LedgerChange ==
    ASSUME ledger \in LedgerType, Change
    PROVE  /\ ledger' \in LedgerType /\ SameLines(ledger', ledger)
           /\ ledger'.again = ledger.again /\ ledger'.journal = ledger.journal
<1>1. ledger.changes + 1 \in 0 .. MaxChanges
  BY StreamConstants DEF LedgerType, Change
<1>. QED BY <1>1 DEF LedgerType, Change, SameLines

-----------------------------------------------------------------------------
(* Types *)

\* The bounds are numbers.
LEMMA Numbers ==
    /\ MaxRecords \in Nat /\ MaxJournal \in Nat /\ MaxFaults \in Nat /\ MaxChanges \in Nat
    /\ QueueCap \in Nat /\ QueueCap # 0 /\ HeldCap \in Nat /\ HeldCap # 0
    /\ Retries \in Nat /\ Retries # 0
  BY StreamConstants

\* Zero is the number of an attempt.
LEMMA FirstAttempt == 0 \in 0 .. Retries - 1
  BY Numbers

\* The fields of a line.
LEMMA LineType == \A l \in Lines : l.n \in Nat /\ l.n \in 1 .. MaxRecords + MaxJournal /\
                                   l.src \in Chains \union {Bus} /\ l = Line(l.src, l.n, l.scope)
  BY Numbers DEF Lines, Line

\* The marks of a chain.
LEMMA MarkType == \A m \in Marks, c \in Chains : m[c] \in Nat /\ m[c] \in 0 .. MaxRecords
  BY Numbers DEF Marks

\* The empty batch is a batch, with no line and no advance.
LEMMA EmptyBatch ==
    /\ IsBatch(Empty) /\ Zero \in Marks /\ Range(Empty.lines) = {} /\ Ascending(Empty.lines)
    /\ \A c \in Chains : Empty.adv[c] = 0 /\ Zero[c] = 0
<1>1. Zero \in Marks
  BY Numbers DEF Zero, Marks
<1>2. Empty.lines = <<>> /\ Empty.adv = Zero
  BY DEF Empty
<1>. QED BY <1>1, <1>2, RangeEmpty, AscendingEmpty DEF IsBatch, Zero

\* StreamTypeOK in two parts: the control state, and the lines with their marks.
ControlType ==
    /\ auth \in {"none", "bearer", "session"}
    /\ {flag, team, cancel, paused, first, keyed} \subseteq BOOLEAN
    /\ pc \in {"off", "poll", "seal", "check", "push", "last", "done"}
    /\ attempt \in 0 .. Retries - 1

LinesType ==
    /\ file \in [Chains -> Seq(Classes)] /\ saved \in Marks /\ cursor \in Marks
    /\ offset \in Marks /\ events \in Seq(Lines)
    /\ queue \in Seq(Lines) /\ Len(queue) <= QueueCap
    /\ IsBatch(pending) /\ IsBatch(batch) /\ Len(held) <= 1 /\ \A b \in Range(held) : IsBatch(b)
    /\ backend \in Seq(Lines) /\ ledger \in LedgerType

\* The two parts make up the type invariant.
LEMMA TypeParts == StreamTypeOK <=> ControlType /\ LinesType
  BY DEF StreamTypeOK, ControlType, LinesType, LedgerType

\* The same after a step.
LEMMA TypePartsNext == StreamTypeOK' <=> ControlType' /\ LinesType'
  BY DEF StreamTypeOK, ControlType, LinesType, LedgerType

\* The sequences the publisher holds are sequences of lines.
LEMMA MemoryTypes ==
    ASSUME StreamTypeOK, Shape
    PROVE  /\ events \in Seq(Lines) /\ queue \in Seq(Lines) /\ backend \in Seq(Lines)
           /\ pending.lines \in Seq(Lines) /\ batch.lines \in Seq(Lines)
           /\ Old.lines \in Seq(Lines) /\ Old.adv \in Marks /\ pending.adv \in Marks
           /\ Range(events) \subseteq Lines /\ Range(queue) \subseteq Lines
           /\ Range(backend) \subseteq Lines /\ Range(pending.lines) \subseteq Lines
           /\ Range(Old.lines) \subseteq Lines /\ IsBatch(Old)
           /\ ledger \in LedgerType
<1>1. IsBatch(Old)
  <2>1. CASE held = <<>>
    BY <2>1 DEF Old, StreamTypeOK
  <2>2. CASE held # <<>>
    <3>1. PICK b : held = <<b>>
      BY <2>2 DEF Shape
    <3>2. Range(held) = {held[1]} /\ Old = held[1]
      BY <2>2, <3>1 DEF Range, Old
    <3>. QED BY <3>2 DEF StreamTypeOK
  <2>. QED BY <2>1, <2>2
<1>2. /\ events \in Seq(Lines) /\ queue \in Seq(Lines) /\ backend \in Seq(Lines)
      /\ pending.lines \in Seq(Lines) /\ batch.lines \in Seq(Lines)
      /\ Old.lines \in Seq(Lines) /\ Old.adv \in Marks /\ pending.adv \in Marks
  BY <1>1 DEF StreamTypeOK, IsBatch
<1>3. ledger \in LedgerType
  BY DEF StreamTypeOK, LedgerType
<1>. QED BY <1>1, <1>2, <1>3, RangeType

\* Lengths and positions in a chain are numbers.
LEMMA ChainTypes ==
    ASSUME StreamTypeOK
    PROVE  \A c \in Chains :
              /\ Len(file[c]) \in Nat /\ file[c] \in Seq(Classes)
              /\ saved[c] \in Nat /\ cursor[c] \in Nat /\ offset[c] \in Nat
  BY MarkType DEF StreamTypeOK

-----------------------------------------------------------------------------
(* Steps that leave the lines where they are *)

Still == <<file, saved, cursor, offset, events, queue, pending, held, batch, keyed, backend>>

\* A step that moves no line keeps the invariant.
LEMMA StillStep ==
    ASSUME StreamInv, StreamTypeOK', UNCHANGED Still, SameLines(ledger', ledger),
           ledger'.again = ledger.again, ledger'.journal = ledger.journal,
           pc' = "off" <=> pc = "off", pc = "done" => pc' = "done",
           pc \in {"push", "last"} <=> pc' \in {"push", "last"},
           events = <<>> \/ pc' = "seal"
    PROVE  StreamInv'
<1>1. Old' = Old
  BY DEF Still, Old
<1>2. Shape'
  BY DEF StreamInv, Shape, Still, SameLines, Empty, Zero
<1>3. Origins' /\ Gated'
  BY <1>1 DEF StreamInv, Origins, Gated, FromChain, FromBus, Rec, Still, SameLines
<1>4. Queued' /\ Standing'
  BY <1>1 DEF StreamInv, Queued, Standing, Below, Ascending, Still
<1>5. \A c \in Chains, n \in Nat : Done(c, n) => Done(c, n)'
  BY DEF Done, Settled, Rec, Still, SameLines
<1>6. Passed' /\ Remembered'
  <2>1. \A c \in Chains : saved[c] \in Nat /\ cursor[c] \in Nat /\ offset[c] \in Nat
    BY ChainTypes DEF StreamInv
  <2>2. Passed'
    BY <1>5, <2>1 DEF StreamInv, Passed, Still
  <2>3. Remembered'
    BY <1>1, <1>5, <2>1 DEF StreamInv, Remembered, Still, Rec
  <2>. QED BY <2>2, <2>3
<1>7. Preceded'
  BY DEF StreamInv, Preceded, TurnedAway, Rec, Still, SameLines
<1>8. KeyKnown'
  BY DEF StreamInv, KeyKnown, Still
<1>9. Fresh'
  BY <1>1 DEF StreamInv, Fresh, Still, Below, Ascending, SameLines
<1>. QED BY <1>2, <1>3, <1>4, <1>6, <1>7, <1>8, <1>9 DEF StreamInv

\* So does the end of the process: what is lost is beyond the saved cursor.
LEMMA GoneStep ==
    ASSUME StreamInv, StreamTypeOK', Gone, UNCHANGED <<file, saved, backend>>,
           SameLines(ledger', ledger), ledger'.again = TRUE, ledger'.journal = ledger.journal
    PROVE  StreamInv'
<1>1. Old' = Empty
  BY DEF Gone, Old, Empty, Zero
<1>2. /\ Range(Old.lines)' = {} /\ Range(pending.lines)' = {} /\ Range(events)' = {}
      /\ Range(queue)' = {} /\ Ascending(Old.lines)' /\ Ascending(pending.lines)'
      /\ Ascending(events)' /\ Ascending(queue)'
      /\ \A c \in Chains : Old.adv[c]' = 0 /\ pending.adv[c]' = 0
  <2>1. pending' = Empty /\ events' = <<>> /\ queue' = <<>>
    BY DEF Gone, Empty, Zero
  <2>. QED BY <1>1, <2>1, EmptyBatch, RangeEmpty, AscendingEmpty
<1>3. /\ pc' = "off" /\ held' = <<>> /\ batch' = Empty' /\ pending' = Empty' /\ ~keyed'
      /\ events' = <<>> /\ queue' = <<>> /\ offset' = Zero' /\ cursor' = Zero'
  BY DEF Gone, Empty, Zero
<1>4. Shape'
  BY <1>3 DEF Shape
<1>5. Origins' /\ Gated'
  BY <1>2 DEF StreamInv, Origins, Gated, FromChain, FromBus, Rec, SameLines
<1>6. Queued'
  BY <1>2 DEF Queued, Below
<1>7. \A c \in Chains : offset'[c] = 0 /\ cursor'[c] = 0
  BY <1>3 DEF Zero
<1>8. Standing'
  BY <1>2, <1>3, <1>7, ChainTypes DEF StreamInv, Standing
<1>9. \A c \in Chains, n \in Nat : Done(c, n) => Done(c, n)'
  BY DEF Done, Settled, Rec, SameLines
<1>10. Passed' /\ Remembered'
  BY <1>7, <1>9, ChainTypes DEF StreamInv, Passed, Remembered
<1>11. Preceded'
  BY DEF StreamInv, Preceded, TurnedAway, Rec, SameLines
<1>12. KeyKnown' /\ Fresh'
  BY <1>3 DEF KeyKnown, Fresh
<1>. QED BY <1>4, <1>5, <1>6, <1>8, <1>10, <1>11, <1>12 DEF StreamInv

-----------------------------------------------------------------------------
(* Chains grow, the task starts and reads *)

\* AppendRecord keeps the invariant: the new record is beyond every position.
LEMMA AppendStep ==
    ASSUME StreamInv, NEW c \in Chains, NEW s \in Classes, AppendRecord(c, s)
    PROVE  StreamInv'
<1>. USE DEF account, control, source, batcher, push
<1>1. /\ UNCHANGED <<saved, cursor, offset, events, queue, pending, held, batch, keyed, backend>>
      /\ UNCHANGED <<auth, team, pc, cancel, paused, flag, first, attempt, ledger>>
      /\ Len(file[c]) < MaxRecords /\ file' = [file EXCEPT ![c] = Append(file[c], s)]
  BY DEF AppendRecord
<1>2. StreamTypeOK /\ Shape /\ Origins /\ Gated /\ Queued /\ Standing
  BY DEF StreamInv
<1>3. Old' = Old
  BY <1>1 DEF Old
<1>4. /\ file' \in [Chains -> Seq(Classes)]
      /\ \A d \in Chains : /\ Len(file[d]) \in Nat /\ Len(file'[d]) \in Nat
                           /\ Len(file[d]) <= Len(file'[d]) /\ Len(file'[d]) <= MaxRecords
                           /\ \A n \in 1 .. Len(file[d]) : file'[d][n] = file[d][n]
  <2>1. file \in [Chains -> Seq(Classes)] /\ \A d \in Chains : Len(file[d]) <= MaxRecords
    BY <1>2 DEF StreamTypeOK, Standing
  <2>2. /\ file[c] \in Seq(Classes) /\ Append(file[c], s) \in Seq(Classes)
        /\ Len(file[c]) \in Nat
        /\ Len(Append(file[c], s)) = Len(file[c]) + 1
        /\ \A n \in 1 .. Len(file[c]) : Append(file[c], s)[n] = file[c][n]
    BY <2>1
  <2>3. file'[c] = Append(file[c], s) /\ \A d \in Chains : d # c => file'[d] = file[d]
    BY <1>1, <2>1
  <2>4. file' \in [Chains -> Seq(Classes)]
    BY <1>1, <2>1, <2>2
  <2>5. \A d \in Chains : Len(file[d]) \in Nat
    BY <2>1
  <2>6. Len(file'[c]) = Len(file[c]) + 1 /\ Len(file'[c]) <= MaxRecords
    BY <1>1, <2>2, <2>3, Numbers
  <2>7. ASSUME NEW d \in Chains
        PROVE  /\ Len(file[d]) \in Nat /\ Len(file'[d]) \in Nat
               /\ Len(file[d]) <= Len(file'[d]) /\ Len(file'[d]) <= MaxRecords
               /\ \A n \in 1 .. Len(file[d]) : file'[d][n] = file[d][n]
    <3>1. CASE d = c
      BY <2>2, <2>3, <2>6, <3>1
    <3>2. CASE d # c
      BY <2>1, <2>3, <2>5, <3>2
    <3>. QED BY <3>1, <3>2
  <2>. QED BY <2>4, <2>7
<1>5. StreamTypeOK'
  <2>1. ControlType /\ LinesType
    BY <1>2, TypeParts
  <2>2. ControlType'
    BY <1>1, <2>1 DEF ControlType
  <2>3. LinesType'
    BY <1>1, <1>4, <2>1 DEF LinesType, IsBatch
  <2>. QED BY <2>2, <2>3, TypePartsNext
<1>6. Shape'
  BY <1>1, <1>2 DEF Shape, Empty, Zero
<1>7. \A d \in Chains : \A n \in 1 .. Len(file[d]) : Rec(d, n)' = Rec(d, n)
  BY <1>4 DEF Rec, Line
<1>8. Origins' /\ Gated'
  <2>1. \A l : FromChain(l) => FromChain(l)'
    BY <1>4, <1>7 DEF FromChain
  <2>2. \A l : FromBus(l) => FromBus(l)'
    BY <1>1 DEF FromBus
  <2>3. Origins'
    BY <1>1, <1>2, <1>3, <2>1, <2>2 DEF Origins
  <2>. QED BY <1>1, <1>2, <1>3, <2>3 DEF Gated
<1>9. Queued'
  BY <1>1, <1>2, <1>3 DEF Queued, Below, Ascending
<1>10. Standing'
  BY <1>1, <1>2, <1>3, <1>4, ChainTypes DEF Standing
<1>11. \A d \in Chains : \A n \in 1 .. Len(file[d]) : Done(d, n) => Done(d, n)'
  BY <1>1, <1>4, <1>7 DEF Done, Settled
<1>12. \A d \in Chains :
          /\ \A n \in 1 .. saved[d] : n \in 1 .. Len(file[d])
          /\ \A n \in 1 .. cursor[d] : n \in 1 .. Len(file[d])
          /\ \A n \in 1 .. offset[d] : n \in 1 .. Len(file[d])
  BY <1>2, ChainTypes DEF Standing
<1>13. Passed'
  BY <1>1, <1>11, <1>12 DEF StreamInv, Passed
<1>14. Remembered'
  BY <1>1, <1>3, <1>7, <1>11, <1>12 DEF StreamInv, Remembered
<1>15. Preceded'
  <2>1. backend' = backend /\ TurnedAway' = TurnedAway
    BY <1>1 DEF TurnedAway
  <2>. SUFFICES ASSUME NEW i \in DOMAIN backend, backend[i].src \in Chains,
                       NEW n \in 1 .. backend[i].n - 1
                PROVE  \/ file'[backend[i].src][n] = "bad"
                       \/ Rec(backend[i].src, n)' \in TurnedAway
                       \/ \E k \in 1 .. i : backend[k] = Rec(backend[i].src, n)'
    BY <2>1 DEF Preceded
  <2>2. backend[i] \in Range(backend)
    BY RangeElement
  <2>3. FromChain(backend[i])
    BY <1>2, <2>2, StreamConstants DEF Origins, FromBus
  <2>4. n \in 1 .. Len(file[backend[i].src])
    BY <1>4, <2>3 DEF FromChain
  <2>. QED BY <1>1, <1>4, <1>7, <2>4 DEF StreamInv, Preceded
<1>16. KeyKnown' /\ Fresh'
  BY <1>1, <1>3 DEF StreamInv, KeyKnown, Fresh, Below, Ascending
<1>. QED
  BY <1>5, <1>6, <1>8, <1>9, <1>10, <1>13, <1>14, <1>15, <1>16 DEF StreamInv

\* Start keeps the invariant: reading begins at the saved cursor.
LEMMA StartStep ==
    ASSUME StreamInv, Start
    PROVE  StreamInv'
<1>. USE DEF account, control, source, batcher, push
<1>1. /\ UNCHANGED <<file, saved, events, queue, pending, held, batch, keyed, backend>>
      /\ UNCHANGED <<auth, team, flag, first, attempt, ledger>>
      /\ pc = "off" /\ pc' = "poll" /\ cursor' = saved /\ offset' = saved
      /\ paused' = flag /\ cancel' = FALSE
  BY DEF Start
<1>2. StreamTypeOK /\ Shape /\ Origins /\ Gated /\ Queued /\ Standing
  BY DEF StreamInv
<1>3. /\ events = <<>> /\ queue = <<>> /\ pending = Empty /\ batch = Empty /\ held = <<>>
      /\ Old = Empty /\ Old' = Empty /\ ~keyed
  BY <1>1, <1>2 DEF Shape, Old
<1>4. StreamTypeOK'
  <2>1. ControlType /\ LinesType
    BY <1>2, TypeParts
  <2>2. ControlType'
    BY <1>1, <2>1 DEF ControlType
  <2>3. LinesType'
    BY <1>1, <2>1 DEF LinesType, IsBatch
  <2>. QED BY <2>2, <2>3, TypePartsNext
<1>5. Shape'
  BY <1>1, <1>3 DEF Shape, Empty, Zero
<1>6. Origins' /\ Gated'
  BY <1>1, <1>2, <1>3 DEF Origins, Gated, FromChain, FromBus, Rec
<1>7. Queued'
  BY <1>1, <1>2, <1>3 DEF Queued, Below, Ascending
<1>8. Standing'
  <2>1. /\ Range(Old.lines)' = {} /\ Range(pending.lines)' = {} /\ Range(events)' = {}
        /\ \A d \in Chains : Old.adv[d]' = 0 /\ pending.adv[d]' = 0
    BY <1>1, <1>3, EmptyBatch, RangeEmpty
  <2>. QED BY <1>1, <1>2, <2>1, ChainTypes DEF Standing
<1>9. \A d \in Chains, n \in Nat : Done(d, n) => Done(d, n)'
  BY <1>1 DEF Done, Settled, Rec
<1>10. Passed' /\ Remembered'
  BY <1>1, <1>9, ChainTypes DEF StreamInv, Passed, Remembered
<1>11. Preceded'
  BY <1>1 DEF StreamInv, Preceded, TurnedAway, Rec
<1>12. KeyKnown'
  BY <1>1, <1>3 DEF KeyKnown
<1>13. Fresh'
  <2>. SUFFICES ASSUME ~ledger.again PROVE Fresh'
    BY <1>1 DEF Fresh
  <2>1. backend' = <<>> /\ ledger'.withheld = {}
    BY <1>1, <1>2 DEF Shape
  <2>2. Range(backend)' = {} /\ Ascending(backend)'
    BY <2>1, RangeEmpty, AscendingEmpty
  <2>. QED BY <2>1, <2>2 DEF Fresh, Below
<1>. QED
  BY <1>4, <1>5, <1>6, <1>7, <1>8, <1>10, <1>11, <1>12, <1>13 DEF StreamInv

\* Poll keeps the invariant: every record it passes is among the events.
LEMMA PollStep ==
    ASSUME StreamInv, Poll, ~paused
    PROVE  StreamInv'
<1>. USE DEF account, control, source, batcher, push
<1>1. /\ UNCHANGED <<file, saved, cursor, queue, pending, held, batch, keyed, backend>>
      /\ UNCHANGED <<auth, team, flag, paused, cancel, first, attempt, ledger>>
      /\ pc = "poll" /\ pc' = "seal" /\ offset' = [c \in Chains |-> Len(file[c])]
      /\ \E s \in SetToSeqs(Unseen) : ChainByChain(s) /\ events' = s
  BY DEF Poll, Unseen
<1>2. StreamTypeOK /\ Shape /\ Origins /\ Gated /\ Queued /\ Standing
  BY DEF StreamInv
<1>3. events' \in Seq(Lines) /\ Range(events') = Unseen /\ Ascending(events')
  BY <1>1, <1>2, PolledLines
<1>4. Old' = Old
  BY <1>1 DEF Old
<1>5. \A c \in Chains : /\ offset'[c] = Len(file[c]) /\ offset[c] <= offset'[c]
                        /\ offset'[c] <= MaxRecords /\ offset'[c] \in Nat
  BY <1>1, <1>2, ChainTypes DEF Standing
<1>6. StreamTypeOK'
  <2>1. offset' \in Marks
    BY <1>1, <1>5, Numbers DEF Marks
  <2>2. ControlType /\ LinesType
    BY <1>2, TypeParts
  <2>3. ControlType'
    BY <1>1, <2>2 DEF ControlType
  <2>4. LinesType'
    BY <1>1, <1>3, <2>1, <2>2 DEF LinesType, IsBatch
  <2>. QED BY <2>3, <2>4, TypePartsNext
<1>7. Shape'
  BY <1>1, <1>2 DEF Shape, Empty, Zero
<1>8. \A l \in Unseen : FromChain(l) /\ offset[l.src] < l.n
  BY <1>2, UnseenLines DEF FromChain
<1>9. Origins' /\ Gated'
  <2>1. \A l : FromChain(l) => FromChain(l)'
    BY <1>1 DEF FromChain, Rec
  <2>. QED BY <1>1, <1>2, <1>3, <1>4, <1>8, <2>1 DEF Origins, Gated, FromBus
<1>10. \A c \in Chains : \A l \in Range(pending.lines) \union Range(Old.lines) :
          l.src = c => l.n <= offset[c] /\ l.n \in Nat
  <2>1. Range(pending.lines) \subseteq Lines /\ Range(Old.lines) \subseteq Lines
        /\ pending.adv \in Marks /\ Old.adv \in Marks
    BY <1>2, MemoryTypes
  <2>2. \A c \in Chains : pending.adv[c] <= offset[c] /\ Old.adv[c] <= offset[c]
                          /\ pending.adv[c] \in Nat /\ Old.adv[c] \in Nat
    BY <1>2, <2>1, MarkType DEF Standing
  <2>. QED BY <1>2, <2>1, <2>2, LineType, ChainTypes DEF Standing
<1>11. \A l \in Unseen : l.src \in Chains /\ l.n \in Nat /\ l.n <= offset'[l.src]
                         /\ l.src # Bus /\ offset[l.src] \in Nat
  BY <1>2, <1>5, <1>8, ChainTypes, StreamConstants DEF FromChain
<1>12. Queued'
  <2>1. Below(Range(Old.lines), Unseen) /\ Below(Range(pending.lines), Unseen)
    BY <1>8, <1>10, <1>11 DEF Below
  <2>2. Below(Range(Old.lines), Range(events))' /\ Below(Range(pending.lines), Range(events))'
    BY <1>1, <1>3, <1>4, <2>1
  <2>. QED BY <1>1, <1>2, <1>3, <1>4, <2>2 DEF Queued
<1>13. Standing'
  <2>1. \A c \in Chains : \A l \in Unseen : l.src = c =>
            /\ saved[c] < l.n /\ cursor[c] < l.n
            /\ Old.adv[c] < l.n /\ pending.adv[c] < l.n /\ l.n <= offset'[c]
    <3>1. pending.adv \in Marks /\ Old.adv \in Marks
      BY <1>2, MemoryTypes
    <3>2. \A c \in Chains :
              /\ saved[c] <= offset[c] /\ cursor[c] <= offset[c]
              /\ Old.adv[c] <= offset[c] /\ pending.adv[c] <= offset[c]
              /\ Old.adv[c] \in Nat /\ pending.adv[c] \in Nat
              /\ saved[c] \in Nat /\ cursor[c] \in Nat /\ offset[c] \in Nat
      BY <1>1, <1>2, <3>1, MarkType, ChainTypes DEF Standing
    <3>. QED BY <1>8, <1>11, <3>2
  <2>2. \A c \in Chains : /\ saved[c] <= offset'[c] /\ cursor[c] <= offset'[c]
                          /\ Old.adv[c] <= offset'[c] /\ pending.adv[c] <= offset'[c]
    <3>1. pending.adv \in Marks /\ Old.adv \in Marks
      BY <1>2, MemoryTypes
    <3>. QED BY <1>1, <1>2, <1>5, <3>1, MarkType, ChainTypes DEF Standing
  <2>. QED BY <1>1, <1>2, <1>3, <1>4, <1>5, <2>1, <2>2 DEF Standing
<1>14. \A d \in Chains, n \in Nat : Done(d, n) => Done(d, n)'
  BY <1>1 DEF Done, Settled, Rec
<1>15. Passed'
  BY <1>1, <1>14, ChainTypes, <1>2 DEF StreamInv, Passed
<1>16. Remembered'
  <2>. SUFFICES ASSUME NEW c \in Chains, NEW n \in 1 .. Len(file[c])
                PROVE  \/ Done(c, n)' \/ Rec(c, n) \in Unseen
                       \/ Rec(c, n) \in Range(pending.lines) \/ Rec(c, n) \in Range(Old.lines)
    BY <1>1, <1>3, <1>4, <1>5 DEF Remembered, Rec
  <2>0. n \in Nat /\ offset[c] \in Nat /\ events = <<>>
    BY <1>1, <1>2, ChainTypes DEF Shape
  <2>1. CASE n <= offset[c]
    <3>1. n \in 1 .. offset[c]
      BY <2>0, <2>1
    <3>. QED BY <1>1, <1>14, <2>0, <3>1, RangeEmpty DEF StreamInv, Remembered
  <2>2. CASE offset[c] < n /\ file[c][n] # "bad"
    <3>1. Rec(c, n).src = c /\ Rec(c, n).n = n /\ Rec(c, n).scope = file[c][n]
      BY DEF Rec, Line
    <3>. QED BY <1>2, <2>2, <3>1, UnseenLines
  <2>3. CASE file[c][n] = "bad"
    BY <1>1, <2>3 DEF Done
  <2>. QED BY <2>0, <2>1, <2>2, <2>3
<1>17. Preceded'
  BY <1>1 DEF StreamInv, Preceded, TurnedAway, Rec
<1>18. KeyKnown'
  BY <1>1 DEF StreamInv, KeyKnown
<1>19. Fresh'
  <2>. SUFFICES ASSUME ~ledger.again PROVE Fresh'
    BY <1>1 DEF Fresh
  <2>1. \A l \in Range(backend) \union ledger.withheld : l.src \in Chains =>
           l.n <= offset[l.src] /\ l.n \in Nat
    <3>1. Range(backend) \subseteq Lines /\ ledger.withheld \subseteq Lines
      BY <1>2, MemoryTypes DEF LedgerType
    <3>. QED BY <3>1, LineType DEF StreamInv, Fresh
  <2>2. Below(Range(backend), Unseen) /\ Below(ledger.withheld, Unseen)
    BY <1>8, <1>11, <2>1 DEF Below
  <2>3. \A l \in Range(backend) \union ledger.withheld : l.src \in Chains => l.n <= offset'[l.src]
    BY <1>5, <2>1, <1>2, ChainTypes
  <2>. QED BY <1>1, <1>3, <1>4, <2>2, <2>3 DEF StreamInv, Fresh
<1>. QED
  BY <1>6, <1>7, <1>9, <1>12, <1>13, <1>15, <1>16, <1>17, <1>18, <1>19 DEF StreamInv

-----------------------------------------------------------------------------
(* Lines move into the batch being filled *)

\* The oldest line read, l, leaves the events: it is batched, or the gate or the lack of a
\* workspace turns it away.
Leaves(l) ==
    /\ pc = "seal" /\ events # <<>> /\ l = Head(events) /\ events' = Tail(events)
    /\ UNCHANGED <<file, saved, cursor, offset, queue, held, batch, keyed, backend, pc>>
    /\ \/ Range(pending'.lines) = Range(pending.lines)
       \/ /\ Range(pending'.lines) = Range(pending.lines) \union {l}
          /\ l.scope \in Published /\ ledger'.withheld = ledger.withheld
          /\ pending'.adv[l.src] = l.n
    /\ Ascending(pending'.lines)
    /\ \A c \in Chains : \/ pending'.adv[c] = pending.adv[c]
                         \/ c = l.src /\ pending'.adv[c] = l.n
    /\ ledger'.withheld = ledger.withheld \/ ledger'.withheld = ledger.withheld \union {l}
    /\ ledger.unnamed \subseteq ledger'.unnamed /\ ledger'.refused = ledger.refused
    /\ ledger'.again = ledger.again /\ ledger'.journal = ledger.journal
    /\ l \in Range(pending'.lines) \union ledger'.withheld \union ledger'.unnamed

\* A line leaves the events for the batch, or is turned away.
LEMMA ProcessCore ==
    ASSUME StreamInv, StreamTypeOK', NEW l, Leaves(l)
    PROVE  StreamInv'
<1>. DEFINE E == Range(events)
            F == Range(events')
            P == Range(pending.lines)
            R == Range(pending'.lines)
            O == Range(Old.lines)
            Q == Range(queue)
            B == Range(backend)
            W == ledger.withheld
            X == ledger'.withheld
<1>. USE DEF Leaves
<1>1. StreamTypeOK /\ Shape /\ Origins /\ Gated /\ Queued /\ Standing
  BY DEF StreamInv
<1>2. /\ l \in Lines /\ events' \in Seq(Lines) /\ E = {l} \union F
      /\ Ascending(events') /\ Below({l}, F)
  <2>1. events \in Seq(Lines) /\ Ascending(events)
    BY <1>1, MemoryTypes DEF Queued
  <2>. QED BY <2>1, RangeTail, AscendingTail
<1>3. Old' = Old
  BY DEF Old
<1>4. /\ FromChain(l) /\ l.src \in Chains /\ l.src # Bus /\ l.n \in Nat
      /\ offset[l.src] \in Nat /\ l.n <= offset[l.src]
      /\ saved[l.src] < l.n /\ cursor[l.src] < l.n /\ Old.adv[l.src] < l.n
      /\ pending.adv[l.src] < l.n
  <2>1. l \in Range(events)
    BY <1>2
  <2>2. FromChain(l)
    BY <1>1, <2>1 DEF Origins
  <2>3. l.src \in Chains /\ l.src # Bus
    BY <2>2, StreamConstants DEF FromChain
  <2>. QED BY <1>1, <1>2, <2>1, <2>2, <2>3, LineType, ChainTypes DEF Standing
<1>5. /\ O \subseteq Lines /\ P \subseteq Lines /\ Q \subseteq Lines /\ B \subseteq Lines
      /\ E \subseteq Lines /\ W \subseteq Lines
      /\ pending.adv \in Marks /\ Old.adv \in Marks /\ ledger \in LedgerType
  BY <1>1, MemoryTypes DEF LedgerType
<1>6. \A m \in Lines : m.n \in Nat
  BY LineType
<1>7. Below(O, P) /\ Below(O, E) /\ Below(P, E) /\ Below(O, Q) /\ Below(P, Q)
  BY <1>1 DEF Queued
<1>8. l \notin O /\ l \notin P
  BY <1>2, <1>4, <1>7 DEF Below
<1>. HIDE DEF E, F, P, R, O, Q, B, W, X
<1>9. R \subseteq P \union {l} /\ P \subseteq R
  BY DEF R, P
<1>10. Shape'
  BY <1>1 DEF Shape, Empty, Zero
<1>11. Origins' /\ Gated'
  <2>1. \A m : FromChain(m) => FromChain(m)'
    BY DEF FromChain, Rec
  <2>2. \A m : FromBus(m) => FromBus(m)'
    BY DEF FromBus
  <2>3. \A m \in F : FromChain(m)
    BY <1>1, <1>2 DEF Origins, E
  <2>4. \A m \in R : FromChain(m) \/ FromBus(m)
    BY <1>1, <1>4, <1>9 DEF Origins, P
  <2>5. \A m \in X : FromChain(m)
    BY <1>1, <1>4 DEF Origins, X
  <2>6. Origins'
    BY <1>1, <1>3, <2>1, <2>2, <2>3, <2>4, <2>5 DEF Origins, F, R, X
  <2>7. \A m \in R : m.scope \in Published
    BY <1>1 DEF Gated, R
  <2>8. Gated'
    BY <1>1, <1>3, <2>7 DEF Gated, R
  <2>. QED BY <2>6, <2>8
<1>12. Queued'
  <2>1. Below(O, R) /\ Below(O, F) /\ Below(R, F)
    BY <1>2, <1>7, <1>9 DEF Below
  <2>2. \A m \in Q : m.src = Bus
    BY <1>1 DEF Origins, FromBus, Q
  <2>3. Below(R, Q)
    BY <1>4, <1>7, <1>9, <2>2 DEF Below
  <2>4. /\ Below(Range(Old.lines), Range(pending.lines))'
        /\ Below(Range(Old.lines), Range(events))' /\ Below(Range(pending.lines), Range(events))'
        /\ Below(Range(Old.lines), Range(queue))' /\ Below(Range(pending.lines), Range(queue))'
    BY <1>3, <1>7, <2>1, <2>3 DEF O, R, F, Q
  <2>. QED BY <1>1, <1>2, <1>3, <2>4 DEF Queued
<1>13. Standing'
  <2>. SUFFICES ASSUME NEW c \in Chains
                PROVE  /\ pending'.adv[c] <= offset[c]
                       /\ \A m \in R : m.src = c =>
                             /\ saved[c] < m.n /\ cursor[c] < m.n /\ Old.adv[c] < m.n
                             /\ m.n <= pending'.adv[c]
                       /\ \A m \in F : m.src = c =>
                             /\ saved[c] < m.n /\ cursor[c] < m.n
                             /\ Old.adv[c] < m.n /\ pending'.adv[c] < m.n /\ m.n <= offset[c]
    BY <1>1, <1>3 DEF Standing, R, F
  <2>1. /\ saved[c] \in Nat /\ cursor[c] \in Nat /\ offset[c] \in Nat /\ pending.adv[c] \in Nat
        /\ Old.adv[c] \in Nat /\ pending.adv[c] <= offset[c]
    BY <1>1, <1>5, ChainTypes, MarkType DEF Standing
  <2>2. \A m \in P : m.src = c =>
            /\ saved[c] < m.n /\ cursor[c] < m.n /\ Old.adv[c] < m.n /\ m.n <= pending.adv[c]
            /\ m.n \in Nat
    BY <1>1, <1>5, <1>6 DEF Standing, P
  <2>3. \A m \in F : m.src = c =>
            /\ saved[c] < m.n /\ cursor[c] < m.n
            /\ Old.adv[c] < m.n /\ pending.adv[c] < m.n /\ m.n <= offset[c] /\ m.n \in Nat
    BY <1>1, <1>2, <1>5, <1>6 DEF Standing, E
  <2>4. CASE c # l.src
    BY <1>9, <2>1, <2>2, <2>3, <2>4
  <2>5. CASE c = l.src
    <3>1. pending'.adv[c] = pending.adv[c] \/ pending'.adv[c] = l.n
      OBVIOUS
    <3>2. pending'.adv[c] <= offset[c]
      BY <1>4, <2>1, <2>5, <3>1
    <3>3. \A m \in P : m.src = c => m.n < l.n
      BY <1>2, <1>7, <2>5 DEF Below
    <3>4. \A m \in F : m.src = c => l.n < m.n
      BY <1>2, <2>5 DEF Below
    <3>5. ASSUME NEW m \in R, m.src = c
          PROVE  saved[c] < m.n /\ cursor[c] < m.n /\ Old.adv[c] < m.n /\ m.n <= pending'.adv[c]
      <4>1. CASE m \in P
        BY <1>4, <2>1, <2>2, <3>1, <3>3, <3>5, <4>1
      <4>2. CASE m = l /\ l \notin P
        <5>1. pending'.adv[c] = l.n
          BY <2>5, <3>5, <4>2 DEF R, P
        <5>. QED BY <1>4, <2>5, <4>2, <5>1
      <4>. QED BY <1>9, <3>5, <4>1, <4>2
    <3>6. ASSUME NEW m \in F, m.src = c
          PROVE  /\ saved[c] < m.n /\ cursor[c] < m.n
                 /\ Old.adv[c] < m.n /\ pending'.adv[c] < m.n /\ m.n <= offset[c]
      BY <2>3, <3>1, <3>4, <3>6
    <3>. QED BY <3>2, <3>5, <3>6
  <2>. QED BY <2>4, <2>5
<1>14. \A c \in Chains, n \in Nat : Done(c, n) => Done(c, n)'
  BY DEF Done, Settled, Rec
<1>15. Passed'
  BY <1>1, <1>14, ChainTypes DEF StreamInv, Passed
<1>16. Remembered'
  <2>. SUFFICES ASSUME NEW c \in Chains, NEW n \in 1 .. offset[c]
                PROVE  Done(c, n)' \/ Rec(c, n) \in F \/ Rec(c, n) \in R \/ Rec(c, n) \in O
    BY <1>3 DEF Remembered, Rec, F, R, O
  <2>0. n \in Nat
    BY <1>1, ChainTypes
  <2>1. Done(c, n) \/ Rec(c, n) \in E \/ Rec(c, n) \in P \/ Rec(c, n) \in O
    BY DEF StreamInv, Remembered, E, P, O
  <2>2. CASE Rec(c, n) = l
    <3>1. l \in R \/ Settled(l)'
      BY DEF Settled, R
    <3>2. Rec(c, n)' = Rec(c, n)
      BY DEF Rec
    <3>. QED BY <2>2, <3>1, <3>2 DEF Done, Settled
  <2>. QED BY <1>2, <1>9, <1>14, <2>0, <2>1, <2>2
<1>17. Preceded'
  <2>1. TurnedAway \subseteq TurnedAway'
    BY DEF TurnedAway
  <2>. QED BY <2>1 DEF StreamInv, Preceded, Rec
<1>18. KeyKnown'
  BY DEF StreamInv, KeyKnown
<1>19. Fresh'
  <2>. SUFFICES ASSUME ~ledger.again PROVE Fresh'
    BY DEF Fresh
  <2>1. /\ Ascending(backend)
        /\ keyed \/ Below(B, O)
        /\ Below(B, P) /\ Below(B, E) /\ Below(B, Q) /\ Below(W, E)
        /\ \A m \in B \union W : m.src \in Chains => m.n <= offset[m.src]
        /\ W \intersect O = {} /\ W \intersect P = {} /\ W \intersect B = {}
    BY DEF StreamInv, Fresh, B, O, P, E, Q, W
  <2>2. l \notin B /\ l \notin W
    BY <1>2, <1>4, <2>1 DEF Below
  <2>3. X \subseteq W \union {l} /\ (l \in X => l \notin R) /\ (l \in R => X = W)
    BY <1>8, <2>2 DEF X, W, R, P
  <2>4. Below(B, R) /\ Below(B, F) /\ Below(X, F)
    BY <1>2, <1>9, <2>1, <2>3 DEF Below
  <2>5. \A m \in B \union X : m.src \in Chains => m.n <= offset[m.src]
    BY <1>4, <2>1, <2>3
  <2>6. X \intersect O = {} /\ X \intersect R = {} /\ X \intersect B = {}
    BY <1>8, <1>9, <2>1, <2>2, <2>3
  <2>. QED BY <1>3, <2>1, <2>4, <2>5, <2>6 DEF Fresh, B, O, Q, R, F, X
<1>. QED
  BY <1>10, <1>11, <1>12, <1>13, <1>15, <1>16, <1>17, <1>18, <1>19 DEF StreamInv

\* ProcessSeal keeps the invariant.
LEMMA ProcessStep ==
    ASSUME StreamInv, ProcessSeal
    PROVE  StreamInv'
<1>. USE DEF account, control, source, batcher, push
<1>0. PICK l : l = Head(events)
  OBVIOUS
<1>1. /\ pc = "seal" /\ events # <<>> /\ events' = Tail(events)
      /\ UNCHANGED <<file, saved, cursor, offset, queue, held, batch, keyed, backend, pc>>
      /\ UNCHANGED <<auth, team, flag, paused, cancel, attempt>>
  BY DEF ProcessSeal
<1>2. StreamTypeOK /\ Shape /\ Origins /\ Queued /\ Standing /\ ControlType /\ LinesType
  BY TypeParts DEF StreamInv
<1>3. /\ events \in Seq(Lines) /\ pending.lines \in Seq(Lines) /\ pending.adv \in Marks
      /\ ledger \in LedgerType
  BY <1>2, MemoryTypes
<1>4. l \in Lines /\ Tail(events) \in Seq(Lines) /\ l \in Range(events)
  BY <1>0, <1>1, <1>3, RangeTail
<1>5. FromChain(l) /\ l.src \in Chains /\ l.n \in 0 .. MaxRecords
  <2>1. FromChain(l)
    BY <1>2, <1>4 DEF Origins
  <2>. QED BY <1>2, <2>1, ChainTypes, Numbers DEF FromChain, Standing
<1>6. [pending.adv EXCEPT ![l.src] = l.n] \in Marks
  BY <1>3, <1>5 DEF Marks
<1>7. /\ \A c \in Chains : \/ [pending.adv EXCEPT ![l.src] = l.n][c] = pending.adv[c]
                           \/ c = l.src /\ [pending.adv EXCEPT ![l.src] = l.n][c] = l.n
      /\ [pending.adv EXCEPT ![l.src] = l.n][l.src] = l.n
  BY <1>3, <1>5 DEF Marks
<1>8. ControlType'
  BY <1>1, <1>2 DEF ControlType, ProcessSeal
<1>9. ASSUME IsBatch(pending'), ledger' \in LedgerType PROVE StreamTypeOK'
  <2>1. LinesType'
    BY <1>1, <1>2, <1>4, <1>9 DEF LinesType, IsBatch
  <2>. QED BY <1>8, <2>1, TypePartsNext
<1>10. Ascending(pending.lines) /\ Below(Range(pending.lines), {l})
  BY <1>2, <1>4 DEF Queued, Below
<1>11. CASE /\ ~Decide(l.scope) /\ pending' = NoteDropped(l)
            /\ ledger' = [ledger EXCEPT !.withheld = @ \union {l}]
  <2>1. /\ ledger' \in LedgerType /\ ledger'.withheld = ledger.withheld \union {l}
        /\ ledger'.unnamed = ledger.unnamed /\ ledger'.refused = ledger.refused
        /\ ledger'.again = ledger.again /\ ledger'.journal = ledger.journal
    BY <1>3, <1>4, <1>11 DEF LedgerType
  <2>2. pending'.lines = pending.lines /\ pending'.adv = [pending.adv EXCEPT ![l.src] = l.n]
    BY <1>11 DEF NoteDropped
  <2>3. StreamTypeOK'
    BY <1>3, <1>6, <1>9, <2>1, <2>2 DEF IsBatch
  <2>5. Leaves(l)
    BY <1>0, <1>1, <1>7, <1>10, <2>1, <2>2 DEF Leaves
  <2>. QED BY <2>3, <2>5, ProcessCore
<1>12. CASE /\ UNCHANGED pending
            /\ ledger' = [ledger EXCEPT !.unnamed = @ \union {l}]
  <2>1. /\ ledger' \in LedgerType /\ ledger'.unnamed = ledger.unnamed \union {l}
        /\ ledger'.withheld = ledger.withheld /\ ledger'.refused = ledger.refused
        /\ ledger'.again = ledger.again /\ ledger'.journal = ledger.journal
    BY <1>3, <1>4, <1>12 DEF LedgerType
  <2>2. StreamTypeOK'
    BY <1>3, <1>9, <1>12, <2>1 DEF IsBatch
  <2>4. Leaves(l)
    BY <1>0, <1>1, <1>10, <1>12, <2>1 DEF Leaves
  <2>. QED BY <2>2, <2>4, ProcessCore
<1>13. CASE /\ Decide(l.scope) /\ pending' = AddLine(l) /\ UNCHANGED ledger
  <2>1. /\ pending'.lines = Append(pending.lines, l)
        /\ pending'.adv = [pending.adv EXCEPT ![l.src] = l.n]
    BY <1>13 DEF AddLine
  <2>2. StreamTypeOK'
    <3>1. Append(pending.lines, l) \in Seq(Lines)
      BY <1>3, <1>4
    <3>2. IsBatch(pending')
      BY <1>6, <2>1, <3>1 DEF IsBatch
    <3>. QED BY <1>3, <1>9, <1>13, <3>2
  <2>3. l.scope \in Published
    BY <1>13 DEF Decide, Published
  <2>4. Range(pending'.lines) = Range(pending.lines) \union {l} /\ Ascending(pending'.lines)
    BY <1>3, <1>4, <1>10, <2>1, RangeAppend, AscendingAppend
  <2>6. Leaves(l)
    BY <1>0, <1>1, <1>7, <1>13, <2>1, <2>3, <2>4 DEF Leaves
  <2>. QED BY <2>2, <2>6, ProcessCore
<1>. QED BY <1>0, <1>11, <1>12, <1>13 DEF ProcessSeal

\* PumpJournal keeps the invariant: the newest envelope goes to the end, or is dropped.
LEMMA PumpStep ==
    ASSUME StreamInv, NEW s \in {"public", "private"}, PumpJournal(s)
    PROVE  StreamInv'
<1>. USE DEF account, control, source, batcher, push
<1>. DEFINE Q == Range(queue)
            T == Range(queue')
<1>0. PICK l : l = Line(Bus, ledger.journal + 1, s)
  OBVIOUS
<1>1. /\ UNCHANGED <<file, saved, cursor, offset, events, pending, held, batch, keyed, backend>>
      /\ UNCHANGED <<auth, team, flag, paused, cancel, first, attempt, pc>>
      /\ pc # "off" /\ ledger.journal < MaxJournal
      /\ ledger' = [ledger EXCEPT !.journal = ledger.journal + 1]
      /\ queue' = queue \/ (Len(queue) < QueueCap /\ queue' = Append(queue, l))
  BY <1>0 DEF PumpJournal
<1>2. /\ StreamTypeOK /\ Shape /\ Origins /\ Gated /\ Queued /\ Standing
      /\ ControlType /\ LinesType
  BY TypeParts DEF StreamInv
<1>3. Old' = Old
  BY <1>1 DEF Old
<1>4. /\ ledger' \in LedgerType /\ SameLines(ledger', ledger) /\ ledger'.again = ledger.again
      /\ ledger'.journal = ledger.journal + 1 /\ ledger.journal \in Nat
      /\ ledger.journal + 1 \in 1 .. MaxRecords + MaxJournal
  <2>1. ledger \in LedgerType /\ ledger.journal \in 0 .. MaxJournal
    BY <1>2, MemoryTypes DEF LedgerType
  <2>2. ledger.journal + 1 \in 0 .. MaxJournal
    BY <1>1, <2>1, Numbers
  <2>3. ledger' \in LedgerType
    BY <1>1, <2>1, <2>2 DEF LedgerType
  <2>4. SameLines(ledger', ledger) /\ ledger'.again = ledger.again
    BY <1>1, <2>1 DEF LedgerType, SameLines
  <2>5. ledger'.journal = ledger.journal + 1
    BY <1>1, <2>1 DEF LedgerType
  <2>6. ledger.journal \in Nat /\ ledger.journal + 1 \in 1 .. MaxRecords + MaxJournal
    BY <2>1, <2>2, Numbers
  <2>. QED BY <2>3, <2>4, <2>5, <2>6
<1>5. l \in Lines /\ l.src = Bus /\ l.n = ledger.journal + 1
  BY <1>0, <1>4 DEF Lines, Line
<1>6. queue \in Seq(Lines) /\ Q \subseteq Lines
  BY <1>2, MemoryTypes
<1>7. \A m \in Lines : m.n \in Nat
  BY LineType
<1>8. queue' \in Seq(Lines) /\ Len(queue') <= QueueCap /\ T \subseteq Q \union {l}
  <2>1. CASE queue' = queue
    BY <1>2, <1>6, <2>1 DEF LinesType
  <2>2. CASE Len(queue) < QueueCap /\ queue' = Append(queue, l)
    <3>1. queue' \in Seq(Lines) /\ Len(queue') = Len(queue) + 1 /\ Len(queue) \in Nat
      BY <1>5, <1>6, <2>2
    <3>2. Len(queue') <= QueueCap
      BY <2>2, <3>1, Numbers
    <3>. QED BY <1>5, <1>6, <2>2, <3>1, <3>2, RangeAppend
  <2>. QED BY <1>1, <2>1, <2>2
<1>9. StreamTypeOK'
  <2>1. ControlType'
    BY <1>1, <1>2 DEF ControlType
  <2>2. LinesType'
    BY <1>1, <1>2, <1>4, <1>8 DEF LinesType, IsBatch
  <2>. QED BY <2>1, <2>2, TypePartsNext
<1>10. \A m : (FromBus(m) /\ m \in Lines) => m.src = l.src /\ m.n < l.n
  BY <1>4, <1>5, <1>7 DEF FromBus
<1>11. ASSUME NEW S, S \subseteq Lines, \A m \in S : FromChain(m) \/ FromBus(m)
       PROVE  Below(S, {l})
  BY <1>5, <1>10, <1>11, StreamConstants DEF Below, FromChain
<1>12. /\ Range(Old.lines) \subseteq Lines /\ Range(pending.lines) \subseteq Lines
       /\ Range(backend) \subseteq Lines
  BY <1>2, MemoryTypes
<1>13. Below(Range(Old.lines), {l}) /\ Below(Range(pending.lines), {l}) /\ Below(Q, {l})
       /\ Below(Range(backend), {l})
  BY <1>2, <1>6, <1>11, <1>12 DEF Origins
<1>. HIDE DEF Q, T
<1>14. Shape'
  BY <1>1, <1>2, <1>4 DEF Shape, Empty, Zero, SameLines
<1>15. Origins' /\ Gated'
  <2>1. \A m : FromChain(m) => FromChain(m)'
    BY <1>1 DEF FromChain, Rec
  <2>2. \A m \in Lines : FromBus(m) => FromBus(m)'
    BY <1>4, <1>7 DEF FromBus
  <2>3. FromBus(l)'
    BY <1>4, <1>5 DEF FromBus
  <2>4. \A m \in T : FromBus(m)'
    BY <1>2, <1>6, <1>8, <2>2, <2>3 DEF Origins, Q
  <2>5. Origins'
    BY <1>1, <1>2, <1>3, <1>4, <1>12, <2>1, <2>2, <2>4 DEF Origins, T, SameLines
  <2>. QED BY <1>1, <1>2, <1>3, <2>5 DEF Gated
<1>16. Queued'
  <2>1. Below(Range(Old.lines), T) /\ Below(Range(pending.lines), T)
    BY <1>2, <1>8, <1>13 DEF Queued, Below, Q
  <2>2. Ascending(queue')
    <3>1. Ascending(queue)
      BY <1>2 DEF Queued
    <3>. QED BY <1>1, <1>5, <1>6, <1>13, <3>1, AscendingAppend DEF Q
  <2>. QED BY <1>1, <1>2, <1>3, <2>1, <2>2 DEF Queued, T
<1>17. Standing'
  BY <1>1, <1>2, <1>3 DEF Standing
<1>18. \A c \in Chains, n \in Nat : Done(c, n) => Done(c, n)'
  BY <1>1, <1>4 DEF Done, Settled, Rec, SameLines
<1>19. Passed'
  BY <1>1, <1>2, <1>18, ChainTypes DEF StreamInv, Passed
<1>20. Remembered'
  BY <1>1, <1>2, <1>3, <1>18, ChainTypes DEF StreamInv, Remembered, Rec
<1>21. Preceded'
  BY <1>1, <1>4 DEF StreamInv, Preceded, TurnedAway, Rec, SameLines
<1>22. KeyKnown'
  BY <1>1 DEF StreamInv, KeyKnown
<1>23. Fresh'
  <2>. SUFFICES ASSUME ~ledger.again PROVE Fresh'
    BY <1>4 DEF Fresh
  <2>1. Below(Range(backend), T)
    BY <1>8, <1>13 DEF StreamInv, Fresh, Below, Q
  <2>. QED BY <1>1, <1>3, <1>4, <2>1 DEF StreamInv, Fresh, SameLines, T
<1>. QED
  BY <1>9, <1>14, <1>15, <1>16, <1>17, <1>19, <1>20, <1>21, <1>22, <1>23 DEF StreamInv

\* DrainJournal keeps the invariant.
LEMMA DrainStep ==
    ASSUME StreamInv, DrainJournal
    PROVE  StreamInv'
<1>. USE DEF account, control, source, batcher, push
<1>. DEFINE Q == Range(queue)
            T == Range(queue')
            P == Range(pending.lines)
            R == Range(pending'.lines)
<1>1. /\ UNCHANGED <<file, saved, cursor, offset, events, held, batch, keyed, backend, ledger>>
      /\ UNCHANGED <<auth, team, flag, paused, cancel, attempt>>
      /\ pc = "seal" /\ pc' = "check" /\ events = <<>>
  BY DEF DrainJournal
<1>2. /\ StreamTypeOK /\ Shape /\ Origins /\ Gated /\ Queued /\ Standing
      /\ ControlType /\ LinesType
  BY TypeParts DEF StreamInv
<1>3. Old' = Old
  BY <1>1 DEF Old
<1>4. /\ queue \in Seq(Lines) /\ Q \subseteq Lines /\ pending.lines \in Seq(Lines)
      /\ pending.adv \in Marks /\ Ascending(queue) /\ Ascending(pending.lines)
      /\ Below(P, Q) /\ Below(Range(Old.lines), Q) /\ Below(Range(Old.lines), P)
  BY <1>2, MemoryTypes DEF Queued
<1>5. /\ queue' \in Seq(Lines) /\ Len(queue') <= QueueCap /\ T \subseteq Q /\ Ascending(queue')
      /\ pending'.lines \in Seq(Lines) /\ Ascending(pending'.lines) /\ Below(R, T)
      /\ pending'.adv = pending.adv /\ P \subseteq R /\ R \subseteq P \union Q
      /\ \A m \in R : m \in P \/ m.scope \in Published
  <2>1. CASE queue = <<>>
    <3>1. queue' = queue /\ pending' = pending
      BY <2>1 DEF DrainJournal
    <3>. QED BY <1>2, <1>4, <3>1 DEF LinesType
  <2>2. CASE queue # <<>>
    <3>1. queue' = Tail(queue)
      BY <2>2 DEF DrainJournal
    <3>2. PICK l : l = Head(queue)
      OBVIOUS
    <3>3. /\ queue' \in Seq(Lines) /\ l \in Lines /\ Q = {l} \union T /\ Ascending(queue')
          /\ Below({l}, T)
      BY <1>4, <2>2, <3>1, <3>2, RangeTail, AscendingTail
    <3>4. Len(queue') <= QueueCap
      <4>1. Len(queue) <= QueueCap
        BY <1>2 DEF LinesType
      <4>2. Len(queue) \in Nat /\ Len(queue') = Len(queue) - 1
        BY <1>4, <2>2, <3>1
      <4>. QED BY <4>1, <4>2, Numbers
    <3>5. CASE pending' = pending
      <4>1. Below(R, T)
        BY <1>4, <3>3, <3>5 DEF Below
      <4>. QED BY <1>4, <3>3, <3>4, <3>5, <4>1
    <3>6. CASE Decide(l.scope) /\ pending' = [pending EXCEPT !.lines = Append(@, l)]
      <4>1. pending'.lines = Append(pending.lines, l) /\ pending'.adv = pending.adv
        BY <3>6
      <4>2. l.scope \in Published
        BY <3>6 DEF Decide, Published
      <4>3. R = P \union {l} /\ pending'.lines \in Seq(Lines)
        BY <1>4, <3>3, <4>1, RangeAppend
      <4>4. Below(P, {l})
        BY <1>4, <3>3 DEF Below
      <4>5. Ascending(pending'.lines)
        BY <1>4, <3>3, <4>1, <4>4, AscendingAppend
      <4>6. Below(R, T)
        BY <1>4, <3>3, <4>3 DEF Below
      <4>. QED BY <1>4, <3>3, <3>4, <4>1, <4>2, <4>3, <4>5, <4>6
    <3>. QED BY <2>2, <3>2, <3>5, <3>6 DEF DrainJournal
  <2>. QED BY <2>1, <2>2
<1>. HIDE DEF Q, T, P, R
<1>6. StreamTypeOK'
  <2>1. ControlType'
    BY <1>1, <1>2 DEF ControlType, DrainJournal
  <2>2. LinesType'
    BY <1>1, <1>2, <1>4, <1>5 DEF LinesType, IsBatch
  <2>. QED BY <2>1, <2>2, TypePartsNext
<1>7. Shape'
  BY <1>1, <1>2 DEF Shape, Empty, Zero
<1>8. \A m \in Q : FromBus(m) /\ m.src \notin Chains
  BY <1>2, StreamConstants DEF Origins, FromBus, Q
<1>9. Origins' /\ Gated'
  <2>1. \A m : FromChain(m) => FromChain(m)'
    BY <1>1 DEF FromChain, Rec
  <2>2. \A m : FromBus(m) => FromBus(m)'
    BY <1>1 DEF FromBus
  <2>3. \A m \in T : FromBus(m)'
    BY <1>5, <1>8, <2>2
  <2>4. \A m \in R : FromChain(m)' \/ FromBus(m)'
    BY <1>2, <1>5, <1>8, <2>1, <2>2 DEF Origins, P
  <2>5. Origins'
    BY <1>1, <1>2, <1>3, <2>1, <2>2, <2>3, <2>4 DEF Origins, T, R
  <2>6. \A m \in R : m.scope \in Published
    BY <1>2, <1>5 DEF Gated, P
  <2>. QED BY <1>1, <1>2, <1>3, <2>5, <2>6 DEF Gated, R
<1>10. Queued'
  <2>1. Below(Range(Old.lines), R) /\ Below(Range(Old.lines), T)
    BY <1>4, <1>5 DEF Below
  <2>2. Range(events) = {}
    BY <1>1, RangeEmpty
  <2>3. Below(R, Range(events)) /\ Below(Range(Old.lines), Range(events))
    BY <2>2 DEF Below
  <2>. QED BY <1>1, <1>2, <1>3, <1>5, <2>1, <2>3 DEF Queued, T, R
<1>11. Standing'
  <2>1. \A c \in Chains : \A m \in R : m.src = c => m \in P
    BY <1>5, <1>8
  <2>. QED BY <1>1, <1>2, <1>3, <1>5, <2>1 DEF Standing, R, P
<1>12. \A c \in Chains, n \in Nat : Done(c, n) => Done(c, n)'
  BY <1>1 DEF Done, Settled, Rec
<1>13. Passed'
  BY <1>1, <1>2, <1>12, ChainTypes DEF StreamInv, Passed
<1>14. Remembered'
  <2>1. \A c \in Chains : \A n \in 1 .. offset[c] : n \in Nat
    BY <1>2, ChainTypes
  <2>2. \A c \in Chains : \A n \in 1 .. offset[c] :
           Done(c, n) \/ Rec(c, n) \in Range(events) \/ Rec(c, n) \in P
             \/ Rec(c, n) \in Range(Old.lines)
    BY <1>1 DEF StreamInv, Remembered, P
  <2>. QED BY <1>1, <1>3, <1>5, <1>12, <2>1, <2>2 DEF Remembered, Rec, R
<1>15. Preceded'
  BY <1>1 DEF StreamInv, Preceded, TurnedAway, Rec
<1>16. KeyKnown'
  BY <1>1 DEF StreamInv, KeyKnown
<1>17. Fresh'
  <2>. SUFFICES ASSUME ~ledger.again PROVE Fresh'
    BY <1>1 DEF Fresh
  <2>1. Below(Range(backend), R) /\ Below(Range(backend), T)
    BY <1>5 DEF StreamInv, Fresh, Below, Q, P
  <2>2. \A m \in ledger.withheld : m.src \in Chains
    BY <1>2 DEF Origins, FromChain
  <2>3. ledger.withheld \intersect R = {}
    BY <1>5, <1>8, <2>2 DEF StreamInv, Fresh, P
  <2>. QED BY <1>1, <1>3, <2>1, <2>3 DEF StreamInv, Fresh, T, R
<1>. QED
  BY <1>6, <1>7, <1>9, <1>10, <1>11, <1>13, <1>14, <1>15, <1>16, <1>17 DEF StreamInv

-----------------------------------------------------------------------------
(* A batch is taken *)

\* A batch is taken: the one put back, else the one being filled.
LEMMA TakeCore ==
    ASSUME StreamInv, StreamTypeOK', pc \in {"check", "poll"}, pc' \in {"push", "last"},
           TakeBatch, keyed' = FALSE,
           UNCHANGED <<file, saved, cursor, offset, events, queue, backend, ledger>>
    PROVE  StreamInv'
<1>. DEFINE E == Range(events)
            P == Range(pending.lines)
            R == Range(pending'.lines)
            O == Range(Old.lines)
            N == Range(Old'.lines)
            Q == Range(queue)
            B == Range(backend)
<1>1. StreamTypeOK /\ Shape /\ Origins /\ Gated /\ Queued /\ Standing
  BY DEF StreamInv
<1>2. batch = Empty /\ ~keyed /\ events = <<>>
  BY <1>1 DEF Shape
<1>3. /\ held' = <<>> /\ Old' = batch'
      /\ \/ Old' = Old /\ pending' = pending
         \/ Old = Empty /\ Old' = pending /\ pending' = Empty
  <2>1. CASE held # <<>>
    <3>1. PICK b : held = <<b>>
      BY <1>1, <2>1 DEF Shape
    <3>2. Head(held) = b /\ Tail(held) = <<>> /\ held[1] = b
      BY <3>1
    <3>. QED BY <2>1, <3>2 DEF TakeBatch, Old
  <2>2. CASE held = <<>>
    BY <1>2, <2>2 DEF TakeBatch, Old, Empty, Zero
  <2>. QED BY <2>1, <2>2
<1>4. /\ Range(Empty.lines) = {} /\ Ascending(Empty.lines)
      /\ \A c \in Chains : Empty.adv[c] = 0
  BY EmptyBatch
<1>5. /\ N \union R \subseteq O \union P /\ N \subseteq O \union P /\ R \subseteq P
      /\ O \union P \subseteq N \union R
      /\ (N = O /\ R = P) \/ (N = P /\ R = {})
  BY <1>3, <1>4
<1>. HIDE DEF E, P, R, O, N, Q, B
<1>6. Shape'
  BY <1>1, <1>2, <1>3 DEF Shape
<1>7. Origins' /\ Gated'
  <2>1. \A m : FromChain(m) => FromChain(m)'
    BY DEF FromChain, Rec
  <2>2. \A m : FromBus(m) => FromBus(m)'
    BY DEF FromBus
  <2>3. \A m \in N \union R : FromChain(m) \/ FromBus(m)
    BY <1>1, <1>5 DEF Origins, O, P
  <2>4. Origins'
    BY <1>1, <2>1, <2>2, <2>3 DEF Origins, N, R
  <2>5. \A m \in N \union R : m.scope \in Published
    BY <1>1, <1>5 DEF Gated, O, P
  <2>. QED BY <1>1, <2>4, <2>5 DEF Gated, N, R
<1>8. Queued'
  <2>1. Below(O, P) /\ Below(O, E) /\ Below(P, E) /\ Below(O, Q) /\ Below(P, Q)
    BY <1>1 DEF Queued, O, P, E, Q
  <2>2. Below(N, R) /\ Below(N, E) /\ Below(R, E) /\ Below(N, Q) /\ Below(R, Q)
    BY <1>5, <2>1 DEF Below
  <2>3. Ascending(Old'.lines) /\ Ascending(pending'.lines)
    BY <1>1, <1>3, <1>4 DEF Queued
  <2>. QED BY <1>1, <2>2, <2>3 DEF Queued, N, R, E, Q
<1>9. Standing'
  <2>1. CASE Old' = Old /\ pending' = pending
    BY <1>1, <2>1 DEF Standing
  <2>2. CASE Old = Empty /\ Old' = pending /\ pending' = Empty
    <3>1. Range(pending'.lines) = {} /\ \A c \in Chains : pending'.adv[c] = 0
      BY <1>4, <2>2
    <3>2. Range(events) = {} /\ Range(events') = {}
      BY <1>2, RangeEmpty
    <3>3. \A c \in Chains : offset[c] \in Nat
      BY <1>1, ChainTypes
    <3>. QED BY <1>1, <2>2, <3>1, <3>2, <3>3 DEF Standing
  <2>. QED BY <1>3, <2>1, <2>2
<1>10. \A c \in Chains, n \in Nat : Done(c, n) => Done(c, n)'
  BY DEF Done, Settled, Rec
<1>11. Passed'
  BY <1>1, <1>10, ChainTypes DEF StreamInv, Passed
<1>12. Remembered'
  <2>1. \A c \in Chains : \A n \in 1 .. offset[c] : n \in Nat
    BY <1>1, ChainTypes
  <2>2. \A c \in Chains : \A n \in 1 .. offset[c] :
           Done(c, n) \/ Rec(c, n) \in E \/ Rec(c, n) \in P \/ Rec(c, n) \in O
    BY DEF StreamInv, Remembered, E, P, O
  <2>3. \A c \in Chains : \A n \in 1 .. offset[c] :
           Done(c, n)' \/ Rec(c, n) \in E \/ Rec(c, n) \in R \/ Rec(c, n) \in N
    BY <1>5, <1>10, <2>1, <2>2
  <2>. QED BY <2>3 DEF Remembered, Rec, E, R, N
<1>13. Preceded'
  BY DEF StreamInv, Preceded, TurnedAway, Rec
<1>14. KeyKnown'
  BY DEF KeyKnown
<1>15. Fresh'
  <2>. SUFFICES ASSUME ~ledger.again PROVE Fresh'
    BY DEF Fresh
  <2>1. /\ Ascending(backend) /\ Below(B, O) /\ Below(B, P) /\ Below(B, E) /\ Below(B, Q)
        /\ Below(ledger.withheld, E)
        /\ \A m \in B \union ledger.withheld : m.src \in Chains => m.n <= offset[m.src]
        /\ ledger.withheld \intersect O = {} /\ ledger.withheld \intersect P = {}
        /\ ledger.withheld \intersect B = {}
    BY <1>2 DEF StreamInv, Fresh, B, O, P, E, Q
  <2>2. /\ Below(B, N) /\ Below(B, R)
        /\ ledger.withheld \intersect N = {} /\ ledger.withheld \intersect R = {}
    BY <1>5, <2>1 DEF Below
  <2>. QED BY <2>1, <2>2 DEF Fresh, B, N, R, E, Q
<1>. QED
  BY <1>6, <1>7, <1>8, <1>9, <1>11, <1>12, <1>13, <1>14, <1>15 DEF StreamInv

\* What TakeBatch leaves has its type.
LEMMA TakeTypes ==
    ASSUME StreamTypeOK, Shape, TakeBatch, ControlType', pc \in {"check", "poll"},
           UNCHANGED <<file, saved, cursor, offset, events, queue, backend, ledger>>
    PROVE  StreamTypeOK'
<1>1. LinesType
  BY TypeParts
<1>2. IsBatch(pending') /\ IsBatch(batch') /\ held' = <<>>
  <2>1. CASE held # <<>>
    <3>1. PICK b : held = <<b>>
      BY <2>1 DEF Shape
    <3>2. Head(held) = b /\ Tail(held) = <<>> /\ held[1] = b /\ b \in Range(held)
      BY <3>1 DEF Range
    <3>. QED BY <1>1, <2>1, <3>2 DEF TakeBatch, LinesType
  <2>2. CASE held = <<>>
    BY <1>1, <2>2, EmptyBatch DEF TakeBatch, LinesType
  <2>. QED BY <2>1, <2>2
<1>3. Len(held') <= 1 /\ \A b \in Range(held') : IsBatch(b)
  BY <1>2, RangeEmpty
<1>4. LinesType'
  BY <1>1, <1>2, <1>3 DEF LinesType, IsBatch
<1>. QED BY <1>4, TypePartsNext

\* Flush keeps the invariant.
LEMMA FlushStep ==
    ASSUME StreamInv, Flush
    PROVE  StreamInv'
<1>. USE DEF account, control, source, batcher, push
<1>1. /\ TakeBatch /\ pc = "check" /\ pc' = "push" /\ attempt' = 0 /\ keyed' = FALSE
      /\ UNCHANGED <<file, saved, cursor, offset, events, queue, backend, ledger>>
      /\ UNCHANGED <<auth, team, flag, paused, cancel>>
  BY DEF Flush
<1>2. StreamTypeOK /\ Shape /\ ControlType
  BY TypeParts DEF StreamInv
<1>3. ControlType'
  <2>1. first' \in BOOLEAN
    BY <1>1, <1>2 DEF TakeBatch, ControlType
  <2>. QED BY <1>1, <1>2, <2>1, FirstAttempt DEF ControlType
<1>4. StreamTypeOK'
  BY <1>1, <1>2, <1>3, TakeTypes
<1>. QED BY <1>1, <1>4, TakeCore

\* LastFlush keeps the invariant.
LEMMA LastFlushStep ==
    ASSUME StreamInv, LastFlush
    PROVE  StreamInv'
<1>. USE DEF account, control, source, batcher, push
<1>1. /\ pc = "poll" /\ attempt' = 0 /\ keyed' = FALSE
      /\ UNCHANGED <<file, saved, cursor, offset, events, queue, backend, ledger>>
      /\ UNCHANGED <<auth, team, flag, paused, cancel>>
  BY DEF LastFlush
<1>2. StreamTypeOK /\ Shape /\ ControlType /\ LinesType
  BY TypeParts DEF StreamInv
<1>3. CASE pc' = "last" /\ TakeBatch
  <2>1. ControlType'
    <3>1. first' \in BOOLEAN
      BY <1>2, <1>3 DEF TakeBatch, ControlType
    <3>. QED BY <1>1, <1>2, <1>3, <3>1, FirstAttempt DEF ControlType
  <2>2. StreamTypeOK'
    BY <1>1, <1>2, <1>3, <2>1, TakeTypes
  <2>. QED BY <1>1, <1>3, <2>2, TakeCore
<1>4. CASE pc' = "done" /\ UNCHANGED <<pending, first, held, batch>>
  <2>1. StreamTypeOK'
    <3>1. ControlType'
      BY <1>1, <1>2, <1>4, FirstAttempt DEF ControlType
    <3>2. LinesType'
      BY <1>1, <1>2, <1>4 DEF LinesType, IsBatch
    <3>. QED BY <3>1, <3>2, TypePartsNext
  <2>2. keyed' = keyed /\ events = <<>>
    BY <1>1, <1>2 DEF Shape, ControlType
  <2>3. UNCHANGED Still
    BY <1>1, <1>4, <2>2 DEF Still
  <2>. QED BY <1>1, <1>4, <2>1, <2>2, <2>3, StillStep DEF SameLines
<1>. QED BY <1>3, <1>4 DEF LastFlush

-----------------------------------------------------------------------------
(* Pushing *)

\* What a push may do to the backend and to the ledger: nothing, or the lines of the batch
\* arrive in their order, apart from those that are refused.
Arrives ==
    /\ pc \in {"push", "last"}
    /\ UNCHANGED <<file, offset, events, queue, pending>>
    /\ ledger'.withheld = ledger.withheld /\ ledger'.unnamed = ledger.unnamed
    /\ ledger.refused \subseteq ledger'.refused /\ ledger'.journal = ledger.journal
    /\ \/ backend' = backend
       \/ /\ ~keyed
          /\ \E t \in Seq(Lines) :
                /\ backend' = backend \o t /\ Ascending(t)
                /\ Range(t) \subseteq Range(batch.lines)
                /\ Range(batch.lines) \subseteq Range(t) \union ledger'.refused

\* A line of the batch goes after every earlier record of its chain.
LEMMA ArrivesPreceded ==
    ASSUME StreamInv, Arrives, NEW t \in Seq(Lines), backend' = backend \o t, Ascending(t),
           Range(t) \subseteq Range(batch.lines),
           Range(batch.lines) \subseteq Range(t) \union ledger'.refused
    PROVE  Preceded'
<1>1. StreamTypeOK /\ Shape /\ Origins /\ Queued /\ Standing
  BY DEF StreamInv
<1>2. /\ held = <<>> /\ Old = batch /\ pc # "done"
      /\ UNCHANGED <<file, offset, events, queue, pending>>
  BY <1>1 DEF Arrives, Shape, Old
<1>3. TurnedAway \subseteq TurnedAway' /\ ledger'.refused \subseteq TurnedAway'
  BY DEF Arrives, TurnedAway
<1>4. /\ backend \in Seq(Lines) /\ Len(backend) \in Nat /\ Len(t) \in Nat
      /\ DOMAIN backend = 1 .. Len(backend) /\ DOMAIN t = 1 .. Len(t)
      /\ DOMAIN backend' = 1 .. Len(backend) + Len(t)
      /\ \A i \in 1 .. Len(backend) : backend'[i] = backend[i]
      /\ \A i \in 1 .. Len(t) : backend'[Len(backend) + i] = t[i]
  <2>1. backend \in Seq(Lines)
    BY <1>1, MemoryTypes
  <2>. QED BY <2>1
<1>5. \A c, n : Rec(c, n)' = Rec(c, n)
  BY <1>2 DEF Rec
<1>6. SUFFICES ASSUME NEW i \in 1 .. Len(backend) + Len(t), backend'[i].src \in Chains,
                      NEW n \in 1 .. backend'[i].n - 1
               PROVE  \/ file[backend'[i].src][n] = "bad"
                      \/ Rec(backend'[i].src, n) \in TurnedAway'
                      \/ \E k \in 1 .. i : backend'[k] = Rec(backend'[i].src, n)
  <2>1. file' = file /\ DOMAIN backend' = 1 .. Len(backend) + Len(t)
    BY <1>2, <1>4
  <2>. QED BY <1>5, <2>1 DEF Preceded
<1>7. CASE i \in 1 .. Len(backend)
  <2>1. \A k \in 1 .. i : k \in 1 .. Len(backend)
    BY <1>4, <1>7
  <2>2. i \in DOMAIN backend /\ backend'[i] = backend[i]
    BY <1>4, <1>7
  <2>3. \/ file[backend[i].src][n] = "bad"
        \/ Rec(backend[i].src, n) \in TurnedAway
        \/ \E k \in 1 .. i : backend[k] = Rec(backend[i].src, n)
    BY <1>6, <2>2 DEF StreamInv, Preceded
  <2>. QED BY <1>3, <1>4, <2>1, <2>2, <2>3
<1>8. CASE i \notin 1 .. Len(backend)
  <2>1. PICK p \in 1 .. Len(t) : i = Len(backend) + p
    <3>1. i - Len(backend) \in 1 .. Len(t) /\ i = Len(backend) + (i - Len(backend))
      BY <1>4, <1>8
    <3>. QED BY <3>1
  <2>2. PICK l : l = t[p]
    OBVIOUS
  <2>3. /\ backend'[i] = l /\ l \in Range(t) /\ l \in Range(batch.lines) /\ l \in Lines
        /\ l.n \in Nat /\ l.src \in Chains /\ n \in 1 .. l.n - 1 /\ n \in Nat /\ n < l.n
    <3>1. backend'[i] = l /\ l \in Range(t) /\ l \in Lines
      BY <1>4, <2>1, <2>2, RangeElement
    <3>2. l.n \in Nat
      BY <3>1, LineType
    <3>. QED BY <1>6, <3>1, <3>2
  <2>4. l.n <= offset[l.src] /\ n \in 1 .. offset[l.src]
    <3>1. l.n <= Old.adv[l.src] /\ Old.adv[l.src] <= offset[l.src]
      BY <1>1, <1>2, <2>3 DEF Standing
    <3>2. Old.adv[l.src] \in Nat /\ offset[l.src] \in Nat
      BY <1>1, <2>3, MemoryTypes, MarkType, ChainTypes
    <3>3. \A a, b, x \in Nat : x <= a /\ a <= b => x <= b /\ (n < x => n \in 1 .. b)
      BY <2>3
    <3>. QED BY <2>3, <3>1, <3>2, <3>3
  <2>5. PICK m : m = Rec(l.src, n)
    OBVIOUS
  <2>6. m.src = l.src /\ m.n = n
    BY <2>5 DEF Rec, Line
  <2>7. m \notin Range(events) /\ m \notin Range(pending.lines)
    <3>1. Below(Range(batch.lines), Range(events))
          /\ Below(Range(batch.lines), Range(pending.lines))
      BY <1>1, <1>2 DEF Queued
    <3>. QED BY <2>3, <2>6, <3>1 DEF Below
  <2>8. Done(l.src, n) \/ m \in Range(batch.lines)
    BY <1>2, <2>3, <2>4, <2>5, <2>7 DEF StreamInv, Remembered
  <2>9. CASE file[l.src][n] = "bad"
    BY <2>3, <2>9
  <2>10. CASE m \in TurnedAway'
    BY <2>3, <2>5, <2>10
  <2>11. CASE m \in Range(backend)
    <3>1. PICK k \in 1 .. Len(backend) : backend[k] = m
      BY <1>4, <2>11 DEF Range
    <3>2. k \in 1 .. i /\ backend'[k] = m
      BY <1>4, <2>1, <3>1
    <3>. QED BY <2>3, <2>5, <3>2
  <2>12. CASE m \in Range(t)
    <3>1. PICK q \in 1 .. Len(t) : t[q] = m
      BY <1>4, <2>12 DEF Range
    <3>2. ~(p < q) /\ p # q
      <4>1. p < q => t[p].n < t[q].n
        BY <1>4, <2>2, <2>6, <3>1 DEF Ascending
      <4>. QED BY <2>2, <2>3, <2>6, <3>1, <4>1
    <3>3. Len(backend) + q \in 1 .. i /\ backend'[Len(backend) + q] = m
      BY <1>4, <2>1, <3>1, <3>2
    <3>. QED BY <2>3, <2>5, <3>3
  <2>13. \/ file[l.src][n] = "bad" \/ m \in Range(backend)
         \/ m \in TurnedAway \/ m \in Range(batch.lines)
    BY <2>5, <2>8 DEF Done, Settled, TurnedAway
  <2>. QED BY <1>3, <2>9, <2>10, <2>11, <2>12, <2>13
<1>. QED BY <1>7, <1>8

\* What holds of the backend after a push, whatever becomes of the batch.
Arrived ==
    /\ backend' \in Seq(Lines)
    /\ \A l \in Range(backend') : (FromChain(l) \/ FromBus(l)) /\ l.scope \in Published
    /\ Range(backend) \subseteq Range(backend')
    /\ Preceded'
    /\ \A c \in Chains, n \in Nat : Done(c, n) => Done(c, n)'
    /\ ~ledger.again =>
          /\ Ascending(backend')
          /\ Below(Range(backend'), Range(pending.lines))
          /\ Below(Range(backend'), Range(events))
          /\ Below(Range(backend'), Range(queue))
          /\ \A l \in Range(backend') : l.src \in Chains => l.n <= offset[l.src]
          /\ ledger.withheld \intersect Range(backend') = {}

\* A push leaves the backend in order and without a line of the wrong scope.
LEMMA ArrivesArrived ==
    ASSUME StreamInv, Arrives
    PROVE  Arrived
<1>1. StreamTypeOK /\ Shape /\ Origins /\ Gated /\ Queued /\ Standing
  BY DEF StreamInv
<1>2. /\ held = <<>> /\ Old = batch
      /\ UNCHANGED <<file, offset, events, queue, pending>>
  BY <1>1 DEF Arrives, Shape, Old
<1>3. backend \in Seq(Lines) /\ batch.lines \in Seq(Lines) /\ Range(batch.lines) \subseteq Lines
      /\ Old.adv \in Marks
  BY <1>1, <1>2, MemoryTypes
<1>4. ASSUME NEW c \in Chains, NEW n \in Nat, Done(c, n), Range(backend) \subseteq Range(backend')
      PROVE  Done(c, n)'
  <2>1. Rec(c, n)' = Rec(c, n)
    BY <1>2 DEF Rec
  <2>. QED BY <1>2, <1>4, <2>1 DEF Arrives, Done, Settled
<1>5. \A l \in Range(backend) : (FromChain(l) \/ FromBus(l)) /\ l.scope \in Published
  BY <1>1 DEF Origins, Gated
<1>6. CASE backend' = backend
  <2>1. Preceded'
    <3>1. TurnedAway \subseteq TurnedAway'
      BY DEF Arrives, TurnedAway
    <3>. QED BY <1>2, <1>6, <3>1 DEF StreamInv, Preceded, Rec
  <2>2. ~ledger.again =>
          /\ Ascending(backend')
          /\ Below(Range(backend'), Range(pending.lines))
          /\ Below(Range(backend'), Range(events))
          /\ Below(Range(backend'), Range(queue))
          /\ \A l \in Range(backend') : l.src \in Chains => l.n <= offset[l.src]
          /\ ledger.withheld \intersect Range(backend') = {}
    BY <1>6 DEF StreamInv, Fresh
  <2>. QED BY <1>3, <1>4, <1>5, <1>6, <2>1, <2>2 DEF Arrived
<1>7. ASSUME NEW t \in Seq(Lines), ~keyed, backend' = backend \o t, Ascending(t),
             Range(t) \subseteq Range(batch.lines),
             Range(batch.lines) \subseteq Range(t) \union ledger'.refused
      PROVE  Arrived
  <2>1. backend' \in Seq(Lines) /\ Range(backend') = Range(backend) \union Range(t)
    BY <1>3, <1>7, RangeConcat
  <2>2. \A l \in Range(t) : (FromChain(l) \/ FromBus(l)) /\ l.scope \in Published
    BY <1>1, <1>2, <1>7 DEF Origins, Gated
  <2>3. Preceded'
    BY <1>7, ArrivesPreceded
  <2>4. ASSUME ~ledger.again
        PROVE  /\ Ascending(backend')
               /\ Below(Range(backend'), Range(pending.lines))
               /\ Below(Range(backend'), Range(events))
               /\ Below(Range(backend'), Range(queue))
               /\ \A l \in Range(backend') : l.src \in Chains => l.n <= offset[l.src]
               /\ ledger.withheld \intersect Range(backend') = {}
    <3>1. /\ Ascending(backend) /\ Below(Range(backend), Range(batch.lines))
          /\ Below(Range(backend), Range(pending.lines))
          /\ Below(Range(backend), Range(events)) /\ Below(Range(backend), Range(queue))
          /\ \A l \in Range(backend) : l.src \in Chains => l.n <= offset[l.src]
          /\ ledger.withheld \intersect Range(batch.lines) = {}
          /\ ledger.withheld \intersect Range(backend) = {}
      BY <1>2, <1>7, <2>4 DEF StreamInv, Fresh
    <3>2. /\ Below(Range(batch.lines), Range(pending.lines))
          /\ Below(Range(batch.lines), Range(events)) /\ Below(Range(batch.lines), Range(queue))
      BY <1>1, <1>2 DEF Queued
    <3>3. \A l \in Range(t) : l.src \in Chains => l.n <= offset[l.src]
      <4>. SUFFICES ASSUME NEW l \in Range(t), l.src \in Chains PROVE l.n <= offset[l.src]
        OBVIOUS
      <4>1. l.n <= Old.adv[l.src] /\ Old.adv[l.src] <= offset[l.src]
        BY <1>1, <1>2, <1>7 DEF Standing
      <4>2. l.n \in Nat /\ Old.adv[l.src] \in Nat /\ offset[l.src] \in Nat
        BY <1>1, <1>3, <1>7, LineType, MarkType, ChainTypes
      <4>. QED BY <4>1, <4>2
    <3>4. Below(Range(backend), Range(t))
      BY <1>7, <3>1 DEF Below
    <3>5. Ascending(backend')
      BY <1>3, <1>7, <3>1, <3>4, AscendingConcat
    <3>6. /\ Below(Range(backend'), Range(pending.lines))
          /\ Below(Range(backend'), Range(events)) /\ Below(Range(backend'), Range(queue))
      BY <1>7, <2>1, <3>1, <3>2 DEF Below
    <3>7. \A l \in Range(backend') : l.src \in Chains => l.n <= offset[l.src]
      BY <2>1, <3>1, <3>3
    <3>8. ledger.withheld \intersect Range(backend') = {}
      BY <1>7, <2>1, <3>1
    <3>. QED BY <3>5, <3>6, <3>7, <3>8
  <2>. QED BY <1>4, <1>5, <2>1, <2>2, <2>3, <2>4 DEF Arrived
<1>. QED BY <1>6, <1>7 DEF Arrives

\* A push that ends: the batch is settled, put back or, at the end of the task, forgotten.
Ends ==
    /\ Arrives
    /\ keyed' = FALSE /\ batch' = Empty
    /\ \/ /\ pc = "push" /\ pc' = "poll" /\ held' = held          \* settled
          /\ Range(batch.lines) \subseteq Range(backend') \union ledger'.refused
          /\ cursor' = Advanced /\ saved' \in {saved, Advanced}
          /\ ledger'.again = ledger.again
       \/ /\ pc = "push" /\ pc' = "poll" /\ held' = <<batch>>     \* put back
          /\ UNCHANGED <<cursor, saved>>
          /\ ~ledger'.again => ~ledger.again /\ ~keyed /\ backend' = backend
       \/ /\ pc = "last" /\ pc' = "done" /\ held' = held          \* forgotten
          /\ UNCHANGED <<cursor, saved>>
          /\ ~ledger'.again => ~ledger.again

\* The end of a push keeps the invariant.
LEMMA EndsStep ==
    ASSUME StreamInv, StreamTypeOK', Ends
    PROVE  StreamInv'
<1>. DEFINE E == Range(events)
            P == Range(pending.lines)
            O == Range(batch.lines)
            N == Range(Old'.lines)
            Q == Range(queue)
            B == Range(backend')
<1>1. StreamTypeOK /\ Shape /\ Origins /\ Gated /\ Queued /\ Standing
  BY DEF StreamInv
<1>2. /\ held = <<>> /\ Old = batch /\ pc # "done" /\ pc # "off" /\ events = <<>>
      /\ UNCHANGED <<file, offset, events, queue, pending>>
      /\ ledger'.withheld = ledger.withheld /\ ledger'.journal = ledger.journal
  BY <1>1 DEF Ends, Arrives, Shape, Old
<1>3. Arrived
  BY ArrivesArrived DEF Ends
<1>4. /\ held' = <<>> \/ held' = <<batch>>
      /\ held' = <<>> => Old' = Empty
      /\ held' = <<batch>> => Old' = batch
  <2>1. held' = <<>> => Old' = Empty
    BY DEF Ends, Old, Empty, Zero
  <2>2. held' = <<batch>> => Old' = batch
    <3>. SUFFICES ASSUME held' = <<batch>> PROVE Old' = batch
      OBVIOUS
    <3>1. held' # <<>> /\ held'[1] = batch
      OBVIOUS
    <3>. QED BY <3>1 DEF Old
  <2>. QED BY <1>2, <2>1, <2>2 DEF Ends
<1>5. /\ Range(Empty.lines) = {} /\ Ascending(Empty.lines)
      /\ \A c \in Chains : Empty.adv[c] = 0
  BY EmptyBatch
<1>6. N = O \/ N = {}
  BY <1>4, <1>5
<1>7. \A c \in Chains : /\ saved[c] \in Nat /\ cursor[c] \in Nat /\ offset[c] \in Nat
                        /\ batch.adv[c] \in Nat /\ pending.adv[c] \in Nat /\ Len(file[c]) \in Nat
  BY <1>1, <1>2, ChainTypes, MarkType, MemoryTypes
<1>. HIDE DEF E, P, O, N, Q, B
<1>8. Shape'
  <2>1. held' = <<>> \/ \E b \in {held'[1]} : held' = <<b>>
    <3>1. held' = <<batch>> => held'[1] = batch
      OBVIOUS
    <3>. QED BY <1>4, <3>1
  <2>2. pc' \in {"poll", "done"} /\ batch' = Empty' /\ ~keyed'
    BY DEF Ends, Empty, Zero
  <2>. QED BY <1>2, <2>1, <2>2 DEF Shape
<1>9. Origins' /\ Gated'
  <2>1. \A m : FromChain(m) => FromChain(m)'
    BY <1>2 DEF FromChain, Rec
  <2>2. \A m : FromBus(m) => FromBus(m)'
    BY <1>2 DEF FromBus
  <2>3. \A m \in N : FromChain(m) \/ FromBus(m)
    BY <1>1, <1>2, <1>6 DEF Origins, O
  <2>4. \A m \in B : FromChain(m) \/ FromBus(m)
    BY <1>3 DEF Arrived, B
  <2>5. Origins'
    BY <1>1, <1>2, <2>1, <2>2, <2>3, <2>4 DEF Origins, N, B
  <2>6. \A m \in N \union B : m.scope \in Published
    BY <1>1, <1>2, <1>3, <1>6 DEF Gated, Arrived, O, B
  <2>. QED BY <1>1, <1>2, <2>5, <2>6 DEF Gated, N, B
<1>10. Queued'
  <2>1. Below(O, P) /\ Below(O, E) /\ Below(P, E) /\ Below(O, Q) /\ Below(P, Q)
    BY <1>1, <1>2 DEF Queued, O, P, E, Q
  <2>2. Below(N, P) /\ Below(N, E) /\ Below(N, Q)
    BY <1>6, <2>1 DEF Below
  <2>3. Ascending(Old'.lines)
    BY <1>1, <1>2, <1>4, <1>5 DEF Queued
  <2>. QED BY <1>1, <1>2, <2>1, <2>2, <2>3 DEF Queued, N, P, E, Q
<1>11. \A c \in Chains : Advanced[c] = batch.adv[c] \/ Advanced[c] = cursor[c]
  BY DEF Advanced
<1>12. /\ cursor' = cursor \/ (cursor' = Advanced /\ Old' = Empty)
       /\ saved' = saved \/ (saved' = Advanced /\ Old' = Empty)
  BY <1>2, <1>4 DEF Ends
<1>13. Standing'
  <2>. SUFFICES ASSUME NEW c \in Chains
                PROVE  /\ saved'[c] <= Len(file[c]) /\ cursor'[c] <= Len(file[c])
                       /\ saved'[c] <= offset[c] /\ cursor'[c] <= offset[c]
                       /\ Old'.adv[c] <= offset[c]
                       /\ \A l \in Range(Old'.lines) : l.src = c =>
                             saved'[c] < l.n /\ cursor'[c] < l.n /\ l.n <= Old'.adv[c]
                       /\ \A l \in P : l.src = c =>
                             saved'[c] < l.n /\ cursor'[c] < l.n /\ Old'.adv[c] < l.n
                       /\ \A l \in E : l.src = c =>
                             saved'[c] < l.n /\ cursor'[c] < l.n /\ Old'.adv[c] < l.n
    BY <1>1, <1>2 DEF Standing, P, E
  <2>1. /\ saved[c] <= offset[c] /\ cursor[c] <= offset[c] /\ offset[c] <= Len(file[c])
        /\ batch.adv[c] <= offset[c]
        /\ \A l \in O : l.src = c =>
              saved[c] < l.n /\ cursor[c] < l.n /\ l.n <= batch.adv[c]
        /\ \A l \in P : l.src = c =>
              saved[c] < l.n /\ cursor[c] < l.n /\ batch.adv[c] < l.n
        /\ \A l \in E : l.src = c =>
              saved[c] < l.n /\ cursor[c] < l.n /\ batch.adv[c] < l.n
    BY <1>1, <1>2 DEF Standing, P, E, O
  <2>2. \A l \in P \union E : l.n \in Nat
    BY <1>1, LineType, MemoryTypes DEF P, E
  <2>3. CASE Old' = Empty
    <3>1. /\ saved'[c] \in {saved[c], cursor[c], batch.adv[c]}
          /\ cursor'[c] \in {cursor[c], batch.adv[c]}
      BY <1>11, <1>12
    <3>2. Range(Old'.lines) = {} /\ Old'.adv[c] = 0
      BY <1>5, <2>3
    <3>. QED BY <1>7, <2>1, <2>2, <3>1, <3>2
  <2>4. CASE Old' = batch /\ cursor' = cursor /\ saved' = saved
    BY <1>7, <2>1, <2>4 DEF O
  <2>. QED BY <1>4, <1>12, <2>3, <2>4
<1>14. Preceded'
  BY <1>3 DEF Arrived
<1>15. \A c \in Chains, n \in Nat : Done(c, n) => Done(c, n)'
  BY <1>3 DEF Arrived
<1>16. \A c \in Chains : \A n \in 1 .. offset[c] :
          Done(c, n) \/ Rec(c, n) \in E \/ Rec(c, n) \in P \/ Rec(c, n) \in O
  BY <1>2 DEF StreamInv, Remembered, E, P, O
<1>17. \A c, n : Rec(c, n)' = Rec(c, n)
  BY <1>2 DEF Rec
<1>18. ASSUME O \subseteq B \union ledger'.refused, NEW c \in Chains, NEW n \in 1 .. offset[c],
              Rec(c, n) \in O
       PROVE  Done(c, n)'
  BY <1>17, <1>18 DEF Done, Settled, B
<1>19. Remembered'
  <2>. SUFFICES ASSUME pc' # "done", NEW c \in Chains, NEW n \in 1 .. offset[c]
                PROVE  \/ Done(c, n)' \/ Rec(c, n) \in E \/ Rec(c, n) \in P \/ Rec(c, n) \in N
    BY <1>2, <1>17 DEF Remembered, E, P, N
  <2>0. n \in Nat
    BY <1>7
  <2>1. CASE O \subseteq B \union ledger'.refused
    BY <1>15, <1>16, <1>18, <2>0, <2>1
  <2>2. CASE held' = <<batch>>
    <3>1. N = O
      BY <1>4, <2>2 DEF N, O
    <3>. QED BY <1>15, <1>16, <2>0, <3>1
  <2>. QED BY <2>1, <2>2 DEF Ends, O, B
<1>20. ASSUME O \subseteq B \union ledger'.refused, NEW c \in Chains, NEW n \in 1 .. Advanced[c]
       PROVE  Done(c, n)'
  <2>0. n \in Nat
    BY <1>7, <1>11
  <2>1. CASE Advanced[c] = cursor[c]
    BY <1>15, <1>20, <2>0, <2>1 DEF StreamInv, Passed
  <2>2. CASE Advanced[c] = batch.adv[c]
    <3>1. n <= batch.adv[c] /\ n \in 1 .. offset[c]
      BY <1>1, <1>2, <1>7, <1>20, <2>2 DEF Standing
    <3>2. Rec(c, n).src = c /\ Rec(c, n).n = n
      BY DEF Rec, Line
    <3>3. Rec(c, n) \notin E /\ Rec(c, n) \notin P
      BY <1>1, <1>2, <1>7, <2>0, <3>1, <3>2 DEF Standing, E, P
    <3>. QED BY <1>15, <1>16, <1>18, <1>20, <2>0, <3>1, <3>3
  <2>. QED BY <1>11, <2>1, <2>2
<1>21. Passed'
  <2>1. \A c \in Chains : /\ \A n \in 1 .. saved[c] : Done(c, n)'
                          /\ \A n \in 1 .. cursor[c] : Done(c, n)'
    BY <1>7, <1>15 DEF StreamInv, Passed
  <2>2. CASE cursor' = cursor /\ saved' = saved
    BY <2>1, <2>2 DEF Passed
  <2>3. CASE /\ O \subseteq B \union ledger'.refused
             /\ cursor' = Advanced /\ saved' \in {saved, Advanced}
    BY <1>20, <2>1, <2>3 DEF Passed
  <2>. QED BY <2>2, <2>3 DEF Ends, O, B
<1>22. KeyKnown'
  BY DEF Ends, KeyKnown
<1>23. Fresh'
  <2>. SUFFICES ASSUME ~ledger'.again PROVE Fresh'
    BY DEF Fresh
  <2>1. ~ledger.again
    BY DEF Ends
  <2>2. /\ Ascending(backend') /\ Below(B, P) /\ Below(B, E) /\ Below(B, Q)
        /\ \A l \in B : l.src \in Chains => l.n <= offset[l.src]
        /\ ledger.withheld \intersect B = {}
    BY <1>3, <2>1 DEF Arrived, B, P, E, Q
  <2>3. /\ Below(ledger.withheld, E)
        /\ \A l \in ledger.withheld : l.src \in Chains => l.n <= offset[l.src]
        /\ ledger.withheld \intersect O = {} /\ ledger.withheld \intersect P = {}
    BY <1>2, <2>1 DEF StreamInv, Fresh, E, O, P
  <2>4. Below(B, N)
    <3>1. CASE held' = <<>>
      <4>1. N = {}
        BY <1>4, <1>5, <3>1 DEF N
      <4>. QED BY <4>1 DEF Below
    <3>2. CASE held' = <<batch>>
      <4>1. N = O /\ ~keyed /\ backend' = backend
        <5>1. <<batch>> # <<>>
          OBVIOUS
        <5>. QED BY <1>2, <1>4, <3>2, <5>1 DEF Ends, N, O
      <4>. QED BY <1>2, <2>1, <4>1 DEF StreamInv, Fresh, B, O
    <3>. QED BY <1>4, <3>1, <3>2
  <2>5. ledger.withheld \intersect N = {}
    BY <1>6, <2>3
  <2>. QED BY <1>2, <2>2, <2>3, <2>4, <2>5 DEF Fresh, B, N, P, E, Q
<1>. QED
  BY <1>8, <1>9, <1>10, <1>13, <1>14, <1>19, <1>21, <1>22, <1>23 DEF StreamInv

\* The answer is lost: the lines have arrived, and the key is known.
LEMMA KeyedStep ==
    ASSUME StreamInv, StreamTypeOK', Arrives, UNCHANGED <<saved, cursor, held, batch, pc>>,
           Range(batch.lines) \subseteq Range(backend'), SameLines(ledger', ledger),
           ledger'.again = ledger.again, keyed' = TRUE
    PROVE  StreamInv'
<1>1. StreamTypeOK /\ Shape /\ Origins /\ Gated /\ Queued /\ Standing
  BY DEF StreamInv
<1>2. /\ Old' = Old /\ pc # "off" /\ pc \in {"push", "last"}
      /\ UNCHANGED <<file, offset, events, queue, pending>>
      /\ ledger'.withheld = ledger.withheld /\ ledger'.journal = ledger.journal
  BY DEF Arrives, Old
<1>3. Arrived
  BY ArrivesArrived
<1>4. Shape'
  BY <1>1, <1>2 DEF Shape
<1>5. Origins' /\ Gated'
  <2>1. \A m : FromChain(m) => FromChain(m)'
    BY <1>2 DEF FromChain, Rec
  <2>2. \A m : FromBus(m) => FromBus(m)'
    BY <1>2 DEF FromBus
  <2>3. Origins'
    BY <1>1, <1>2, <1>3, <2>1, <2>2 DEF Origins, Arrived
  <2>. QED BY <1>1, <1>2, <1>3, <2>3 DEF Gated, Arrived
<1>6. Queued' /\ Standing'
  BY <1>1, <1>2 DEF Queued, Standing
<1>7. Passed'
  BY <1>1, <1>3, ChainTypes DEF StreamInv, Passed, Arrived
<1>8. Remembered'
  <2>1. \A c \in Chains : \A n \in 1 .. offset[c] : n \in Nat
    BY <1>1, ChainTypes
  <2>. QED BY <1>2, <1>3, <2>1 DEF StreamInv, Remembered, Arrived, Rec
<1>9. Preceded' /\ KeyKnown'
  BY <1>3 DEF Arrived, KeyKnown
<1>10. Fresh'
  <2>. SUFFICES ASSUME ~ledger.again PROVE Fresh'
    BY DEF Fresh
  <2>1. /\ Ascending(backend')
        /\ Below(Range(backend'), Range(pending.lines))
        /\ Below(Range(backend'), Range(events)) /\ Below(Range(backend'), Range(queue))
        /\ \A l \in Range(backend') : l.src \in Chains => l.n <= offset[l.src]
        /\ ledger.withheld \intersect Range(backend') = {}
    BY <1>3 DEF Arrived
  <2>2. /\ Below(ledger.withheld, Range(events))
        /\ \A l \in ledger.withheld : l.src \in Chains => l.n <= offset[l.src]
        /\ ledger.withheld \intersect Range(Old.lines) = {}
        /\ ledger.withheld \intersect Range(pending.lines) = {}
    BY DEF StreamInv, Fresh
  <2>. QED BY <1>2, <2>1, <2>2 DEF Fresh
<1>. QED BY <1>4, <1>5, <1>6, <1>7, <1>8, <1>9, <1>10 DEF StreamInv

\* The lines of a batch arrive as the answers say.
LEMMA TakenAll ==
    ASSUME StreamInv, Pushing, backend' = Taken(batch.lines)
    PROVE  /\ backend' \in Seq(Lines) /\ Range(batch.lines) \subseteq Range(backend')
           /\ \/ backend' = backend
              \/ /\ ~keyed
                 /\ \E t \in Seq(Lines) :
                       /\ backend' = backend \o t /\ Ascending(t)
                       /\ Range(t) \subseteq Range(batch.lines)
                       /\ Range(batch.lines) \subseteq Range(t)
<1>1. /\ held = <<>> /\ Old = batch /\ backend \in Seq(Lines) /\ batch.lines \in Seq(Lines)
      /\ Ascending(batch.lines)
  BY MemoryTypes DEF StreamInv, Shape, Pushing, Old, Queued
<1>2. CASE keyed
  BY <1>1, <1>2 DEF Taken, StreamInv, KeyKnown
<1>3. CASE ~keyed
  <2>1. backend' = backend \o batch.lines
    BY <1>3 DEF Taken
  <2>2. Range(backend') = Range(backend) \union Range(batch.lines) /\ backend' \in Seq(Lines)
    BY <1>1, <2>1, RangeConcat
  <2>. QED BY <1>1, <1>3, <2>1, <2>2
<1>. QED BY <1>2, <1>3

\* h is the ledger with lines refused
Refuses(h) ==
    /\ h \in LedgerType /\ h.withheld = ledger.withheld /\ h.unnamed = ledger.unnamed
    /\ ledger.refused \subseteq h.refused
    /\ h.journal = ledger.journal /\ h.again = ledger.again

\* the answer that settles a batch: every line arrived or is refused
Answered(h) ==
    /\ Pushing /\ Refuses(h) /\ backend' \in Seq(Lines)
    /\ Range(batch.lines) \subseteq Range(backend') \union h.refused
    /\ \/ backend' = backend
       \/ /\ ~keyed
          /\ \E t \in Seq(Lines) :
                /\ backend' = backend \o t /\ Ascending(t)
                /\ Range(t) \subseteq Range(batch.lines)
                /\ Range(batch.lines) \subseteq Range(t) \union h.refused

\* Settle keeps the invariant: the cursor passes over what was answered for.
LEMMA SettleStep ==
    ASSUME StreamInv, NEW h, Answered(h), Settle(h)
    PROVE  StreamInv'
<1>. USE DEF account, control, source, batcher, push
<1>1. /\ UNCHANGED <<file, offset, events, queue, pending, held>>
      /\ UNCHANGED <<auth, team, flag, paused, cancel, first>>
      /\ batch' = Empty /\ attempt' = 0 /\ keyed' = FALSE
  BY DEF Settle
<1>2. /\ StreamTypeOK /\ Shape /\ ControlType /\ LinesType
  BY TypeParts DEF StreamInv
<1>3. pc \in {"push", "last"} /\ h \in LedgerType
  BY DEF Answered, Pushing, Refuses
<1>4. ledger' = h \/ (h.faults < MaxFaults /\ ledger' = Faulted(h))
  BY DEF Settle
<1>5. ledger' \in LedgerType /\ SameLines(ledger', h) /\ ledger'.again = ledger.again
      /\ ledger'.journal = ledger.journal
  BY <1>3, <1>4, LedgerFault DEF SameLines, Answered, Refuses
<1>6. Advanced \in Marks
  BY <1>2 DEF Advanced, LinesType, Marks, IsBatch
<1>7. \/ pc = "last" /\ pc' = "done" /\ UNCHANGED <<cursor, saved>>
      \/ pc = "push" /\ pc' = "poll" /\ cursor' = Advanced /\ saved' \in {saved, Advanced}
  BY <1>3 DEF Settle
<1>8. StreamTypeOK'
  <2>1. ControlType'
    BY <1>1, <1>2, <1>7, FirstAttempt DEF ControlType
  <2>2. saved' \in Marks /\ cursor' \in Marks
    BY <1>2, <1>6, <1>7 DEF LinesType
  <2>3. backend' \in Seq(Lines)
    BY DEF Answered
  <2>4. IsBatch(batch')
    BY <1>1, EmptyBatch
  <2>5. LinesType'
    BY <1>1, <1>2, <1>5, <2>2, <2>3, <2>4 DEF LinesType, IsBatch
  <2>. QED BY <2>1, <2>5, TypePartsNext
<1>9. Arrives
  BY <1>1, <1>3, <1>5 DEF Arrives, Answered, Refuses, SameLines
<1>10. Ends
  <2>1. Range(batch.lines) \subseteq Range(backend') \union ledger'.refused
    BY <1>5 DEF Answered, SameLines
  <2>. QED BY <1>1, <1>5, <1>7, <1>9, <2>1 DEF Ends
<1>. QED BY <1>8, <1>10, EndsStep

\* the batch goes back, and h is the ledger
Unanswered(h) ==
    /\ Pushing /\ h \in LedgerType /\ SameLines(h, ledger) /\ h.journal = ledger.journal
    /\ backend' \in Seq(Lines)
    /\ ~h.again => ~ledger.again /\ backend' = backend
    /\ \/ backend' = backend
       \/ /\ ~keyed
          /\ \E t \in Seq(Lines) :
                /\ backend' = backend \o t /\ Ascending(t)
                /\ Range(t) \subseteq Range(batch.lines)
                /\ Range(batch.lines) \subseteq Range(t)

\* The sequence of one batch.
LEMMA OnlyBatch == ASSUME NEW b PROVE <<b>> \o <<>> = <<b>> /\ Len(<<b>>) = 1 /\ Range(<<b>>) = {b}
<1>1. <<b>> \in Seq({b}) /\ <<>> \in Seq({b})
  OBVIOUS
<1>. QED BY <1>1 DEF Range

\* PutBack keeps the invariant: the batch becomes the next one to go out.
LEMMA PutBackStep ==
    ASSUME StreamInv, NEW h, NEW pausing \in BOOLEAN, Unanswered(h), PutBack(pausing, h)
    PROVE  StreamInv'
<1>. USE DEF account, control, source, batcher, push
<1>1. /\ UNCHANGED <<file, saved, cursor, offset, events, queue, pending>>
      /\ UNCHANGED <<auth, team, flag, cancel, first>>
      /\ batch' = Empty /\ attempt' = 0 /\ keyed' = FALSE
      /\ ledger' = [h EXCEPT !.again = h.again \/ keyed]
  BY DEF PutBack
<1>2. /\ StreamTypeOK /\ Shape /\ ControlType /\ LinesType
  BY TypeParts DEF StreamInv
<1>3. pc \in {"push", "last"} /\ h \in LedgerType /\ held = <<>>
  BY <1>2 DEF Unanswered, Pushing, Shape
<1>4. PICK a \in BOOLEAN : a = (h.again \/ keyed)
  OBVIOUS
<1>5. /\ ledger' \in LedgerType /\ SameLines(ledger', h) /\ ledger'.again = a
      /\ ledger'.journal = h.journal
  BY <1>1, <1>3, <1>4, LedgerAgain
<1>6. Requeued = <<batch>>
  <2>1. ~(Len(held) >= HeldCap)
    BY <1>3, Numbers
  <2>. QED BY <1>3, <2>1, OnlyBatch DEF Requeued
<1>7. \/ pc = "last" /\ pc' = "done" /\ held' = held /\ paused' = paused
      \/ pc = "push" /\ pc' = "poll" /\ held' = <<batch>> /\ paused' = (paused \/ pausing)
  BY <1>3, <1>6 DEF PutBack
<1>8. StreamTypeOK'
  <2>1. paused' \in BOOLEAN
    BY <1>2, <1>7 DEF ControlType
  <2>2. ControlType'
    BY <1>1, <1>2, <1>7, <2>1, FirstAttempt DEF ControlType
  <2>3. backend' \in Seq(Lines)
    BY DEF Unanswered
  <2>4. IsBatch(batch') /\ IsBatch(batch)
    BY <1>1, <1>2, EmptyBatch DEF LinesType
  <2>5. Len(held') <= 1 /\ \A b \in Range(held') : IsBatch(b)
    <3>1. CASE held' = held
      BY <1>2, <3>1 DEF LinesType
    <3>2. CASE held' = <<batch>>
      BY <2>4, <3>2, OnlyBatch
    <3>. QED BY <1>7, <3>1, <3>2
  <2>6. LinesType'
    BY <1>1, <1>2, <1>5, <2>3, <2>4, <2>5 DEF LinesType, IsBatch
  <2>. QED BY <2>2, <2>6, TypePartsNext
<1>9. Arrives
  <2>1. /\ ledger'.withheld = ledger.withheld /\ ledger'.unnamed = ledger.unnamed
        /\ ledger'.refused = ledger.refused /\ ledger'.journal = ledger.journal
    BY <1>5 DEF Unanswered, SameLines
  <2>. QED BY <1>1, <1>3, <2>1 DEF Arrives, Unanswered
<1>10. Ends
  <2>1. ~ledger'.again => ~ledger.again /\ ~keyed /\ backend' = backend
    BY <1>4, <1>5 DEF Unanswered
  <2>. QED BY <1>1, <1>7, <1>9, <2>1 DEF Ends
<1>. QED BY <1>8, <1>10, EndsStep

-----------------------------------------------------------------------------
(* The steps of StreamNext that are left *)

\* StillStep with the types
LEMMA QuietStep ==
    ASSUME StreamInv, ControlType', UNCHANGED Still, ledger' \in LedgerType,
           SameLines(ledger', ledger), ledger'.again = ledger.again,
           ledger'.journal = ledger.journal,
           pc' = "off" <=> pc = "off", pc = "done" => pc' = "done",
           pc \in {"push", "last"} <=> pc' \in {"push", "last"},
           events = <<>> \/ pc' = "seal"
    PROVE  StreamInv'
<1>1. LinesType
  BY TypeParts DEF StreamInv
<1>2. LinesType'
  BY <1>1 DEF LinesType, Still, IsBatch
<1>3. StreamTypeOK'
  BY <1>2, TypePartsNext
<1>. QED BY <1>3, StillStep

\* the steps of the outside world and of a control handle
LEMMA HandleStep ==
    ASSUME StreamInv, Change, ControlType', UNCHANGED Still, UNCHANGED pc
    PROVE  StreamInv'
<1>1. Shape /\ ledger \in LedgerType
  BY TypeParts DEF StreamInv, LinesType
<1>2. /\ ledger' \in LedgerType /\ SameLines(ledger', ledger)
      /\ ledger'.again = ledger.again /\ ledger'.journal = ledger.journal
  BY <1>1, LedgerChange
<1>3. events = <<>> \/ pc' = "seal"
  BY <1>1 DEF Shape
<1>. QED BY <1>2, <1>3, QuietStep

\* Logins, pauses, resumes and a requested shutdown keep the invariant.
LEMMA OutsideSteps ==
    ASSUME StreamInv,
           \/ \E a \in {"none", "bearer", "session"}, t \in BOOLEAN : Relogin(a, t)
           \/ Pause \/ Resume \/ Shutdown
    PROVE  StreamInv'
<1>. USE DEF account, control, source, batcher, push
<1>1. ControlType
  BY TypeParts DEF StreamInv
<1>2. ASSUME NEW a \in {"none", "bearer", "session"}, NEW t \in BOOLEAN, Relogin(a, t)
      PROVE  StreamInv'
  <2>1. Change /\ UNCHANGED Still /\ UNCHANGED pc
    BY <1>2 DEF Relogin, Still
  <2>2. ControlType'
    BY <1>1, <1>2 DEF Relogin, ControlType
  <2>. QED BY <2>1, <2>2, HandleStep
<1>3. CASE Pause
  <2>1. Change /\ UNCHANGED Still /\ UNCHANGED pc
    BY <1>3 DEF Pause, Still
  <2>2. ControlType'
    BY <1>1, <1>3 DEF Pause, ControlType
  <2>. QED BY <2>1, <2>2, HandleStep
<1>4. CASE Resume
  <2>1. Change /\ UNCHANGED Still /\ UNCHANGED pc
    BY <1>4 DEF Resume, Still
  <2>2. ControlType'
    BY <1>1, <1>4 DEF Resume, ControlType
  <2>. QED BY <2>1, <2>2, HandleStep
<1>5. CASE Shutdown
  <2>1. Change /\ UNCHANGED Still /\ UNCHANGED pc
    BY <1>5 DEF Shutdown, Still
  <2>2. ControlType'
    BY <1>1, <1>5 DEF Shutdown, ControlType
  <2>. QED BY <2>1, <2>2, HandleStep
<1>. QED BY <1>2, <1>3, <1>4, <1>5

\* A round that does not flush, and a poll while paused, keep the invariant.
LEMMA LoopSteps ==
    ASSUME StreamInv, NoFlush \/ (Poll /\ paused)
    PROVE  StreamInv'
<1>. USE DEF account, control, source, batcher, push
<1>1. ControlType /\ ledger \in LedgerType /\ Shape
  BY TypeParts DEF StreamInv, LinesType
<1>2. UNCHANGED Still /\ ledger' = ledger
  BY DEF NoFlush, Poll, Still
<1>3. \/ pc = "check" /\ pc' = "poll"
      \/ pc = "poll" /\ pc' = "seal"
  BY DEF NoFlush, Poll
<1>4. UNCHANGED <<auth, team, flag, cancel, paused, first, attempt, keyed>>
  BY DEF NoFlush, Poll
<1>5. ControlType'
  BY <1>1, <1>3, <1>4 DEF ControlType
<1>6. events = <<>>
  BY <1>1, <1>3 DEF Shape
<1>. QED BY <1>1, <1>2, <1>3, <1>5, <1>6, QuietStep DEF SameLines

\* the process ends: memory is gone
LEMMA EndSteps ==
    ASSUME StreamInv, ShutdownTimesOut \/ Crash \/ TaskEnds
    PROVE  StreamInv'
<1>. USE DEF account, control, source, batcher, push
<1>1. ControlType /\ LinesType /\ ledger \in LedgerType
  BY TypeParts DEF StreamInv, LinesType
<1>2. Gone /\ UNCHANGED <<file, saved, auth, team, flag, backend>>
  BY DEF ShutdownTimesOut, Crash, TaskEnds
<1>3. /\ ledger' \in LedgerType /\ SameLines(ledger', ledger)
      /\ ledger'.again = TRUE /\ ledger'.journal = ledger.journal
  <2>1. CASE ledger' = [ledger EXCEPT !.again = TRUE]
    BY <1>1, <2>1, LedgerAgain
  <2>2. CASE Crash
    <3>1. PICK h : h = Faulted(ledger)
      OBVIOUS
    <3>2. ledger' = [h EXCEPT !.again = TRUE]
      BY <2>2, <3>1 DEF Crash
    <3>3. h \in LedgerType /\ SameLines(h, ledger) /\ h.journal = ledger.journal
      BY <1>1, <2>2, <3>1, LedgerFault DEF Crash
    <3>4. /\ ledger' \in LedgerType /\ SameLines(ledger', h) /\ ledger'.again = TRUE
          /\ ledger'.journal = h.journal
      BY <3>2, <3>3, LedgerAgain
    <3>. QED BY <3>3, <3>4 DEF SameLines
  <2>. QED BY <2>1, <2>2 DEF ShutdownTimesOut, TaskEnds
<1>4. ControlType'
  BY <1>1, <1>2, FirstAttempt DEF ControlType, Gone
<1>5. /\ offset' = Zero /\ cursor' = Zero /\ events' = <<>> /\ queue' = <<>>
      /\ pending' = Empty /\ held' = <<>> /\ batch' = Empty
  BY <1>2 DEF Gone
<1>6. IsBatch(pending') /\ IsBatch(batch') /\ offset' \in Marks /\ cursor' \in Marks
  BY <1>5, EmptyBatch
<1>7. /\ events' \in Seq(Lines) /\ queue' \in Seq(Lines) /\ Len(queue') <= QueueCap
      /\ Len(held') <= 1 /\ Range(held') = {}
  BY <1>5, Numbers, RangeEmpty
<1>8. LinesType'
  BY <1>1, <1>2, <1>3, <1>6, <1>7 DEF LinesType, IsBatch
<1>9. StreamTypeOK'
  BY <1>4, <1>8, TypePartsNext
<1>. QED BY <1>2, <1>3, <1>9, GoneStep

\* the answers that settle the batch
LEMMA AnswerSteps ==
    ASSUME StreamInv,
           \/ PushNothing \/ PushAccepted
           \/ \E bad \in SUBSET Range(batch.lines) \ {{}} : PushRefused(bad)
    PROVE  StreamInv'
<1>1. Shape /\ backend \in Seq(Lines) /\ batch.lines \in Seq(Lines) /\ ledger \in LedgerType
  BY MemoryTypes DEF StreamInv
<1>2. Refuses(ledger)
  BY <1>1 DEF Refuses
<1>3. CASE PushNothing
  <2>1. Pushing /\ batch.lines = <<>> /\ backend' = backend /\ Settle(ledger)
    BY <1>3 DEF PushNothing
  <2>2. Answered(ledger)
    BY <1>1, <1>2, <2>1, RangeEmpty DEF Answered
  <2>. QED BY <2>1, <2>2, SettleStep
<1>4. CASE PushAccepted
  <2>1. Pushing /\ backend' = Taken(batch.lines) /\ Settle(ledger)
    BY <1>4 DEF PushAccepted, Asks
  <2>2. Answered(ledger)
    BY <1>2, <2>1, TakenAll DEF Answered
  <2>. QED BY <2>1, <2>2, SettleStep
<1>5. ASSUME NEW bad \in SUBSET Range(batch.lines), PushRefused(bad) PROVE StreamInv'
  <2>1. PICK g : g = [ledger EXCEPT !.refused = ledger.refused \union bad]
    OBVIOUS
  <2>2. PICK h : h = Faulted(g)
    OBVIOUS
  <2>3. bad \subseteq Lines
    BY <1>1, RangeType
  <2>4. /\ g \in LedgerType /\ g.withheld = ledger.withheld /\ g.unnamed = ledger.unnamed
        /\ g.refused = ledger.refused \union bad /\ g.journal = ledger.journal
        /\ g.again = ledger.again /\ g.faults = ledger.faults
    BY <1>1, <2>1, <2>3 DEF LedgerType
  <2>5. ledger.faults < MaxFaults
    BY <1>5 DEF PushRefused
  <2>6. Refuses(h) /\ bad \subseteq h.refused
    BY <2>2, <2>4, <2>5, LedgerFault DEF Refuses, SameLines
  <2>7. Pushing /\ Settle(h)
    BY <1>5, <2>1, <2>2 DEF PushRefused, Asks
  <2>8. PICK t : t = Keep(batch.lines, Range(batch.lines) \ bad)
    OBVIOUS
  <2>9. backend' = Taken(t)
    BY <1>5, <2>8 DEF PushRefused
  <2>10. Ascending(batch.lines)
    BY <2>7 DEF StreamInv, Queued, Shape, Old, Pushing
  <2>11. t \in Seq(Lines) /\ Ascending(t) /\ Range(t) = Range(batch.lines) \ bad
    <3>1. t \in Seq(Lines) /\ IsKept(t, batch.lines, Range(batch.lines) \ bad, Len(batch.lines))
      BY <1>1, <2>8, KeepFacts
    <3>2. /\ Ascending(t)
          /\ Range(t) = Range(batch.lines) \intersect (Range(batch.lines) \ bad)
      BY <1>1, <2>10, <3>1, AscendingKept
    <3>. QED BY <3>1, <3>2
  <2>12. CASE keyed
    <3>1. backend' = backend /\ Range(batch.lines) \subseteq Range(backend)
      BY <2>9, <2>12 DEF Taken, StreamInv, KeyKnown
    <3>2. Answered(h)
      BY <1>1, <2>6, <2>7, <3>1 DEF Answered
    <3>. QED BY <2>7, <3>2, SettleStep
  <2>13. CASE ~keyed
    <3>1. backend' = backend \o t
      BY <2>9, <2>13 DEF Taken
    <3>2. backend' \in Seq(Lines) /\ Range(backend') = Range(backend) \union Range(t)
      BY <1>1, <2>11, <3>1, RangeConcat
    <3>3. Range(batch.lines) \subseteq Range(t) \union h.refused
      BY <2>6, <2>11
    <3>4. Answered(h)
      BY <2>6, <2>7, <2>11, <2>13, <3>1, <3>2, <3>3 DEF Answered
    <3>. QED BY <2>7, <3>4, SettleStep
  <2>. QED BY <2>12, <2>13
<1>. QED BY <1>3, <1>4, <1>5

\* the answer that leaves the push open: the batch is asked for again
LEMMA AgainStep ==
    ASSUME StreamInv, Pushing, attempt' = attempt + 1, ~(attempt + 1 >= Retries),
           UNCHANGED <<file, saved, account, pc, control, cursor, source, batcher, batch, keyed>>,
           backend' = backend, ledger' \in LedgerType, SameLines(ledger', ledger),
           ledger'.again = ledger.again, ledger'.journal = ledger.journal
    PROVE  StreamInv'
<1>. USE DEF account, control, source, batcher, push
<1>1. ControlType /\ Shape
  BY TypeParts DEF StreamInv
<1>2. attempt + 1 \in 0 .. Retries - 1
  BY <1>1, Numbers DEF ControlType
<1>3. ControlType'
  BY <1>1, <1>2 DEF ControlType
<1>4. UNCHANGED Still /\ events = <<>>
  BY <1>1 DEF Still, Shape, Pushing
<1>. QED BY <1>3, <1>4, QuietStep

\* A retry, and the last one, keep the invariant, whether the lines arrived or not.
LEMMA RetrySteps ==
    ASSUME StreamInv, \E lost \in BOOLEAN : PushRetries(lost)
    PROVE  StreamInv'
<1>. USE DEF account, control, source, batcher, push
<1>1. PICK lost \in BOOLEAN : PushRetries(lost)
  OBVIOUS
<1>2. /\ ControlType /\ LinesType /\ Shape /\ backend \in Seq(Lines)
      /\ batch.lines \in Seq(Lines) /\ ledger \in LedgerType
  BY TypeParts, MemoryTypes DEF StreamInv
<1>3. Pushing /\ (lost => ledger.faults < MaxFaults)
  BY <1>1 DEF PushRetries, Asks
<1>4. CASE ~lost
  <2>1. backend' = backend
    BY <1>1, <1>4 DEF PushRetries
  <2>2. CASE attempt + 1 >= Retries
    <3>1. PutBack(FALSE, ledger)
      BY <1>1, <1>4, <2>2 DEF PushRetries
    <3>2. Unanswered(ledger)
      BY <1>2, <1>3, <2>1 DEF Unanswered, SameLines
    <3>. QED BY <3>1, <3>2, PutBackStep
  <2>3. CASE ~(attempt + 1 >= Retries)
    <3>1. /\ attempt' = attempt + 1 /\ keyed' = (keyed \/ lost) /\ ledger' = ledger
          /\ UNCHANGED <<file, saved, account, pc, control, cursor, source, batcher, batch>>
      BY <1>1, <1>4, <2>3 DEF PushRetries
    <3>2. keyed' = keyed
      BY <1>2, <1>4, <3>1 DEF ControlType
    <3>. QED BY <1>2, <1>3, <2>1, <2>3, <3>1, <3>2, AgainStep DEF SameLines
  <2>. QED BY <2>2, <2>3
<1>5. CASE lost
  <2>1. PICK g : g = Faulted(ledger)
    OBVIOUS
  <2>2. PICK a \in BOOLEAN : a = (g.again \/ attempt + 1 >= Retries)
    OBVIOUS
  <2>3. PICK h : h = [g EXCEPT !.again = a]
    OBVIOUS
  <2>4. /\ g \in LedgerType /\ SameLines(g, ledger) /\ g.again = ledger.again
        /\ g.journal = ledger.journal
    BY <1>2, <1>3, <1>5, <2>1, LedgerFault
  <2>5. /\ h \in LedgerType /\ SameLines(h, ledger) /\ h.again = a
        /\ h.journal = ledger.journal
    <3>1. /\ h \in LedgerType /\ SameLines(h, g) /\ h.again = a /\ h.journal = g.journal
      BY <2>3, <2>4, LedgerAgain
    <3>. QED BY <2>4, <3>1 DEF SameLines
  <2>6. h = [Faulted(ledger) EXCEPT !.again = @ \/ attempt + 1 >= Retries]
    BY <2>1, <2>2, <2>3
  <2>7. backend' = Taken(batch.lines)
    BY <1>1, <1>5 DEF PushRetries
  <2>8. /\ backend' \in Seq(Lines) /\ Range(batch.lines) \subseteq Range(backend')
        /\ \/ backend' = backend
           \/ /\ ~keyed
              /\ \E t \in Seq(Lines) :
                    /\ backend' = backend \o t /\ Ascending(t)
                    /\ Range(t) \subseteq Range(batch.lines)
                    /\ Range(batch.lines) \subseteq Range(t)
    BY <1>3, <2>7, TakenAll
  <2>9. CASE attempt + 1 >= Retries
    <3>1. PutBack(FALSE, h)
      BY <1>1, <1>5, <2>6, <2>9 DEF PushRetries
    <3>2. h.again = TRUE
      BY <2>2, <2>5, <2>9
    <3>3. Unanswered(h)
      BY <1>3, <2>5, <2>8, <3>2 DEF Unanswered
    <3>. QED BY <3>1, <3>3, PutBackStep
  <2>10. CASE ~(attempt + 1 >= Retries)
    <3>1. /\ attempt' = attempt + 1 /\ keyed' = (keyed \/ lost) /\ ledger' = h
          /\ UNCHANGED <<file, saved, account, pc, control, cursor, source, batcher, batch>>
      BY <1>1, <1>5, <2>6, <2>10 DEF PushRetries
    <3>2. keyed' = TRUE
      BY <1>5, <3>1
    <3>3. ledger'.again = ledger.again
      BY <2>2, <2>4, <2>5, <2>10, <3>1 DEF LedgerType
    <3>4. attempt + 1 \in 0 .. Retries - 1
      BY <1>2, <2>10, Numbers DEF ControlType
    <3>5. ControlType'
      BY <1>2, <3>1, <3>2, <3>4 DEF ControlType
    <3>6. LinesType'
      BY <1>2, <2>5, <2>8, <3>1 DEF LinesType, IsBatch
    <3>7. StreamTypeOK'
      BY <3>5, <3>6, TypePartsNext
    <3>8. /\ ledger'.withheld = ledger.withheld /\ ledger'.unnamed = ledger.unnamed
          /\ ledger'.refused = ledger.refused /\ ledger'.journal = ledger.journal
      BY <2>5, <3>1 DEF SameLines
    <3>9. Arrives
      BY <1>3, <2>8, <3>1, <3>8 DEF Arrives, Pushing
    <3>. QED BY <2>8, <3>1, <3>2, <3>3, <3>7, <3>8, <3>9, KeyedStep DEF SameLines
  <2>. QED BY <2>9, <2>10
<1>. QED BY <1>4, <1>5

\* A refused bearer, and none, keep the invariant.
LEMMA UnauthorisedSteps ==
    ASSUME StreamInv, PushUnauthorised \/ PushLoggedOut
    PROVE  StreamInv'
<1>. USE DEF account, control, source, batcher, push
<1>1. backend \in Seq(Lines) /\ ledger \in LedgerType
  BY MemoryTypes DEF StreamInv
<1>2. Pushing /\ backend' = backend
  BY DEF PushUnauthorised, PushLoggedOut, Asks
<1>3. Unanswered(ledger)
  BY <1>1, <1>2 DEF Unanswered, SameLines
<1>4. CASE PutBack(TRUE, ledger)
  BY <1>3, <1>4, PutBackStep
<1>5. CASE PushUnauthorised /\ ~(attempt + 1 >= Retries)
  <2>1. /\ attempt' = attempt + 1 /\ keyed' = keyed /\ ledger' = ledger
        /\ UNCHANGED <<file, saved, account, pc, control, cursor, source, batcher, batch>>
    BY <1>5 DEF PushUnauthorised
  <2>. QED BY <1>1, <1>2, <1>5, <2>1, AgainStep DEF SameLines
<1>. QED BY <1>4, <1>5 DEF PushUnauthorised, PushLoggedOut

-----------------------------------------------------------------------------
(* The invariant, and what it says *)

\* The invariant holds at first.
LEMMA StreamInitInv == StreamInit => StreamInv
<1>. SUFFICES ASSUME StreamInit PROVE StreamInv
  OBVIOUS
<1>1. /\ file = [c \in Chains |-> <<>>] /\ saved = Zero /\ offset = Zero /\ cursor = Zero
      /\ events = <<>> /\ queue = <<>> /\ pending = Empty /\ held = <<>> /\ batch = Empty
      /\ backend = <<>> /\ pc = "off" /\ keyed = FALSE
      /\ ledger.withheld = {} /\ ledger.unnamed = {} /\ ledger.refused = {}
      /\ ledger.journal = 0 /\ ledger.again = FALSE
  BY DEF StreamInit
<1>2. Old = Empty
  BY <1>1 DEF Old
<1>3. /\ Range(Old.lines) = {} /\ Range(pending.lines) = {} /\ Range(events) = {}
      /\ Range(queue) = {} /\ Range(backend) = {}
      /\ Ascending(Old.lines) /\ Ascending(pending.lines)
      /\ Ascending(events) /\ Ascending(queue) /\ Ascending(backend)
  BY <1>1, <1>2, EmptyBatch, RangeEmpty, AscendingEmpty
<1>4. \A c \in Chains : /\ Old.adv[c] = 0 /\ pending.adv[c] = 0 /\ Len(file[c]) = 0
                        /\ saved[c] = 0 /\ offset[c] = 0 /\ cursor[c] = 0
  BY <1>1, <1>2, EmptyBatch
<1>5. StreamTypeOK
  <2>1. ControlType
    BY FirstAttempt DEF StreamInit, ControlType
  <2>2. ledger \in LedgerType
    BY Numbers DEF StreamInit, LedgerType
  <2>3. Len(queue) <= QueueCap /\ Len(held) <= 1 /\ Range(held) = {}
    BY <1>1, Numbers, RangeEmpty
  <2>4. file \in [Chains -> Seq(Classes)]
    BY <1>1
  <2>5. LinesType
    BY <1>1, <2>2, <2>3, <2>4, EmptyBatch DEF LinesType
  <2>. QED BY <2>1, <2>5, TypeParts
<1>6. Shape /\ KeyKnown
  BY <1>1 DEF Shape, KeyKnown
<1>7. Origins /\ Gated /\ Queued
  BY <1>1, <1>3 DEF Origins, Gated, Queued, Below
<1>8. Standing
  BY <1>3, <1>4, Numbers DEF Standing
<1>9. Passed /\ Remembered
  BY <1>4 DEF Passed, Remembered
<1>10. Preceded
  BY <1>1 DEF Preceded
<1>11. Fresh
  BY <1>1, <1>3 DEF Fresh, Below
<1>. QED BY <1>5, <1>6, <1>7, <1>8, <1>9, <1>10, <1>11 DEF StreamInv

\* Every step of the publisher and of its surroundings keeps the invariant.
LEMMA StreamNextInv == StreamInv /\ [StreamNext]_stream_vars => StreamInv'
<1>. SUFFICES ASSUME StreamInv, [StreamNext]_stream_vars PROVE StreamInv'
  OBVIOUS
<1>1. CASE \E c \in Chains, s \in Classes : AppendRecord(c, s)
  BY <1>1, AppendStep
<1>2. CASE \/ \E a \in {"none", "bearer", "session"}, t \in BOOLEAN : Relogin(a, t)
           \/ Pause \/ Resume \/ Shutdown
  BY <1>2, OutsideSteps
<1>3. CASE Start
  BY <1>3, StartStep
<1>4. CASE ShutdownTimesOut \/ Crash \/ TaskEnds
  BY <1>4, EndSteps
<1>5. CASE \E s \in {"public", "private"} : PumpJournal(s)
  BY <1>5, PumpStep
<1>6. CASE Poll \/ NoFlush
  <2>1. CASE Poll /\ ~paused
    BY <2>1, PollStep
  <2>2. CASE NoFlush \/ (Poll /\ paused)
    BY <2>2, LoopSteps
  <2>. QED BY <1>6, <2>1, <2>2
<1>7. CASE ProcessSeal
  BY <1>7, ProcessStep
<1>8. CASE DrainJournal
  BY <1>8, DrainStep
<1>9. CASE Flush
  BY <1>9, FlushStep
<1>10. CASE LastFlush
  BY <1>10, LastFlushStep
<1>11. CASE \/ PushNothing \/ PushAccepted
            \/ \E bad \in SUBSET Range(batch.lines) \ {{}} : PushRefused(bad)
  BY <1>11, AnswerSteps
<1>12. CASE \E lost \in BOOLEAN : PushRetries(lost)
  BY <1>12, RetrySteps
<1>13. CASE PushUnauthorised \/ PushLoggedOut
  BY <1>13, UnauthorisedSteps
<1>14. CASE UNCHANGED stream_vars
  <2>. USE DEF account, control, source, batcher, push
  <2>1. ControlType /\ ledger \in LedgerType /\ Shape
    BY TypeParts DEF StreamInv, LinesType
  <2>2. UNCHANGED Still /\ UNCHANGED pc /\ ledger' = ledger
    BY <1>14 DEF stream_vars, Still
  <2>3. ControlType'
    BY <1>14, <2>1 DEF stream_vars, ControlType
  <2>4. events = <<>> \/ pc' = "seal"
    BY <2>1, <2>2 DEF Shape
  <2>. QED BY <2>1, <2>2, <2>3, <2>4, QuietStep DEF SameLines
<1>. QED
  BY <1>1, <1>2, <1>3, <1>4, <1>5, <1>6, <1>7, <1>8, <1>9, <1>10, <1>11, <1>12, <1>13, <1>14
  DEF StreamNext

\* The invariant always holds.
LEMMA StreamInvAlways == StreamSpec => []StreamInv
  BY StreamInitInv, StreamNextInv, PTL DEF StreamSpec

\* What the invariant says of the saved cursor.
LEMMA CursorSoundHolds == StreamInv => CursorSound
<1>. SUFFICES ASSUME StreamInv PROVE CursorSound
  OBVIOUS
<1>1. StreamTypeOK /\ Shape /\ Standing
  BY DEF StreamInv
<1>2. NothingSkipped
  BY DEF StreamInv, Passed, Done, NothingSkipped
<1>3. MemoryIsSpare
  <2>. SUFFICES ASSUME NEW b \in Range(held) \union {pending, batch}, NEW l \in Range(b.lines),
                       l.src \in Chains
                PROVE  l.n > saved[l.src]
    BY DEF MemoryIsSpare
  <2>1. l \in Range(pending.lines) \/ l \in Range(Old.lines)
    <3>1. CASE b = pending
      BY <3>1
    <3>2. CASE held = <<>>
      <4>1. Range(held) = {} /\ Old = batch
        BY <3>2, RangeEmpty DEF Old
      <4>. QED BY <4>1
    <3>3. CASE held # <<>> /\ b # pending
      <4>1. PICK d : held = <<d>>
        BY <1>1, <3>3 DEF Shape
      <4>2. Range(held) = {Old}
        BY <3>3, <4>1, OnlyBatch DEF Old
      <4>3. batch = Empty
        BY <1>1, <3>3 DEF Shape
      <4>4. b # batch
        BY <4>3, EmptyBatch
      <4>. QED BY <3>3, <4>2, <4>4
    <3>. QED BY <3>1, <3>2, <3>3
  <2>2. saved[l.src] < l.n
    BY <1>1, <2>1 DEF Standing
  <2>3. saved[l.src] \in Nat /\ l.n \in Nat
    BY <1>1, <2>1, ChainTypes, MemoryTypes, LineType
  <2>. QED BY <2>2, <2>3
<1>. QED BY <1>1, <1>2, <1>3 DEF CursorSound

\* What the invariant says of the order in which the backend gets the lines.
LEMMA DeliveredInOrderHolds == StreamInv => DeliveredInOrder
<1>. SUFFICES ASSUME StreamInv PROVE DeliveredInOrder
  OBVIOUS
<1>1. /\ backend \in Seq(Lines) /\ \A i \in DOMAIN backend : backend[i] \in Range(backend)
      /\ Range(backend) \subseteq Lines
  BY MemoryTypes, RangeElement DEF StreamInv
<1>2. InOrder
  <2>. SUFFICES ASSUME NEW i \in DOMAIN backend, NEW j \in DOMAIN backend,
                       backend[i].src \in Chains, backend[i].src = backend[j].src,
                       backend[j].n < backend[i].n
                PROVE  \/ \E k \in 1 .. i : backend[k] = backend[j]
                       \/ backend[j] \in TurnedAway
    BY DEF InOrder, TurnedAway
  <2>1. FromChain(backend[j])
    <3>1. backend[j].src # Bus
      BY StreamConstants
    <3>. QED BY <1>1, <3>1 DEF StreamInv, Origins, FromBus
  <2>2. /\ backend[j] = Rec(backend[i].src, backend[j].n)
        /\ file[backend[i].src][backend[j].n] # "bad"
    BY <2>1 DEF FromChain, Rec, Line
  <2>3. backend[j].n \in 1 .. backend[i].n - 1
    BY <1>1, LineType
  <2>. QED BY <2>2, <2>3 DEF StreamInv, Preceded
<1>3. SentOnce
  <2>. SUFFICES ASSUME ~ledger.again, NEW i \in DOMAIN backend, NEW j \in DOMAIN backend,
                       backend[i] = backend[j], i # j
                PROVE  FALSE
    BY DEF SentOnce
  <2>1. Ascending(backend)
    BY DEF StreamInv, Fresh
  <2>2. backend[i].n \in Nat /\ i \in Nat /\ j \in Nat
    BY <1>1, LineType
  <2>3. i < j \/ j < i
    BY <2>2
  <2>4. backend[i].n < backend[i].n
    BY <2>1, <2>3 DEF Ascending
  <2>. QED BY <2>2, <2>4
<1>. QED BY <1>2, <1>3 DEF DeliveredInOrder

\* What the invariant says of the scopes of what was sent.
LEMMA FailClosedHolds == StreamInv => FailClosed
<1>. SUFFICES ASSUME StreamInv PROVE FailClosed
  OBVIOUS
<1>1. \A l \in Range(backend) : l.scope \in {"public", "team"}
  BY DEF StreamInv, Gated, Published
<1>2. ~ledger.again => ledger.withheld \intersect Range(backend) = {}
  BY DEF StreamInv, Fresh
<1>. QED BY <1>1, <1>2 DEF FailClosed

\* CursorSound always holds: the cursor that a push saves passes only over records that the
\* backend answered for or the gate turned away, and over nothing that is still batched, put
\* back or being pushed, through retries, failed saves, restarts and crashes.
THEOREM CursorAlwaysSound == StreamSpec => []CursorSound
  BY StreamInvAlways, CursorSoundHolds, PTL

\* DeliveredInOrder always holds: with answers lost, batches put back and chains read again
\* after a crash, the backend first sees the records of a chain in their order, and none
\* twice while the process that read them lives and gave no push up.
THEOREM AlwaysDeliveredInOrder == StreamSpec => []DeliveredInOrder
  BY StreamInvAlways, DeliveredInOrderHolds, PTL

\* FailClosed always holds: only lines declared public or team reach the backend, and what
\* the gate turned away does not in the same process, whatever is retried or requeued.
THEOREM AlwaysFailClosed == StreamSpec => []FailClosed
  BY StreamInvAlways, FailClosedHolds, PTL

-----------------------------------------------------------------------------
(* The journal stream: the inductive invariant *)

\* Every envelope of S is numbered before every one of T.
Before(S, T) == \A e \in S, f \in T : e.seq < f.seq

\* The envelopes the daemon has.
Stored == Range(disk) \union Range(lines) \union Range(bus) \union Range(drain) \union Range(hand)

\* They carry numbers and identities that were handed out; the file, the writer's channel
\* and the bus follow one another, and so do the forwarder's envelope and the drain.
Numbered ==
    /\ \A e \in Stored : e.seq < next_seq /\ e.id <= ids
    /\ Increasing(disk) /\ Increasing(lines) /\ Increasing(bus) /\ Increasing(drain)
    /\ Before(Range(disk), Range(lines)) /\ Before(Range(disk), Range(bus))
    /\ Before(Range(lines), Range(bus))
    /\ Before(Range(hand), Range(drain))

\* The cursors are behind the counter, and so is what an attach has of them.
Cursors ==
    /\ streamed_through < next_seq /\ replay_high < next_seq
    /\ \A s \in Sessions : session[s].phase = "loaded" => session[s].since < next_seq
    /\ \A s \in Sessions : session[s].phase = "read" => session[s].high < next_seq

\* All that subscriber s was given, as a set.
Given(s) == Range(session[s].got) \union Range(session[s].chan)

\* Frame g may come after frame f: the backlog first, and either part in order.
Follows(f, g) ==
    /\ f.from = "live" => g.from = "live"
    /\ f.from = g.from => f.seq < g.seq

InTurn(frames) == \A i, j \in DOMAIN frames : i < j => Follows(frames[i], frames[j])

Precede(S, T) == \A f \in S, g \in T : Follows(f, g)

\* What was written to the socket and what is queued form one stream.
Parts(g, c) == InTurn(g) /\ InTurn(c) /\ Precede(Range(g), Range(c))

\* Only the first live frame can repeat one of the backlog.
OneRepeat(S) ==
    \A f, g, h \in S :
        f.from = "backlog" /\ g.from = "live" /\ h.from = "live" /\ g.seq < h.seq
            => f.seq < h.seq

\* The phases in which a session may hold frames, and those before it has a sink.
OpenPhases  == {"read", "armed", "bumped", "on"}
EarlyPhases == {"none", "loaded", "read", "armed", "bumped"}
Open(s) == session[s].phase \in OpenPhases

\* Session s armed replay_high, and no attach had read the journal and was yet to arm.
Clean(s) == session[s].phase \in {"armed", "bumped", "on"} /\ ~session[s].lapped

\* What is yet to be forwarded is new to an open session of this daemon; to a clean one,
\* but for the envelope in the forwarder's hand when no live frame was sent.
Ahead(s) ==
    /\ \A f \in Given(s) : f.seq < next_seq
    /\ \A f \in Given(s) : f.from = "live" =>
          \A e \in Range(hand) \union Range(drain) : f.seq < e.seq
    /\ Clean(s) => \A f, g \in Given(s), e \in Range(hand) :
          f.from = "live" /\ g.from = "backlog" => g.seq < e.seq

Subscriber(s) ==
    /\ Parts(session[s].got, session[s].chan)
    /\ session[s].lapped \/ OneRepeat(Given(s))
    /\ \A f \in Given(s) : f.id <= ids
    /\ \A f \in Given(s) : f.from = "backlog" => \E e \in Range(disk) : e.seq = f.seq
    /\ session[s].phase \in {"none", "loaded"} => session[s].got = <<>>
    /\ session[s].phase \in EarlyPhases => \A f \in Given(s) : f.from = "backlog"
    /\ ~Open(s) => session[s].chan = <<>>
    /\ Open(s) => Ahead(s)

Subscribers == \A s \in Sessions : Subscriber(s)

\* the backlog of s ends at n
Held(s, n) == \A f \in Given(s) : f.from = "backlog" => f.seq <= n

\* replay_high covers what an attach has read from the journal, the armed and clean ones
\* at once, and every attach that is yet to arm is as high.
Covers ==
    /\ \A s \in Sessions : session[s].phase = "read" => Held(s, session[s].high)
    /\ \A s \in Sessions : Clean(s) =>
          /\ Held(s, replay_high)
          /\ \A r \in Sessions : session[r].phase = "read" => Held(s, session[r].high)

\* An identity has one number, wherever the envelope is.
Everywhere == Stored \union UNION {Given(s) : s \in Sessions}

OneNumber == \A e, f \in Everywhere : e.id = f.id => e.seq = f.seq

ReplayInv == TypeOK /\ Numbered /\ Cursors /\ Subscribers /\ Covers /\ OneNumber

-----------------------------------------------------------------------------
(* Sequences of envelopes and of frames *)

\* The empty sequence is in order.
LEMMA IncreasingEmpty == Increasing(<<>>)
  BY DEF Increasing

\* An envelope numbered after all others goes to the end.
LEMMA IncreasingAppend ==
    ASSUME NEW S, NEW s \in Seq(S), NEW x \in S, Increasing(s), Before(Range(s), {x})
    PROVE  Increasing(Append(s, x))
<1>. DEFINE t == Append(s, x)
<1>1. /\ Len(s) \in Nat /\ DOMAIN s = 1 .. Len(s) /\ DOMAIN t = 1 .. Len(s) + 1
      /\ t[Len(s) + 1] = x /\ \A i \in 1 .. Len(s) : t[i] = s[i]
  OBVIOUS
<1>2. \A i \in 1 .. Len(s) : s[i].seq < x.seq
  BY <1>1, RangeElement DEF Before
<1>. HIDE DEF t
<1>3. SUFFICES ASSUME NEW i \in 1 .. Len(s) + 1, NEW j \in 1 .. Len(s) + 1, i < j
               PROVE  t[i].seq < t[j].seq
  BY <1>1 DEF Increasing, t
<1>4. i \in 1 .. Len(s) /\ (j \in 1 .. Len(s) \/ j = Len(s) + 1)
  BY <1>1, <1>3
<1>. QED BY <1>1, <1>2, <1>3, <1>4 DEF Increasing

\* Without its head the sequence is in order, and numbered after the head.
LEMMA IncreasingTail ==
    ASSUME NEW S, NEW s \in Seq(S), s # <<>>, Increasing(s)
    PROVE  Increasing(Tail(s)) /\ Before({Head(s)}, Range(Tail(s)))
<1>. DEFINE t == Tail(s)
<1>1. /\ Len(s) \in Nat /\ Len(s) # 0 /\ DOMAIN s = 1 .. Len(s) /\ DOMAIN t = 1 .. Len(s) - 1
      /\ \A i \in 1 .. Len(s) - 1 : t[i] = s[i + 1]
      /\ Head(s) = s[1]
  OBVIOUS
<1>. HIDE DEF t
<1>2. \A i \in 1 .. Len(s) - 1 : i + 1 \in 1 .. Len(s) /\ 1 < i + 1
  BY <1>1
<1>3. \A i, j \in 1 .. Len(s) - 1 : i < j => i + 1 < j + 1
  BY <1>1
<1>4. 1 \in 1 .. Len(s)
  BY <1>1
<1>5. Increasing(t)
  BY <1>1, <1>2, <1>3 DEF Increasing
<1>6. Before({s[1]}, Range(t))
  BY <1>1, <1>2, <1>4 DEF Increasing, Before, Range
<1>. QED BY <1>1, <1>5, <1>6 DEF t

\* an index of a concatenation lies in one of its two parts
LEMMA ConcatParts ==
    ASSUME NEW S, NEW s \in Seq(S), NEW t \in Seq(S)
    PROVE  /\ s \o t \in Seq(S)
           /\ Len(s) \in Nat /\ DOMAIN s = 1 .. Len(s) /\ DOMAIN t = 1 .. Len(t)
           /\ \A i \in DOMAIN (s \o t) :
                 \/ i \in DOMAIN s /\ (s \o t)[i] = s[i]
                 \/ i \notin DOMAIN s /\ i > Len(s) /\ i - Len(s) \in DOMAIN t
                    /\ (s \o t)[i] = t[i - Len(s)]
<1>. DEFINE u == s \o t
<1>1. /\ Len(s) \in Nat /\ Len(t) \in Nat /\ DOMAIN s = 1 .. Len(s) /\ DOMAIN t = 1 .. Len(t)
      /\ DOMAIN u = 1 .. Len(s) + Len(t) /\ u \in Seq(S)
      /\ \A i \in 1 .. Len(s) : u[i] = s[i]
      /\ \A i \in 1 .. Len(s) + Len(t) : i > Len(s) =>
            i - Len(s) \in 1 .. Len(t) /\ u[i] = t[i - Len(s)]
  OBVIOUS
<1>. HIDE DEF u
<1>2. \A i \in 1 .. Len(s) + Len(t) : i \in 1 .. Len(s) \/ (i \notin 1 .. Len(s) /\ i > Len(s))
  BY <1>1
<1>3. \A i \in DOMAIN u :
          \/ i \in DOMAIN s /\ u[i] = s[i]
          \/ i \notin DOMAIN s /\ i > Len(s) /\ i - Len(s) \in DOMAIN t /\ u[i] = t[i - Len(s)]
  BY <1>1, <1>2
<1>. QED BY <1>1, <1>3 DEF u

\* Envelopes in order, followed by later ones in order.
LEMMA IncreasingConcat ==
    ASSUME NEW S, NEW s \in Seq(S), NEW t \in Seq(S), Increasing(s), Increasing(t),
           Before(Range(s), Range(t))
    PROVE  Increasing(s \o t)
<1>1. PICK u : u = s \o t
  OBVIOUS
<1>2. /\ Len(s) \in Nat /\ DOMAIN s = 1 .. Len(s) /\ DOMAIN t = 1 .. Len(t) /\ Len(t) \in Nat
      /\ u \in Seq(S) /\ Len(u) \in Nat /\ DOMAIN u = 1 .. Len(u)
      /\ \A i \in DOMAIN u :
            \/ i \in DOMAIN s /\ u[i] = s[i]
            \/ i \notin DOMAIN s /\ i > Len(s) /\ i - Len(s) \in DOMAIN t
               /\ u[i] = t[i - Len(s)]
  BY <1>1, ConcatParts
<1>3. \A i \in DOMAIN s, j \in DOMAIN t : s[i].seq < t[j].seq
  BY RangeElement DEF Before
<1>4. SUFFICES ASSUME NEW i \in DOMAIN u, NEW j \in DOMAIN u, i < j PROVE u[i].seq < u[j].seq
  BY <1>1 DEF Increasing
<1>5. CASE j \in DOMAIN s
  <2>1. i \in DOMAIN s
    BY <1>2, <1>4, <1>5
  <2>. QED BY <1>2, <1>4, <1>5, <2>1 DEF Increasing
<1>6. CASE i \in DOMAIN s /\ j \notin DOMAIN s
  BY <1>2, <1>3, <1>6
<1>7. CASE i \notin DOMAIN s /\ j \notin DOMAIN s
  <2>1. i - Len(s) < j - Len(s)
    BY <1>2, <1>4
  <2>. QED BY <1>2, <1>7, <2>1 DEF Increasing
<1>. QED BY <1>5, <1>6, <1>7

\* The empty stream is in turn.
LEMMA InTurnEmpty == InTurn(<<>>)
  BY DEF InTurn

\* A frame that may follow all others goes to the end.
LEMMA InTurnAppend ==
    ASSUME NEW S, NEW s \in Seq(S), NEW x \in S, InTurn(s), Precede(Range(s), {x})
    PROVE  InTurn(Append(s, x))
<1>. DEFINE t == Append(s, x)
<1>1. /\ Len(s) \in Nat /\ DOMAIN s = 1 .. Len(s) /\ DOMAIN t = 1 .. Len(s) + 1
      /\ t[Len(s) + 1] = x /\ \A i \in 1 .. Len(s) : t[i] = s[i]
  OBVIOUS
<1>2. \A i \in 1 .. Len(s) : Follows(s[i], x)
  BY <1>1, RangeElement DEF Precede
<1>. HIDE DEF t
<1>3. SUFFICES ASSUME NEW i \in 1 .. Len(s) + 1, NEW j \in 1 .. Len(s) + 1, i < j
               PROVE  Follows(t[i], t[j])
  BY <1>1 DEF InTurn, t
<1>4. i \in 1 .. Len(s) /\ (j \in 1 .. Len(s) \/ j = Len(s) + 1)
  BY <1>1, <1>3
<1>. QED BY <1>1, <1>2, <1>3, <1>4 DEF InTurn

\* Without its head the stream is in turn, and may follow the head.
LEMMA InTurnTail ==
    ASSUME NEW S, NEW s \in Seq(S), s # <<>>, InTurn(s)
    PROVE  InTurn(Tail(s)) /\ Precede({Head(s)}, Range(Tail(s)))
<1>. DEFINE t == Tail(s)
<1>1. /\ Len(s) \in Nat /\ Len(s) # 0 /\ DOMAIN s = 1 .. Len(s) /\ DOMAIN t = 1 .. Len(s) - 1
      /\ \A i \in 1 .. Len(s) - 1 : t[i] = s[i + 1]
      /\ Head(s) = s[1]
  OBVIOUS
<1>. HIDE DEF t
<1>2. \A i \in 1 .. Len(s) - 1 : i + 1 \in 1 .. Len(s) /\ 1 < i + 1
  BY <1>1
<1>3. \A i, j \in 1 .. Len(s) - 1 : i < j => i + 1 < j + 1
  BY <1>1
<1>4. 1 \in 1 .. Len(s)
  BY <1>1
<1>5. InTurn(t)
  BY <1>1, <1>2, <1>3 DEF InTurn
<1>6. Precede({s[1]}, Range(t))
  <2>1. \A i \in DOMAIN t : Follows(s[1], t[i])
    BY <1>1, <1>2, <1>4 DEF InTurn
  <2>. QED BY <2>1 DEF Precede, Range
<1>. QED BY <1>1, <1>5, <1>6 DEF t

\* Two streams in turn make one when the second may follow the first.
LEMMA InTurnConcat ==
    ASSUME NEW S, NEW s \in Seq(S), NEW t \in Seq(S), InTurn(s), InTurn(t),
           Precede(Range(s), Range(t))
    PROVE  InTurn(s \o t)
<1>1. PICK u : u = s \o t
  OBVIOUS
<1>2. /\ Len(s) \in Nat /\ DOMAIN s = 1 .. Len(s) /\ DOMAIN t = 1 .. Len(t) /\ Len(t) \in Nat
      /\ u \in Seq(S) /\ Len(u) \in Nat /\ DOMAIN u = 1 .. Len(u)
      /\ \A i \in DOMAIN u :
            \/ i \in DOMAIN s /\ u[i] = s[i]
            \/ i \notin DOMAIN s /\ i > Len(s) /\ i - Len(s) \in DOMAIN t
               /\ u[i] = t[i - Len(s)]
  BY <1>1, ConcatParts
<1>3. \A i \in DOMAIN s, j \in DOMAIN t : Follows(s[i], t[j])
  BY RangeElement DEF Precede
<1>4. SUFFICES ASSUME NEW i \in DOMAIN u, NEW j \in DOMAIN u, i < j PROVE Follows(u[i], u[j])
  BY <1>1 DEF InTurn
<1>5. CASE j \in DOMAIN s
  <2>1. i \in DOMAIN s
    BY <1>2, <1>4, <1>5
  <2>. QED BY <1>2, <1>4, <1>5, <2>1 DEF InTurn
<1>6. CASE i \in DOMAIN s /\ j \notin DOMAIN s
  BY <1>2, <1>3, <1>6
<1>7. CASE i \notin DOMAIN s /\ j \notin DOMAIN s
  <2>1. i - Len(s) < j - Len(s)
    BY <1>2, <1>4
  <2>. QED BY <1>2, <1>7, <2>1 DEF InTurn
<1>. QED BY <1>5, <1>6, <1>7

-----------------------------------------------------------------------------
(* The largest number on disk *)

\* The larger of two numbers.
LEMMA MaxOfTwo ==
    ASSUME NEW a \in Nat, NEW b \in Nat
    PROVE  /\ Max({a, b}) \in {a, b}
           /\ Max({a, b}) >= a /\ Max({a, b}) >= b
<1>1. \E x \in {a, b} : \A y \in {a, b} : x >= y
  OBVIOUS
<1>. QED BY <1>1 DEF Max

\* The largest number of an increasing sequence of envelopes.
LEMMA MaxOrLast ==
    ASSUME NEW t \in Seq(Envelope), Increasing(t), NEW d \in Nat
    PROVE  /\ MaxOr(SeqsOf(t), d) \in Nat
           /\ t = <<>> => MaxOr(SeqsOf(t), d) = d
           /\ t # <<>> => \E e \in Range(t) : MaxOr(SeqsOf(t), d) = e.seq
           /\ \A e \in Range(t) : e.seq <= MaxOr(SeqsOf(t), d)
<1>0. /\ Len(t) \in Nat /\ DOMAIN t = 1 .. Len(t)
      /\ \A i \in 1 .. Len(t) : t[i] \in Envelope
  OBVIOUS
<1>1. \A e \in Envelope : e.seq \in Nat
  BY DEF Envelope
<1>2. CASE t = <<>>
  <2>1. SeqsOf(t) = {} /\ Range(t) = {}
    BY <1>2, RangeEmpty DEF SeqsOf
  <2>. QED BY <1>2, <2>1 DEF MaxOr
<1>3. CASE t # <<>>
  <2>1. Len(t) \in 1 .. Len(t)
    BY <1>0, <1>3
  <2>2. \A i \in 1 .. Len(t) : t[i].seq <= t[Len(t)].seq
    <3>. SUFFICES ASSUME NEW i \in 1 .. Len(t) PROVE t[i].seq <= t[Len(t)].seq
      OBVIOUS
    <3>1. CASE i = Len(t)
      BY <1>0, <1>1, <2>1, <3>1
    <3>2. CASE i < Len(t)
      BY <1>0, <1>1, <2>1, <3>2 DEF Increasing
    <3>3. \A n \in Nat : \A k \in 1 .. n : k = n \/ k < n
      OBVIOUS
    <3>. QED BY <1>0, <3>1, <3>2, <3>3
  <2>3. /\ t[Len(t)].seq \in SeqsOf(t) /\ SeqsOf(t) # {}
        /\ \A y \in SeqsOf(t) : y \in Nat /\ t[Len(t)].seq >= y
    BY <1>0, <1>1, <2>1, <2>2 DEF SeqsOf
  <2>4. Max(SeqsOf(t)) \in SeqsOf(t) /\ \A y \in SeqsOf(t) : Max(SeqsOf(t)) >= y
    BY <2>3 DEF Max
  <2>5. MaxOr(SeqsOf(t), d) = Max(SeqsOf(t))
    BY <2>3 DEF MaxOr
  <2>6. \A y \in SeqsOf(t) : \E e \in Range(t) : y = e.seq
    BY RangeElement DEF SeqsOf
  <2>7. \A e \in Range(t) : e.seq \in SeqsOf(t)
    BY DEF SeqsOf, Range
  <2>. QED BY <1>3, <2>3, <2>4, <2>5, <2>6, <2>7
<1>. QED BY <1>2, <1>3

-----------------------------------------------------------------------------
(* Types *)

Phases == {"none", "loaded", "read", "armed", "bumped", "on", "clearing", "done", "cut"}

SessionType ==
    [phase : Phases, alive : BOOLEAN, since : Nat, high : Nat, gen : Nat, lapped : BOOLEAN,
     chan : Seq(Frames), got : Seq(Frames)]

\* The fields of an envelope.
LEMMA EnvelopeType ==
    \A e \in Envelope : e.seq \in Nat /\ e.id \in Nat /\ e.id \in 1 .. MaxEnvelopes
  BY ReplayConstants DEF Envelope

\* The fields of a frame.
LEMMA FrameType ==
    \A f \in Frames : /\ f.seq \in Nat /\ f.id \in Nat
                      /\ f.from = "backlog" \/ f.from = "live"
  BY ReplayConstants DEF Frames

\* The frame of an envelope has its identity and its number.
LEMMA FrameOf ==
    \A e \in Envelope, x \in {"backlog", "live"} :
        /\ Frame(e, x) \in Frames
        /\ Frame(e, x).id = e.id /\ Frame(e, x).seq = e.seq /\ Frame(e, x).from = x
  BY DEF Frame, Frames, Envelope

\* What the daemon stores are envelopes.
LEMMA StoredTypes ==
    ASSUME TypeOK
    PROVE  /\ Range(disk) \subseteq Envelope /\ Range(lines) \subseteq Envelope
           /\ Range(bus) \subseteq Envelope /\ Range(drain) \subseteq Envelope
           /\ Range(hand) \subseteq Envelope
  BY RangeType DEF TypeOK

\* What a session holds are frames.
LEMMA SessionTypes ==
    ASSUME TypeOK
    PROVE  \A s \in Sessions :
              /\ session[s] \in SessionType
              /\ session[s].got \in Seq(Frames)
              /\ session[s].chan \in Seq(Frames) /\ Given(s) \subseteq Frames
<1>1. session \in [Sessions -> SessionType]
  BY DEF TypeOK, SessionType, Phases
<1>. SUFFICES ASSUME NEW s \in Sessions
              PROVE  /\ session[s] \in SessionType
                     /\ session[s].got \in Seq(Frames)
                     /\ session[s].chan \in Seq(Frames) /\ Given(s) \subseteq Frames
  OBVIOUS
<1>2. session[s] \in SessionType
  BY <1>1
<1>3. session[s].got \in Seq(Frames) /\ session[s].chan \in Seq(Frames)
  BY <1>2 DEF SessionType
<1>. QED BY <1>2, <1>3, RangeType DEF Given

-----------------------------------------------------------------------------
(* What the invariant says of a stream *)

\* What was written and what is queued form one stream in turn.
LEMMA StreamInTurn ==
    ASSUME NEW g \in Seq(Frames), NEW c \in Seq(Frames), Parts(g, c)
    PROVE  /\ g \o c \in Seq(Frames) /\ InTurn(g \o c)
           /\ Range(g \o c) = Range(g) \union Range(c)
  BY InTurnConcat, RangeConcat DEF Parts

\* A stream in turn whose live frames repeat the backlog once repeats one identity.
LEMMA AtMostOneRepeat ==
    ASSUME NEW t \in Seq(Frames), InTurn(t), OneRepeat(Range(t)),
           \A e, f \in Range(t) : e.id = f.id => e.seq = f.seq
    PROVE  Len(t) <= Cardinality(IdsOf(t)) + 1
<1>. DEFINE D == 1 .. Len(t)
            I == IdsOf(t)
<1>1. /\ Len(t) \in Nat /\ DOMAIN t = D /\ \A i \in D : t[i] \in Frames /\ t[i] \in Range(t)
  BY RangeElement
<1>2. IsFiniteSet(D) /\ Cardinality(D) = Len(t)
  BY <1>1, FS_Interval
<1>3. I = {t[i].id : i \in D}
  BY <1>1 DEF IdsOf
<1>4. IsFiniteSet(I) /\ Cardinality(I) \in Nat
  <2>1. I \subseteq 1 .. MaxEnvelopes
    BY <1>1, <1>3 DEF Frames
  <2>2. IsFiniteSet(1 .. MaxEnvelopes)
    BY ReplayConstants, FS_Interval
  <2>3. IsFiniteSet(I)
    BY <2>1, <2>2, FS_Subset
  <2>. QED BY <2>3, FS_CardinalityType
<1>. HIDE DEF D, I
<1>5. ASSUME NEW i \in D, NEW j \in D, i < j, t[i].id = t[j].id
      PROVE  t[i].from = "backlog" /\ t[j].from = "live" /\ t[i].seq = t[j].seq
  <2>1. t[i].seq = t[j].seq /\ t[i].seq \in Nat
    BY <1>1, <1>5, FrameType
  <2>2. Follows(t[i], t[j])
    BY <1>1, <1>5 DEF InTurn
  <2>3. t[i].from # t[j].from
    BY <2>1, <2>2 DEF Follows
  <2>4. t[i].from = "backlog" \/ t[i].from = "live"
    BY <1>1, FrameType
  <2>5. t[j].from = "backlog" \/ t[j].from = "live"
    BY <1>1, FrameType
  <2>. QED BY <2>1, <2>2, <2>3, <2>4, <2>5 DEF Follows
<1>6. ASSUME NEW i \in D, NEW j \in D, i < j, t[i].id = t[j].id,
             NEW p \in D, NEW q \in D, p < q, t[p].id = t[q].id, q < j
      PROVE  FALSE
  <2>1. /\ t[i].from = "backlog" /\ t[j].from = "live" /\ t[i].seq = t[j].seq
        /\ t[q].from = "live"
    BY <1>5, <1>6
  <2>2. t[q].seq < t[j].seq
    BY <1>1, <1>6, <2>1 DEF InTurn, Follows
  <2>3. t[i].seq < t[j].seq
    BY <1>1, <2>1, <2>2 DEF OneRepeat
  <2>. QED BY <1>1, <2>1, <2>3, FrameType
<1>7. ASSUME NEW S \in SUBSET D, \A i, j \in S : t[i].id = t[j].id => i = j
      PROVE  Cardinality(S) <= Cardinality(I)
  <2>1. PICK m : m = [i \in S |-> t[i].id]
    OBVIOUS
  <2>2. m \in [S -> I] /\ \A i, j \in S : m[i] = m[j] => i = j
    BY <1>3, <1>7, <2>1
  <2>3. m \in Injection(S, I)
    BY <2>2 DEF Injection, IsInjective
  <2>. QED BY <1>4, <2>3, FS_Injection
<1>8. CASE \A i, j \in D : t[i].id = t[j].id => i = j
  <2>1. Cardinality(D) <= Cardinality(I)
    BY <1>7, <1>8
  <2>. QED BY <1>1, <1>2, <1>4, <2>1 DEF I
<1>9. CASE \E i, j \in D : t[i].id = t[j].id /\ i # j
  <2>1. \A i, j \in D : i \in Nat /\ (i # j => i < j \/ j < i)
    BY <1>1 DEF D
  <2>2. PICK i \in D, j \in D : i < j /\ t[i].id = t[j].id
    BY <1>9, <2>1
  <2>3. PICK S : S = D \ {j}
    OBVIOUS
  <2>4. IsFiniteSet(S) /\ Cardinality(S) = Len(t) - 1
    BY <1>2, <2>3, FS_RemoveElement
  <2>5. ASSUME NEW p \in S, NEW q \in S, t[p].id = t[q].id, p < q PROVE FALSE
    <3>1. p \in D /\ q \in D /\ q # j
      BY <2>3
    <3>2. q < j \/ j < q
      BY <2>1, <3>1
    <3>. QED BY <1>6, <2>2, <2>5, <3>1, <3>2
  <2>6. \A p, q \in S : t[p].id = t[q].id => p = q
    BY <2>1, <2>3, <2>5
  <2>7. Cardinality(S) <= Cardinality(I)
    BY <1>7, <2>3, <2>6
  <2>. QED BY <1>1, <1>4, <2>4, <2>7 DEF I
<1>. QED BY <1>8, <1>9 DEF I

\* What the invariant says of the numbers.
LEMMA NumberingSoundHolds == ReplayInv => NumberingSound
<1>. SUFFICES ASSUME ReplayInv PROVE NumberingSound
  OBVIOUS
<1>1. disk \in Seq(Envelope) /\ lines \in Seq(Envelope) /\ bus \in Seq(Envelope)
  BY DEF ReplayInv, TypeOK
<1>2. PICK u : u = disk \o lines
  OBVIOUS
<1>3. u \in Seq(Envelope) /\ Increasing(u) /\ Range(u) = Range(disk) \union Range(lines)
  BY <1>1, <1>2, IncreasingConcat, RangeConcat DEF ReplayInv, Numbered
<1>4. Before(Range(u), Range(bus)) /\ Increasing(bus)
  BY <1>3 DEF ReplayInv, Numbered, Before
<1>5. Increasing(u \o bus)
  BY <1>1, <1>3, <1>4, IncreasingConcat
<1>. QED BY <1>2, <1>5 DEF ReplayInv, Cursors, NumberingSound, JournalOrdered, CursorBehindStamp

\* What the invariant says of the backlog and the live frames.
LEMMA JoinSoundHolds == ReplayInv => JoinSound
<1>. SUFFICES ASSUME ReplayInv PROVE JoinSound
  OBVIOUS
<1>. SUFFICES ASSUME NEW s \in Sessions
              PROVE  /\ \A i, j \in DOMAIN Stream(s) : i < j =>
                           Follows(Stream(s)[i], Stream(s)[j])
                     /\ ~session[s].lapped =>
                           Len(Stream(s)) <= Cardinality(IdsOf(Stream(s))) + 1
  BY DEF JoinSound, BacklogFirst, JoinRepeatsAtMostOne, Follows
<1>1. session[s].got \in Seq(Frames) /\ session[s].chan \in Seq(Frames)
  BY SessionTypes DEF ReplayInv
<1>2. Subscriber(s)
  BY DEF ReplayInv, Subscribers
<1>3. Stream(s) \in Seq(Frames) /\ InTurn(Stream(s)) /\ Range(Stream(s)) = Given(s)
  BY <1>1, <1>2, StreamInTurn DEF Subscriber, Stream, Given
<1>4. ~session[s].lapped => OneRepeat(Range(Stream(s)))
  BY <1>2, <1>3 DEF Subscriber
<1>5. \A e, f \in Range(Stream(s)) : e.id = f.id => e.seq = f.seq
  BY <1>3 DEF ReplayInv, OneNumber, Everywhere
<1>6. ~session[s].lapped => Len(Stream(s)) <= Cardinality(IdsOf(Stream(s))) + 1
  BY <1>3, <1>4, <1>5, AtMostOneRepeat
<1>. QED BY <1>3, <1>6 DEF InTurn

-----------------------------------------------------------------------------
(* What a step does to the subscribers it does not serve *)

\* The file grows, and the forwarder gets only envelopes that are new, or that passed the
\* test of replay_high.
Onward ==
    /\ next_seq <= next_seq'
    /\ \A e \in Range(hand') \union Range(drain') :
          e \in Range(hand) \union Range(drain) \/ e.seq = next_seq
    /\ \A e \in Range(hand') : e \in Range(hand) \/ (e \in Range(drain) /\ replay_high < e.seq)

\* what is given to s shrinks or stays, and s does not become open
Narrows(s) ==
    /\ Parts(session'[s].got, session'[s].chan)
    /\ Given(s)' \subseteq Given(s)
    /\ session[s].lapped => session'[s].lapped
    /\ session'[s].phase \in {"none", "loaded"} => session'[s].got = <<>>
    /\ session'[s].phase \in EarlyPhases => session[s].phase \in EarlyPhases
    /\ ~Open(s)' => session'[s].chan = <<>>
    /\ Open(s)' => Open(s) /\ Onward
    /\ Clean(s)' => Clean(s) \/ session[s].phase = "read"

\* A session that only moves or loses frames keeps its part of the invariant.
LEMMA NarrowsStep ==
    ASSUME TypeOK, TypeOK', NEW s \in Sessions, Subscriber(s), Narrows(s), ids <= ids',
           Range(disk) \subseteq Range(disk'), Clean(s) => Held(s, replay_high)
    PROVE  Subscriber(s)'
<1>1. /\ Given(s) \subseteq Frames /\ ids \in Nat /\ ids' \in Nat
  <2>1. ids \in 0 .. MaxEnvelopes /\ ids' \in 0 .. MaxEnvelopes
    BY DEF TypeOK
  <2>. QED BY <2>1, SessionTypes, ReplayConstants
<1>2. \A f \in Given(s)' : f \in Given(s)
  BY DEF Narrows
<1>3. session'[s].lapped \/ OneRepeat(Given(s)')
  BY <1>2 DEF Subscriber, OneRepeat, Narrows
<1>4. \A f \in Given(s)' : f.id <= ids'
  BY <1>1, <1>2, FrameType DEF Subscriber
<1>5. session'[s].phase \in EarlyPhases => \A f \in Given(s)' : f.from = "backlog"
  BY <1>2 DEF Subscriber, Narrows
<1>6. \A f \in Given(s)' : f.from = "backlog" => \E e \in Range(disk') : e.seq = f.seq
  BY <1>2 DEF Subscriber
<1>7. ASSUME Open(s)' PROVE Ahead(s)'
  <2>1. Onward /\ Ahead(s)
    BY <1>7 DEF Narrows, Subscriber
  <2>2. next_seq \in Nat /\ next_seq' \in Nat /\ replay_high \in Nat
    BY DEF TypeOK
  <2>3. /\ \A f \in Given(s) : f.seq \in Nat
        /\ \A e \in Range(hand) \union Range(drain) : e.seq \in Nat
    BY <1>1, FrameType, StoredTypes, EnvelopeType
  <2>4. \A f \in Given(s)' : f.seq < next_seq'
    BY <1>2, <2>1, <2>2, <2>3 DEF Ahead, Onward
  <2>5. \A f \in Given(s)' : f.from = "live" =>
            \A e \in Range(hand') \union Range(drain') : f.seq < e.seq
    BY <1>2, <2>1 DEF Ahead, Onward
  <2>6. ASSUME Clean(s)', NEW f \in Given(s)', NEW g \in Given(s)', NEW e \in Range(hand'),
               f.from = "live", g.from = "backlog"
        PROVE  g.seq < e.seq
    <3>1. f \in Given(s) /\ g \in Given(s)
      BY <1>2
    <3>2. session[s].phase # "read"
      BY <2>6, <3>1 DEF Subscriber, EarlyPhases
    <3>3. Clean(s)
      BY <2>6, <3>2 DEF Narrows
    <3>4. CASE e \in Range(hand)
      BY <2>1, <2>6, <3>1, <3>3, <3>4 DEF Ahead
    <3>5. CASE e \in Range(drain) /\ replay_high < e.seq
      <4>1. g.seq <= replay_high
        BY <2>6, <3>1, <3>3 DEF Held
      <4>. QED BY <2>2, <2>3, <3>1, <3>5, <4>1
    <3>. QED BY <2>1, <2>6, <3>4, <3>5 DEF Onward
  <2>7. Clean(s)' => \A f, g \in Given(s)', e \in Range(hand') :
            f.from = "live" /\ g.from = "backlog" => g.seq < e.seq
    BY <2>6
  <2>. QED BY <2>4, <2>5, <2>7 DEF Ahead
<1>. QED BY <1>3, <1>4, <1>5, <1>6, <1>7 DEF Subscriber, Narrows

\* a session that stays as it is
LEMMA SameNarrows ==
    ASSUME NEW s \in Sessions, Subscriber(s), session'[s] = session[s], Onward
    PROVE  Narrows(s)
<1>1. Given(s)' = Given(s) /\ (Open(s)' <=> Open(s)) /\ (Clean(s)' <=> Clean(s))
  BY DEF Given, Open, Clean
<1>. QED BY <1>1 DEF Narrows, Subscriber

\* one session changes, the others stay
LEMMA OneSession ==
    ASSUME TypeOK, TypeOK', Subscribers, Covers, Onward, ids <= ids',
           Range(disk) \subseteq Range(disk'), NEW s \in Sessions,
           \A r \in Sessions : r # s => session'[r] = session[r], Subscriber(s)'
    PROVE  Subscribers'
<1>1. ASSUME NEW r \in Sessions, r # s PROVE Subscriber(r)'
  <2>1. Subscriber(r) /\ session'[r] = session[r] /\ (Clean(r) => Held(r, replay_high))
    BY <1>1 DEF Subscribers, Covers
  <2>. QED BY <2>1, SameNarrows, NarrowsStep
<1>2. \A r \in Sessions : Subscriber(r)'
  BY <1>1
<1>. QED BY <1>2 DEF Subscribers, Sessions

\* No session changes.
LEMMA NoSessionChanges ==
    ASSUME TypeOK, TypeOK', Subscribers, Covers, Onward, ids <= ids',
           Range(disk) \subseteq Range(disk'), session' = session, replay_high' = replay_high
    PROVE  Subscribers' /\ Covers'
<1>1. ASSUME NEW r \in Sessions PROVE Subscriber(r)'
  <2>1. Subscriber(r) /\ session'[r] = session[r] /\ (Clean(r) => Held(r, replay_high))
    BY DEF Subscribers, Covers
  <2>. QED BY <2>1, SameNarrows, NarrowsStep
<1>2. Subscribers'
  BY <1>1 DEF Subscribers, Sessions
<1>3. Covers'
  BY DEF Covers, Held, Clean, Given
<1>. QED BY <1>2, <1>3

\* A step that only moves envelopes keeps each identity's number.
LEMMA MovesKeepNumbers ==
    ASSUME OneNumber, \A e \in Everywhere' : \E f \in Everywhere : e.id = f.id /\ e.seq = f.seq
    PROVE  OneNumber'
  BY DEF OneNumber

\* What is stored or given is somewhere.
LEMMA StoredWhere ==
    Stored \subseteq Everywhere /\ \A s \in Sessions : Given(s) \subseteq Everywhere
  BY DEF Everywhere

\* The same, told apart by where the envelopes go.
LEMMA MovesKept ==
    ASSUME OneNumber,
           \A e \in Stored' : e \in Stored,
           \A s \in Sessions : \A f \in Given(s)' :
               f \in Given(s) \/ \E e \in Stored : f.id = e.id /\ f.seq = e.seq
    PROVE  OneNumber'
<1>1. ASSUME NEW e \in Everywhere' PROVE \E f \in Everywhere : e.id = f.id /\ e.seq = f.seq
  <2>1. CASE e \in Stored'
    BY <2>1, StoredWhere
  <2>2. CASE \E s \in Sessions : e \in Given(s)'
    BY <2>2, StoredWhere
  <2>. QED BY <1>1, <2>1, <2>2 DEF Everywhere, Sessions
<1>. QED BY <1>1, MovesKeepNumbers

-----------------------------------------------------------------------------
(* The hub and the forwarder *)

\* Ingest keeps the invariant: the stamp is above every number in use.
LEMMA IngestStep == ASSUME ReplayInv, Ingest PROVE ReplayInv'
<1>0. TypeOK /\ Numbered /\ Cursors /\ Subscribers /\ Covers /\ OneNumber
  BY DEF ReplayInv
<1>1. PICK env : env = [id |-> ids + 1, seq |-> next_seq]
  OBVIOUS
<1>2. /\ ids < MaxEnvelopes /\ ids' = ids + 1 /\ next_seq' = next_seq + 1
      /\ bus' = Sent(env) /\ drain' = Append(drain, env)
      /\ UNCHANGED <<lines, disk, hand, streamed_through, replay_high, generation, sink,
                     session, restarts>>
  BY <1>1 DEF Ingest
<1>3. /\ ids \in Nat /\ next_seq \in Nat /\ next_seq # 0 /\ MaxEnvelopes \in Nat
      /\ ids + 1 \in 1 .. MaxEnvelopes /\ ids + 1 \in 0 .. MaxEnvelopes
      /\ bus \in Seq(Envelope) /\ drain \in Seq(Envelope) /\ Len(bus) <= BusCap
      /\ BusCap \in Nat /\ BusCap # 0
  BY <1>0, <1>2, ReplayConstants DEF TypeOK
<1>4. env \in Envelope /\ env.seq = next_seq /\ env.id = ids + 1
  BY <1>1, <1>3 DEF Envelope
<1>5. PICK b : b = IF Len(bus) < BusCap THEN bus ELSE Tail(bus)
  OBVIOUS
<1>6. /\ b \in Seq(Envelope) /\ Len(b) < BusCap /\ Range(b) \subseteq Range(bus)
      /\ Increasing(b) /\ bus' = Append(b, env)
  <2>0. Increasing(bus)
    BY <1>0 DEF Numbered
  <2>1. CASE Len(bus) < BusCap
    BY <1>2, <1>3, <1>5, <2>0, <2>1 DEF Sent
  <2>2. CASE ~(Len(bus) < BusCap)
    <3>1. bus # <<>> /\ b = Tail(bus)
      BY <1>3, <1>5, <2>2
    <3>2. b \in Seq(Envelope) /\ Range(b) \subseteq Range(bus) /\ Increasing(b)
      BY <1>3, <2>0, <3>1, RangeTail, IncreasingTail
    <3>3. Len(b) = Len(bus) - 1
      BY <1>3, <3>1
    <3>4. Len(b) < BusCap
      BY <1>3, <3>3
    <3>. QED BY <1>2, <1>5, <3>2, <3>4 DEF Sent
  <2>. QED BY <2>1, <2>2
<1>7. /\ bus' \in Seq(Envelope) /\ Len(bus') <= BusCap
      /\ Range(bus') = Range(b) \union {env}
  BY <1>3, <1>4, <1>6, RangeAppend
<1>8. drain' \in Seq(Envelope) /\ Range(drain') = Range(drain) \union {env}
  BY <1>2, <1>3, <1>4, RangeAppend
<1>9. TypeOK'
  BY <1>0, <1>2, <1>3, <1>7, <1>8 DEF TypeOK
<1>10. \A e \in Stored : /\ e \in Envelope /\ e.seq \in Nat /\ e.id \in Nat
                        /\ e.seq < next_seq /\ e.id <= ids
  BY <1>0, StoredTypes, EnvelopeType DEF Numbered, Stored
<1>11. \A e \in Stored' : e \in Stored \/ e = env
  BY <1>2, <1>6, <1>7, <1>8 DEF Stored
<1>12. Numbered'
  <2>1. \A e \in Stored' : e.seq < next_seq' /\ e.id <= ids'
    BY <1>2, <1>3, <1>4, <1>10, <1>11
  <2>2. \A e \in Stored : e.seq < env.seq
    BY <1>4, <1>10
  <2>3. Increasing(bus')
    <3>1. Before(Range(b), {env})
      BY <1>6, <2>2 DEF Before, Stored
    <3>. QED BY <1>4, <1>6, <3>1, IncreasingAppend
  <2>4. Increasing(drain')
    <3>1. Before(Range(drain), {env}) /\ Increasing(drain)
      BY <1>0, <2>2 DEF Before, Stored, Numbered
    <3>. QED BY <1>2, <1>3, <1>4, <3>1, IncreasingAppend
  <2>5. Before(Range(disk), Range(bus')) /\ Before(Range(lines), Range(bus'))
    BY <1>0, <1>6, <1>7, <2>2 DEF Before, Stored, Numbered
  <2>6. Before(Range(hand), Range(drain'))
    BY <1>0, <1>8, <2>2 DEF Before, Stored, Numbered
  <2>. QED BY <1>0, <1>2, <2>1, <2>3, <2>4, <2>5, <2>6 DEF Numbered
<1>13. Cursors'
  <2>1. streamed_through \in Nat /\ replay_high \in Nat
    BY <1>0 DEF TypeOK
  <2>2. \A s \in Sessions : session[s].since \in Nat /\ session[s].high \in Nat
    BY <1>0, SessionTypes DEF SessionType
  <2>3. \A n \in Nat : n < next_seq => n < next_seq'
    BY <1>2, <1>3
  <2>. QED BY <1>0, <1>2, <2>1, <2>2, <2>3 DEF Cursors
<1>14. Onward /\ ids <= ids' /\ Range(disk) \subseteq Range(disk')
  BY <1>2, <1>3, <1>4, <1>8 DEF Onward
<1>15. Subscribers' /\ Covers'
  BY <1>0, <1>2, <1>9, <1>14, NoSessionChanges
<1>16. OneNumber'
  <2>1. \A e \in Everywhere' : e \in Everywhere \/ e = env
    BY <1>2, <1>11 DEF Everywhere, Given
  <2>2. \A s \in Sessions : \A f \in Given(s) : f.id \in Nat /\ f.id <= ids
    BY <1>0, SessionTypes, FrameType DEF Subscribers, Subscriber
  <2>3. \A e \in Everywhere : e.id # env.id
    BY <1>3, <1>4, <1>10, <2>2 DEF Everywhere
  <2>. QED BY <1>0, <2>1, <2>3 DEF OneNumber
<1>. QED BY <1>9, <1>12, <1>13, <1>15, <1>16 DEF ReplayInv

\* a step that leaves the forwarder and the numbers alone
LEMMA StillOnward ==
    ASSUME TypeOK, UNCHANGED <<ids, next_seq>>,
           Range(hand') \subseteq Range(hand), Range(drain') \subseteq Range(drain)
    PROVE  Onward /\ ids <= ids'
<1>1. ids \in 0 .. MaxEnvelopes /\ next_seq \in Nat
  BY DEF TypeOK
<1>2. ids <= ids' /\ next_seq <= next_seq'
  BY <1>1, ReplayConstants
<1>. QED BY <1>2 DEF Onward

\* Tee keeps the invariant.
LEMMA TeeStep == ASSUME ReplayInv, Tee PROVE ReplayInv'
<1>0. TypeOK /\ Numbered /\ Cursors /\ Subscribers /\ Covers /\ OneNumber
  BY DEF ReplayInv
<1>1. /\ bus # <<>> /\ bus' = Tail(bus) /\ lines' = Append(lines, Head(bus))
      /\ UNCHANGED <<ids, next_seq, disk, drain, hand, streamed_through, replay_high,
                     generation, sink, session, restarts>>
  BY DEF Tee
<1>2. bus \in Seq(Envelope) /\ lines \in Seq(Envelope) /\ Len(bus) <= BusCap /\ BusCap \in Nat
  BY <1>0, ReplayConstants DEF TypeOK
<1>3. /\ Head(bus) \in Envelope /\ bus' \in Seq(Envelope)
      /\ Range(bus) = {Head(bus)} \union Range(bus')
      /\ Range(lines') = Range(lines) \union {Head(bus)} /\ lines' \in Seq(Envelope)
  BY <1>1, <1>2, RangeTail, RangeAppend
<1>4. TypeOK'
  <2>1. Len(bus') = Len(bus) - 1
    BY <1>1, <1>2
  <2>2. Len(bus') <= BusCap
    BY <1>2, <2>1
  <2>. QED BY <1>0, <1>1, <1>3, <2>2 DEF TypeOK
<1>5. Stored' = Stored
  BY <1>1, <1>3 DEF Stored
<1>6. Numbered'
  <2>1. Increasing(bus') /\ Before({Head(bus)}, Range(bus'))
    BY <1>0, <1>1, <1>2, IncreasingTail DEF Numbered
  <2>2. Before(Range(lines), {Head(bus)})
    BY <1>0, <1>3 DEF Numbered, Before
  <2>3. Increasing(lines')
    BY <1>0, <1>1, <1>2, <1>3, <2>2, IncreasingAppend DEF Numbered
  <2>4. /\ Before(Range(disk), Range(lines')) /\ Before(Range(disk), Range(bus'))
        /\ Before(Range(lines'), Range(bus'))
    BY <1>0, <1>3, <2>1 DEF Numbered, Before
  <2>. QED BY <1>0, <1>1, <1>5, <2>1, <2>3, <2>4 DEF Numbered
<1>7. Cursors'
  BY <1>0, <1>1 DEF Cursors
<1>8. Subscribers' /\ Covers'
  BY <1>0, <1>1, <1>3, <1>4, StillOnward, NoSessionChanges
<1>9. OneNumber'
  BY <1>0, <1>1, <1>5 DEF OneNumber, Everywhere, Given
<1>. QED BY <1>4, <1>6, <1>7, <1>8, <1>9 DEF ReplayInv

\* Persist keeps the invariant.
LEMMA PersistStep == ASSUME ReplayInv, Persist PROVE ReplayInv'
<1>0. TypeOK /\ Numbered /\ Cursors /\ Subscribers /\ Covers /\ OneNumber
  BY DEF ReplayInv
<1>1. /\ lines # <<>> /\ lines' = Tail(lines) /\ disk' = Append(disk, Head(lines))
      /\ UNCHANGED <<ids, next_seq, bus, drain, hand, streamed_through, replay_high,
                     generation, sink, session, restarts>>
  BY DEF Persist
<1>2. lines \in Seq(Envelope) /\ disk \in Seq(Envelope)
  BY <1>0 DEF TypeOK
<1>3. /\ Head(lines) \in Envelope /\ lines' \in Seq(Envelope)
      /\ Range(lines) = {Head(lines)} \union Range(lines')
      /\ Range(disk') = Range(disk) \union {Head(lines)} /\ disk' \in Seq(Envelope)
  BY <1>1, <1>2, RangeTail, RangeAppend
<1>4. TypeOK'
  BY <1>0, <1>1, <1>3 DEF TypeOK
<1>5. Stored' = Stored
  BY <1>1, <1>3 DEF Stored
<1>6. Numbered'
  <2>1. Increasing(lines') /\ Before({Head(lines)}, Range(lines'))
    BY <1>0, <1>1, <1>2, IncreasingTail DEF Numbered
  <2>2. Before(Range(disk), {Head(lines)})
    BY <1>0, <1>3 DEF Numbered, Before
  <2>3. Increasing(disk')
    BY <1>0, <1>1, <1>2, <1>3, <2>2, IncreasingAppend DEF Numbered
  <2>4. /\ Before(Range(disk'), Range(lines')) /\ Before(Range(disk'), Range(bus))
        /\ Before(Range(lines'), Range(bus))
    BY <1>0, <1>3, <2>1 DEF Numbered, Before
  <2>. QED BY <1>0, <1>1, <1>5, <2>1, <2>3, <2>4 DEF Numbered
<1>7. Cursors'
  BY <1>0, <1>1, <1>3 DEF Cursors
<1>8. Subscribers' /\ Covers'
  BY <1>0, <1>1, <1>3, <1>4, StillOnward, NoSessionChanges
<1>9. OneNumber'
  BY <1>0, <1>1, <1>5 DEF OneNumber, Everywhere, Given
<1>. QED BY <1>4, <1>6, <1>7, <1>8, <1>9 DEF ReplayInv

\* The forwarder holds one envelope.
LEMMA OneInHand == ASSUME NEW e \in Envelope
                   PROVE  <<e>> \in Seq(Envelope) /\ Len(<<e>>) <= 1 /\ Range(<<e>>) = {e}
  BY DEF Range

\* ForwardCheck keeps the invariant: what passes is beyond every backlog of a clean session.
LEMMA ForwardCheckStep == ASSUME ReplayInv, ForwardCheck PROVE ReplayInv'
<1>0. TypeOK /\ Numbered /\ Cursors /\ Subscribers /\ Covers /\ OneNumber
  BY DEF ReplayInv
<1>1. /\ drain # <<>> /\ hand = <<>> /\ drain' = Tail(drain)
      /\ hand' = IF Covered(Head(drain)) THEN <<>> ELSE <<Head(drain)>>
      /\ UNCHANGED <<ids, next_seq, bus, lines, disk, streamed_through, replay_high,
                     generation, sink, session, restarts>>
  BY DEF ForwardCheck, hub
<1>2. drain \in Seq(Envelope) /\ next_seq \in Nat /\ replay_high \in Nat
  BY <1>0 DEF TypeOK
<1>3. /\ Head(drain) \in Envelope /\ drain' \in Seq(Envelope)
      /\ Range(drain) = {Head(drain)} \union Range(drain') /\ Head(drain).seq \in Nat
  BY <1>1, <1>2, RangeTail, EnvelopeType
<1>4. /\ hand' \in Seq(Envelope) /\ Len(hand') <= 1
      /\ \A e \in Range(hand') : e = Head(drain) /\ replay_high < e.seq
  <2>1. CASE Covered(Head(drain))
    BY <1>1, <2>1, RangeEmpty
  <2>2. CASE ~Covered(Head(drain))
    <3>1. hand' = <<Head(drain)>>
      BY <1>1, <2>2
    <3>2. replay_high < Head(drain).seq
      BY <1>2, <1>3, <2>2 DEF Covered
    <3>. QED BY <1>3, <3>1, <3>2, OneInHand
  <2>. QED BY <2>1, <2>2
<1>5. TypeOK'
  BY <1>0, <1>1, <1>3, <1>4 DEF TypeOK
<1>6. \A e \in Stored' : e \in Stored
  BY <1>1, <1>3, <1>4 DEF Stored
<1>7. Numbered'
  <2>1. Increasing(drain') /\ Before({Head(drain)}, Range(drain'))
    BY <1>0, <1>1, <1>2, IncreasingTail DEF Numbered
  <2>2. Before(Range(hand'), Range(drain'))
    BY <1>4, <2>1 DEF Before
  <2>. QED BY <1>0, <1>1, <1>6, <2>1, <2>2 DEF Numbered
<1>8. Cursors'
  BY <1>0, <1>1 DEF Cursors
<1>9. Onward /\ ids <= ids'
  <2>1. ids \in 0 .. MaxEnvelopes
    BY <1>0 DEF TypeOK
  <2>2. ids <= ids' /\ next_seq <= next_seq'
    BY <1>1, <1>2, <2>1, ReplayConstants
  <2>. QED BY <1>3, <1>4, <2>2 DEF Onward
<1>10. Subscribers' /\ Covers'
  BY <1>0, <1>1, <1>5, <1>9, NoSessionChanges
<1>11. OneNumber'
  BY <1>0, <1>1, <1>6 DEF OneNumber, Everywhere, Given
<1>. QED BY <1>5, <1>7, <1>8, <1>10, <1>11 DEF ReplayInv

-----------------------------------------------------------------------------
(* One session is served *)

\* what a session record holds, and what an attach has of the cursors
Holds(x) == Range(x.got) \union Range(x.chan)
Behind(x) == /\ x.phase = "loaded" => x.since < next_seq
             /\ x.phase = "read" => x.high < next_seq

\* What a step of one session leaves to show: its type, its order and its numbers.
LEMMA SessionStep ==
    ASSUME ReplayInv, NEW s \in Sessions, NEW new \in SessionType,
           session' = [session EXCEPT ![s] = new],
           UNCHANGED <<ids, next_seq, bus, lines, disk, drain, restarts>>,
           hand' \in {hand, <<>>}, streamed_through' \in Nat, replay_high' \in Nat,
           streamed_through' < next_seq, replay_high' < next_seq, Behind(new),
           generation' \in Nat, sink' \in 0 .. MaxSessions,
           TypeOK' => Subscriber(s)', Covers',
           \A f \in Given(s)' :
               f \in Given(s) \/ \E e \in Stored : f.id = e.id /\ f.seq = e.seq
    PROVE  ReplayInv'
<1>0. TypeOK /\ Numbered /\ Subscribers /\ Covers /\ OneNumber
  BY DEF ReplayInv
<1>1. session \in [Sessions -> SessionType]
  BY <1>0 DEF TypeOK, SessionType, Phases
<1>2. /\ session' \in [Sessions -> SessionType] /\ session'[s] = new
      /\ \A r \in Sessions : r # s => session'[r] = session[r]
  BY <1>1
<1>3. /\ hand' \in Seq(Envelope) /\ Len(hand') <= 1 /\ Range(hand') \subseteq Range(hand)
  <2>1. CASE hand' = hand
    BY <1>0, <2>1 DEF TypeOK
  <2>2. CASE hand' = <<>>
    BY <2>2, RangeEmpty
  <2>. QED BY <2>1, <2>2
<1>4. TypeOK'
  BY <1>0, <1>2, <1>3 DEF TypeOK, SessionType, Phases
<1>5. Onward /\ ids <= ids' /\ Range(disk) \subseteq Range(disk')
  BY <1>0, <1>3, StillOnward
<1>6. Stored' \subseteq Stored
  BY <1>3 DEF Stored
<1>7. Numbered'
  BY <1>0, <1>3, <1>6 DEF Numbered, Before
<1>8. Subscribers'
  BY <1>0, <1>2, <1>4, <1>5, OneSession
<1>9. OneNumber'
  <2>1. \A r \in Sessions : r # s => Given(r)' = Given(r)
    BY <1>2 DEF Given
  <2>. QED BY <1>0, <1>6, <2>1, MovesKept
<1>10. Cursors'
  <2>1. \A r \in Sessions :
            /\ session'[r].phase = "loaded" => session'[r].since < next_seq
            /\ session'[r].phase = "read" => session'[r].high < next_seq
    BY <1>2 DEF Behind, ReplayInv, Cursors
  <2>. QED BY <2>1 DEF Cursors, Sessions
<1>. QED BY <1>4, <1>7, <1>8, <1>9, <1>10 DEF ReplayInv

\* The cover is kept where nobody reads or arms.
LEMMA CoversKept ==
    ASSUME Covers, replay_high' = replay_high,
           \A r \in Sessions : /\ Given(r)' \subseteq Given(r) /\ (Clean(r)' => Clean(r))
                               /\ session'[r].phase = "read" =>
                                     session[r].phase = "read" /\ session'[r].high = session[r].high
    PROVE  Covers'
<1>1. ASSUME NEW r \in Sessions, session'[r].phase = "read" PROVE Held(r, session[r].high)'
  BY <1>1 DEF Covers, Held
<1>2. ASSUME NEW r \in Sessions, Clean(r)' PROVE Held(r, replay_high)'
  BY <1>2 DEF Covers, Held
<1>3. ASSUME NEW r \in Sessions, NEW q \in Sessions, Clean(r)', session'[q].phase = "read"
      PROVE  Held(r, session[q].high)'
  BY <1>3 DEF Covers, Held
<1>. QED BY <1>1, <1>2, <1>3 DEF Covers, Sessions

\* the session moves or loses frames
LEMMA NarrowStep ==
    ASSUME ReplayInv, NEW s \in Sessions, NEW new \in SessionType,
           session' = [session EXCEPT ![s] = new],
           UNCHANGED <<ids, next_seq, bus, lines, disk, drain, hand, replay_high, restarts>>,
           streamed_through' \in Nat, streamed_through' < next_seq, Behind(new),
           generation' \in Nat, sink' \in 0 .. MaxSessions,
           Parts(new.got, new.chan), Holds(new) \subseteq Given(s),
           new.phase \in {"none", "loaded"} => new.got = <<>>,
           new.phase \in EarlyPhases => session[s].phase \in EarlyPhases,
           new.phase \in OpenPhases => Open(s),
           new.phase \notin OpenPhases => new.chan = <<>>,
           new.phase \in {"armed", "bumped", "on"} => session[s].phase \in {"armed", "bumped", "on"},
           new.phase = "read" => session[s].phase = "read" /\ new.high = session[s].high,
           new.lapped = session[s].lapped
    PROVE  ReplayInv'
<1>0. TypeOK /\ Subscriber(s) /\ Covers /\ Cursors
  BY DEF ReplayInv, Subscribers
<1>1. session \in [Sessions -> SessionType]
  BY <1>0 DEF TypeOK, SessionType, Phases
<1>2. session'[s] = new /\ \A r \in Sessions : r # s => session'[r] = session[r]
  BY <1>1
<1>3. /\ Given(s)' \subseteq Given(s) /\ (Open(s)' <=> new.phase \in OpenPhases)
      /\ Clean(s)' => Clean(s)
  BY <1>2 DEF Given, Holds, Open, Clean
<1>4. Onward /\ ids <= ids' /\ Range(disk) \subseteq Range(disk')
  BY <1>0, StillOnward
<1>5. Narrows(s)
  BY <1>2, <1>3, <1>4 DEF Narrows
<1>6. TypeOK' => Subscriber(s)'
  BY <1>0, <1>4, <1>5, NarrowsStep DEF Covers
<1>7. replay_high' \in Nat /\ replay_high' < next_seq
  BY <1>0 DEF TypeOK, Cursors
<1>8. Covers'
  <2>1. \A r \in Sessions : r # s => Given(r)' = Given(r) /\ (Clean(r)' <=> Clean(r))
    BY <1>2 DEF Given, Clean
  <2>. QED BY <1>0, <1>2, <1>3, <2>1, CoversKept
<1>. QED BY <1>3, <1>6, <1>7, <1>8, SessionStep

\* A stream stays in turn when what is queued is lost.
LEMMA PartsNoChan ==
    ASSUME NEW g, NEW c, Parts(g, c)
    PROVE  Parts(g, <<>>)
  BY InTurnEmpty, RangeEmpty DEF Parts, Precede

\* the head of the second sequence goes to the end of the first
LEMMA PartsShift ==
    ASSUME NEW g \in Seq(Frames), NEW w \in Seq(Frames), w # <<>>, Parts(g, w)
    PROVE  /\ Append(g, Head(w)) \in Seq(Frames) /\ Tail(w) \in Seq(Frames) /\ Head(w) \in Frames
           /\ Parts(Append(g, Head(w)), Tail(w))
           /\ Range(Append(g, Head(w))) = Range(g) \union {Head(w)}
           /\ Range(w) = {Head(w)} \union Range(Tail(w))
<1>0. InTurn(g) /\ InTurn(w) /\ Precede(Range(g), Range(w))
  BY DEF Parts
<1>1. /\ Head(w) \in Frames /\ Tail(w) \in Seq(Frames)
      /\ Range(w) = {Head(w)} \union Range(Tail(w))
  BY RangeTail
<1>2. /\ Range(Append(g, Head(w))) = Range(g) \union {Head(w)}
      /\ Append(g, Head(w)) \in Seq(Frames)
  BY <1>1, RangeAppend
<1>3. InTurn(Tail(w)) /\ Precede({Head(w)}, Range(Tail(w)))
  BY <1>0, InTurnTail
<1>4. Precede(Range(g), {Head(w)})
  BY <1>0, <1>1 DEF Precede
<1>5. InTurn(Append(g, Head(w)))
  BY <1>0, <1>1, <1>4, InTurnAppend
<1>6. Precede(Range(Append(g, Head(w))), Range(Tail(w)))
  BY <1>0, <1>1, <1>2, <1>3 DEF Precede
<1>. QED BY <1>1, <1>2, <1>3, <1>5, <1>6 DEF Parts

\* What the invariant says of one session.
LEMMA SessionFacts ==
    ASSUME ReplayInv, NEW s \in Sessions
    PROVE  /\ session[s] \in SessionType /\ session \in [Sessions -> SessionType]
           /\ session[s].got \in Seq(Frames)
           /\ session[s].chan \in Seq(Frames)
           /\ Parts(session[s].got, session[s].chan)
           /\ Given(s) = Holds(session[s])
           /\ streamed_through \in Nat /\ replay_high \in Nat /\ next_seq \in Nat
           /\ streamed_through < next_seq /\ replay_high < next_seq /\ Behind(session[s])
           /\ generation \in Nat /\ sink \in 0 .. MaxSessions
           /\ s \in 0 .. MaxSessions /\ 0 \in 0 .. MaxSessions
           /\ session[s].phase \notin OpenPhases => session[s].chan = <<>>
           /\ session[s].phase \in {"none", "loaded"} => session[s].got = <<>>
<1>1. TypeOK /\ Subscriber(s) /\ Cursors
  BY DEF ReplayInv, Subscribers
<1>2. session \in [Sessions -> SessionType]
  BY <1>1 DEF TypeOK, SessionType, Phases
<1>3. s \in 0 .. MaxSessions /\ 0 \in 0 .. MaxSessions
  BY ReplayConstants DEF Sessions
<1>4. /\ streamed_through \in Nat /\ replay_high \in Nat /\ next_seq \in Nat
      /\ generation \in Nat /\ sink \in 0 .. MaxSessions
  BY <1>1 DEF TypeOK
<1>5. /\ session[s] \in SessionType
      /\ session[s].got \in Seq(Frames) /\ session[s].chan \in Seq(Frames)
  BY <1>1, SessionTypes
<1>6. /\ Parts(session[s].got, session[s].chan)
      /\ session[s].phase \notin OpenPhases => session[s].chan = <<>>
      /\ session[s].phase \in {"none", "loaded"} => session[s].got = <<>>
  BY <1>1 DEF Subscriber, Open
<1>7. streamed_through < next_seq /\ replay_high < next_seq /\ Behind(session[s])
  BY <1>1 DEF Cursors, Behind
<1>. QED BY <1>2, <1>3, <1>4, <1>5, <1>6, <1>7 DEF Given, Holds

\* AttachLoad keeps the invariant.
LEMMA AttachLoadStep ==
    ASSUME ReplayInv, NEW s \in Sessions, AttachLoad(s) PROVE ReplayInv'
<1>1. PICK new : new = [session[s] EXCEPT !.phase = "loaded", !.alive = TRUE,
                                          !.since = streamed_through]
  OBVIOUS
<1>2. /\ session[s].phase = "none" /\ session' = [session EXCEPT ![s] = new]
      /\ UNCHANGED <<ids, next_seq, bus, lines, disk, drain, hand, streamed_through,
                     replay_high, restarts, generation, sink>>
  BY <1>1 DEF AttachLoad, hub
<1>3. /\ new \in SessionType /\ new.phase = "loaded" /\ new.got = session[s].got
      /\ new.chan = session[s].chan /\ new.since = streamed_through
      /\ new.high = session[s].high /\ new.lapped = session[s].lapped
  <2>1. session[s] \in SessionType /\ streamed_through \in Nat
    BY SessionFacts
  <2>. QED BY <1>1, <2>1 DEF SessionType, Phases
<1>4. Holds(new) = Given(s) /\ Parts(new.got, new.chan) /\ new.chan = <<>> /\ new.got = <<>>
  BY <1>2, <1>3, SessionFacts DEF Holds, OpenPhases
<1>5. Behind(new)
  BY <1>3, SessionFacts DEF Behind
<1>. QED BY <1>2, <1>3, <1>4, <1>5, SessionFacts, NarrowStep DEF OpenPhases, EarlyPhases

\* AttachBump keeps the invariant.
LEMMA AttachBumpStep ==
    ASSUME ReplayInv, NEW s \in Sessions, AttachBump(s) PROVE ReplayInv'
<1>1. PICK new : new = [session[s] EXCEPT !.phase = "bumped", !.gen = generation + 1]
  OBVIOUS
<1>2. /\ session[s].phase = "armed" /\ session' = [session EXCEPT ![s] = new]
      /\ generation' = generation + 1
      /\ UNCHANGED <<ids, next_seq, bus, lines, disk, drain, hand, streamed_through,
                     replay_high, restarts, sink>>
  BY <1>1 DEF AttachBump, hub
<1>3. /\ new \in SessionType /\ new.phase = "bumped" /\ new.got = session[s].got
      /\ new.chan = session[s].chan /\ new.lapped = session[s].lapped /\ generation' \in Nat
  <2>1. session[s] \in SessionType /\ generation \in Nat
    BY SessionFacts
  <2>2. generation + 1 \in Nat
    BY <2>1
  <2>. QED BY <1>1, <1>2, <2>1, <2>2 DEF SessionType, Phases
<1>4. Holds(new) = Given(s) /\ Parts(new.got, new.chan)
  BY <1>3, SessionFacts DEF Holds
<1>5. Behind(new)
  BY <1>3 DEF Behind
<1>. QED BY <1>2, <1>3, <1>4, <1>5, SessionFacts, NarrowStep DEF OpenPhases, EarlyPhases, Open

\* AttachInstall keeps the invariant.
LEMMA AttachInstallStep ==
    ASSUME ReplayInv, NEW s \in Sessions, AttachInstall(s) PROVE ReplayInv'
<1>1. PICK new : new = [session[s] EXCEPT !.phase = "on"]
  OBVIOUS
<1>2. /\ session[s].phase = "bumped" /\ session' = [session EXCEPT ![s] = new]
      /\ sink' = s
      /\ UNCHANGED <<ids, next_seq, bus, lines, disk, drain, hand, streamed_through,
                     replay_high, restarts, generation>>
  BY <1>1 DEF AttachInstall, hub
<1>3. /\ new \in SessionType /\ new.phase = "on" /\ new.got = session[s].got
      /\ new.chan = session[s].chan /\ new.lapped = session[s].lapped
  <2>1. session[s] \in SessionType
    BY SessionFacts
  <2>. QED BY <1>1, <2>1 DEF SessionType, Phases
<1>4. Holds(new) = Given(s) /\ Parts(new.got, new.chan)
  BY <1>3, SessionFacts DEF Holds
<1>5. Behind(new)
  BY <1>3 DEF Behind
<1>. QED BY <1>2, <1>3, <1>4, <1>5, SessionFacts, NarrowStep DEF OpenPhases, EarlyPhases, Open

\* WriterWrites keeps the invariant: the cursor stays behind the counter.
LEMMA WriterWritesStep ==
    ASSUME ReplayInv, NEW s \in Sessions, WriterWrites(s) PROVE ReplayInv'
<1>0. PICK frame : frame = Head(session[s].chan)
  OBVIOUS
<1>1. PICK new : new = [session[s] EXCEPT !.chan = Tail(session[s].chan),
                                          !.got = Append(session[s].got, frame)]
  OBVIOUS
<1>2. /\ session[s].phase = "on" /\ session[s].chan # <<>>
      /\ session' = [session EXCEPT ![s] = new]
      /\ streamed_through' = Max({streamed_through, frame.seq})
      /\ UNCHANGED <<ids, next_seq, bus, lines, disk, drain, hand, generation, sink,
                     replay_high, restarts>>
  BY <1>0, <1>1 DEF WriterWrites, hub
<1>3. /\ session[s].got \in Seq(Frames) /\ session[s].chan \in Seq(Frames)
      /\ Parts(session[s].got, session[s].chan)
  BY SessionFacts
<1>4. PICK w, c : w = Append(session[s].got, frame) /\ c = Tail(session[s].chan)
  OBVIOUS
<1>5. /\ w \in Seq(Frames) /\ c \in Seq(Frames) /\ Parts(w, c) /\ frame \in Frames
      /\ Range(w) = Range(session[s].got) \union {frame}
      /\ Range(session[s].chan) = {frame} \union Range(c)
  BY <1>0, <1>2, <1>3, <1>4, PartsShift
<1>6. /\ new \in SessionType /\ new.phase = "on" /\ new.got = w /\ new.chan = c
      /\ new.lapped = session[s].lapped
  <2>1. session[s] \in SessionType
    BY SessionFacts
  <2>. QED BY <1>1, <1>2, <1>4, <1>5, <2>1 DEF SessionType
<1>7. Holds(new) = Given(s)
  BY <1>5, <1>6, SessionFacts DEF Holds
<1>8. frame.seq < next_seq /\ frame.seq \in Nat
  <2>1. Ahead(s)
    BY <1>2 DEF ReplayInv, Subscribers, Subscriber, Open, OpenPhases
  <2>2. frame \in Given(s)
    BY <1>5 DEF Given
  <2>. QED BY <1>5, <2>1, <2>2, FrameType DEF Ahead
<1>9. streamed_through' \in Nat /\ streamed_through' < next_seq
  <2>1. streamed_through \in Nat /\ streamed_through < next_seq
    BY SessionFacts
  <2>. QED BY <1>2, <1>8, <2>1, MaxOfTwo
<1>10. Behind(new)
  BY <1>6 DEF Behind
<1>. QED BY <1>2, <1>5, <1>6, <1>7, <1>9, <1>10, SessionFacts, NarrowStep
        DEF OpenPhases, EarlyPhases, Open

\* WriterExits keeps the invariant.
LEMMA WriterExitsStep ==
    ASSUME ReplayInv, NEW s \in Sessions, WriterExits(s) PROVE ReplayInv'
<1>0. PICK p \in {"clearing", "done"} :
          p = IF generation = session[s].gen THEN "clearing" ELSE "done"
  OBVIOUS
<1>1. PICK new : new = [session[s] EXCEPT !.phase = p, !.chan = <<>>]
  OBVIOUS
<1>2. /\ session' = [session EXCEPT ![s] = new]
      /\ UNCHANGED <<ids, next_seq, bus, lines, disk, drain, hand, streamed_through,
                     replay_high, restarts, generation, sink>>
  BY <1>0, <1>1 DEF WriterExits, hub
<1>3. /\ new \in SessionType /\ new.phase = p /\ new.got = session[s].got
      /\ new.chan = <<>> /\ new.lapped = session[s].lapped
  <2>1. session[s] \in SessionType
    BY SessionFacts
  <2>2. <<>> \in Seq(Frames) /\ p \in Phases
    BY <1>0 DEF Phases
  <2>. QED BY <1>1, <2>1, <2>2 DEF SessionType
<1>4. Holds(new) \subseteq Given(s) /\ Parts(new.got, new.chan)
  BY <1>3, SessionFacts, PartsNoChan, RangeEmpty DEF Holds
<1>5. Behind(new)
  BY <1>0, <1>3 DEF Behind
<1>. QED BY <1>0, <1>2, <1>3, <1>4, <1>5, SessionFacts, NarrowStep DEF OpenPhases, EarlyPhases

\* WriterClears keeps the invariant, even when it clears a newer sink.
LEMMA WriterClearsStep ==
    ASSUME ReplayInv, NEW s \in Sessions, WriterClears(s) PROVE ReplayInv'
<1>1. PICK new : new = [session[s] EXCEPT !.phase = "done"]
  OBVIOUS
<1>2. /\ session[s].phase = "clearing" /\ session' = [session EXCEPT ![s] = new] /\ sink' = 0
      /\ UNCHANGED <<ids, next_seq, bus, lines, disk, drain, hand, streamed_through,
                     replay_high, restarts, generation>>
  BY <1>1 DEF WriterClears, hub
<1>3. /\ new \in SessionType /\ new.phase = "done" /\ new.got = session[s].got
      /\ new.chan = session[s].chan /\ new.lapped = session[s].lapped
  <2>1. session[s] \in SessionType
    BY SessionFacts
  <2>. QED BY <1>1, <2>1 DEF SessionType, Phases
<1>4. Holds(new) = Given(s) /\ Parts(new.got, new.chan) /\ new.chan = <<>>
  BY <1>2, <1>3, SessionFacts DEF Holds, OpenPhases
<1>5. Behind(new)
  BY <1>3 DEF Behind
<1>. QED BY <1>2, <1>3, <1>4, <1>5, SessionFacts, NarrowStep DEF OpenPhases, EarlyPhases

\* ReplDies keeps the invariant.
LEMMA ReplDiesStep ==
    ASSUME ReplayInv, NEW s \in Sessions, ReplDies(s) PROVE ReplayInv'
<1>1. PICK new : new = [session[s] EXCEPT !.alive = FALSE]
  OBVIOUS
<1>2. /\ session[s].alive /\ session' = [session EXCEPT ![s] = new]
      /\ UNCHANGED <<ids, next_seq, bus, lines, disk, drain, hand, streamed_through,
                     replay_high, restarts, generation, sink>>
  BY <1>1 DEF ReplDies, hub
<1>3. /\ new \in SessionType /\ new.phase = session[s].phase /\ new.got = session[s].got
      /\ new.chan = session[s].chan /\ new.lapped = session[s].lapped
      /\ new.high = session[s].high /\ new.since = session[s].since
  <2>1. session[s] \in SessionType
    BY SessionFacts
  <2>. QED BY <1>1, <2>1 DEF SessionType
<1>4. Holds(new) = Given(s) /\ Parts(new.got, new.chan)
  BY <1>3, SessionFacts DEF Holds
<1>5. Behind(new)
  BY <1>3, SessionFacts DEF Behind
<1>. QED BY <1>2, <1>3, <1>4, <1>5, SessionFacts, NarrowStep DEF Open

\* The envelope in the forwarder's hand becomes a live frame of the installed sink.
LEMMA ForwardSendStep == ASSUME ReplayInv, ForwardSend PROVE ReplayInv'
<1>0. TypeOK /\ Numbered /\ Cursors /\ Subscribers /\ Covers /\ OneNumber
  BY DEF ReplayInv
<1>1. /\ hand # <<>> /\ hand' = <<>>
      /\ UNCHANGED <<ids, next_seq, bus, lines, disk, drain, streamed_through, replay_high,
                     generation, sink, restarts>>
  BY DEF ForwardSend, hub
<1>2. PICK e : e = hand[1]
  OBVIOUS
<1>3. e \in Envelope /\ e \in Range(hand) /\ e \in Stored
  <2>1. hand \in Seq(Envelope)
    BY <1>0 DEF TypeOK
  <2>2. 1 \in DOMAIN hand
    BY <1>1, <2>1
  <2>3. e \in Range(hand)
    BY <1>2, <2>2, RangeElement
  <2>. QED BY <1>0, <2>3, StoredTypes DEF Stored
<1>4. CASE sink # 0 /\ session[sink].phase = "on"
  <2>1. PICK s : s = sink
    OBVIOUS
  <2>2. s \in Sessions
    BY <1>0, <1>4, <2>1, ReplayConstants DEF TypeOK, Sessions
  <2>3. PICK f : f = Frame(e, "live")
    OBVIOUS
  <2>4. PICK c : c = Append(session[s].chan, f)
    OBVIOUS
  <2>5. PICK new : new = [session[s] EXCEPT !.chan = c]
    OBVIOUS
  <2>6. session' = [session EXCEPT ![s] = new]
    BY <1>2, <1>4, <2>1, <2>3, <2>4, <2>5 DEF ForwardSend
  <2>7. f \in Frames /\ f.id = e.id /\ f.seq = e.seq /\ f.from = "live"
    BY <1>3, <2>3, FrameOf
  <2>8. /\ session[s] \in SessionType /\ session \in [Sessions -> SessionType]
        /\ session[s].chan \in Seq(Frames) /\ session[s].phase = "on"
        /\ Parts(session[s].got, session[s].chan)
        /\ streamed_through \in Nat /\ replay_high \in Nat /\ generation \in Nat
        /\ streamed_through < next_seq /\ replay_high < next_seq /\ sink \in 0 .. MaxSessions
    BY <1>4, <2>1, <2>2, SessionFacts
  <2>9. c \in Seq(Frames) /\ Range(c) = Range(session[s].chan) \union {f}
    BY <2>4, <2>7, <2>8, RangeAppend
  <2>10. /\ new \in SessionType /\ new.phase = "on" /\ new.got = session[s].got
         /\ new.chan = c /\ new.lapped = session[s].lapped
    BY <2>5, <2>8, <2>9 DEF SessionType
  <2>11. session'[s] = new
    BY <2>2, <2>6, <2>8
  <2>12. Given(s)' = Given(s) \union {f}
    BY <2>9, <2>10, <2>11 DEF Given
  <2>13. Subscriber(s) /\ Ahead(s) /\ Given(s) \subseteq Frames
    BY <1>0, <2>2, <2>8, SessionTypes DEF Subscribers, Subscriber, Open, OpenPhases
  <2>14. \A g \in Given(s) : Follows(g, f)
    BY <1>3, <2>7, <2>13 DEF Ahead, Follows
  <2>15. Parts(new.got, new.chan)
    <3>1. Precede(Range(session[s].chan), {f})
      BY <2>14 DEF Given, Precede
    <3>2. InTurn(c)
      BY <2>4, <2>7, <2>8, <3>1, InTurnAppend DEF Parts
    <3>3. Precede(Range(session[s].got), Range(c))
      BY <2>8, <2>9, <2>14 DEF Given, Precede, Parts
    <3>. QED BY <2>8, <2>10, <3>2, <3>3 DEF Parts
  <2>16. new.lapped \/ OneRepeat(Given(s)')
    <3>. SUFFICES ASSUME ~new.lapped PROVE OneRepeat(Given(s)')
      OBVIOUS
    <3>0. Clean(s)
      BY <2>8, <2>10 DEF Clean
    <3>1. /\ \A x \in Given(s) : x.from = "live" => x.seq < f.seq
          /\ \A x, y \in Given(s) : x.from = "backlog" /\ y.from = "live" => x.seq < f.seq
      BY <1>3, <2>7, <2>13, <3>0 DEF Ahead
    <3>2. f.seq \in Nat /\ \A x \in Given(s) : x.seq \in Nat
      BY <2>7, <2>13, FrameType
    <3>3. ~(f.seq < f.seq) /\ \A x \in Given(s) : x.from = "live" => ~(f.seq < x.seq)
      BY <3>1, <3>2
    <3>4. OneRepeat(Given(s))
      BY <2>10, <2>13 DEF Subscriber
    <3>. QED BY <2>7, <2>12, <3>1, <3>3, <3>4 DEF OneRepeat
  <2>17. \A x \in Given(s)' : x.id <= ids'
    BY <1>0, <1>1, <1>3, <2>7, <2>12, <2>13 DEF Subscriber, Numbered
  <2>18. Ahead(s)'
    <3>1. Range(hand') = {}
      BY <1>1, RangeEmpty
    <3>2. f.seq < next_seq /\ \A x \in Range(drain) : f.seq < x.seq
      BY <1>0, <1>3, <2>7 DEF Numbered, Before
    <3>. QED BY <1>1, <2>7, <2>12, <2>13, <3>1, <3>2 DEF Ahead
  <2>19. Subscriber(s)'
    <3>1. \A x \in Given(s)' : x.from = "backlog" => \E y \in Range(disk') : y.seq = x.seq
      BY <1>1, <2>7, <2>12, <2>13 DEF Subscriber
    <3>. QED BY <2>10, <2>11, <2>15, <2>16, <2>17, <2>18, <3>1
             DEF Subscriber, Open, OpenPhases, EarlyPhases
  <2>20. \A x \in Given(s)' : x \in Given(s) \/ \E y \in Stored : x.id = y.id /\ x.seq = y.seq
    BY <1>3, <2>7, <2>12
  <2>21. Covers'
    <3>1. /\ \A r \in Sessions : r # s => session'[r] = session[r] /\ Given(r)' = Given(r)
          /\ \A r \in Sessions : session'[r].phase = session[r].phase /\ (Clean(r)' <=> Clean(r))
          /\ \A r \in Sessions : session'[r].phase = "read" => session'[r].high = session[r].high
      BY <2>6, <2>8, <2>10, <2>11 DEF Given, Clean
    <3>2. \A r \in Sessions, n \in Nat : Held(r, n) => Held(r, n)'
      BY <2>7, <2>12, <3>1 DEF Held
    <3>3. \A r \in Sessions : session[r].high \in Nat
      BY <1>0, SessionTypes DEF SessionType
    <3>4. replay_high' = replay_high
      BY <1>1
    <3>5. ASSUME NEW r \in Sessions, session'[r].phase = "read" PROVE Held(r, session[r].high)'
      BY <1>0, <3>1, <3>2, <3>3, <3>5 DEF Covers, Held
    <3>6. ASSUME NEW r \in Sessions, Clean(r)' PROVE Held(r, replay_high)'
      BY <1>0, <2>8, <3>1, <3>2, <3>4, <3>6 DEF Covers, Held
    <3>7. ASSUME NEW r \in Sessions, NEW q \in Sessions, Clean(r)', session'[q].phase = "read"
          PROVE  Held(r, session[q].high)'
      BY <1>0, <3>1, <3>2, <3>3, <3>7 DEF Covers, Held
    <3>. QED BY <3>5, <3>6, <3>7 DEF Covers, Sessions
  <2>22. /\ replay_high' \in Nat /\ streamed_through' \in Nat
         /\ replay_high' < next_seq /\ streamed_through' < next_seq
         /\ generation' \in Nat /\ sink' \in 0 .. MaxSessions
    BY <1>1, <2>8
  <2>23. Behind(new)
    BY <2>10 DEF Behind
  <2>. QED BY <1>1, <2>2, <2>6, <2>10, <2>19, <2>20, <2>21, <2>22, <2>23, SessionStep
<1>5. CASE ~(sink # 0 /\ session[sink].phase = "on")
  <2>1. session' = session
    BY <1>5 DEF ForwardSend
  <2>2. Range(hand') = {} /\ hand' \in Seq(Envelope) /\ Len(hand') <= 1
    BY <1>1, RangeEmpty
  <2>3. TypeOK'
    BY <1>0, <1>1, <2>1, <2>2 DEF TypeOK
  <2>4. Stored' \subseteq Stored
    BY <1>1, <2>2 DEF Stored
  <2>5. Numbered' /\ Cursors'
    BY <1>0, <1>1, <2>1, <2>2, <2>4 DEF Numbered, Before, Cursors
  <2>6. Subscribers' /\ Covers'
    BY <1>0, <1>1, <2>1, <2>2, <2>3, StillOnward, NoSessionChanges
  <2>7. OneNumber'
    BY <1>0, <2>1, <2>4 DEF OneNumber, Everywhere, Given
  <2>. QED BY <2>3, <2>5, <2>6, <2>7 DEF ReplayInv
<1>. QED BY <1>4, <1>5

-----------------------------------------------------------------------------
(* The backlog *)

\* Part of an increasing sequence, in its order.
LEMMA IncreasingKept ==
    ASSUME NEW S, NEW s \in Seq(S), NEW t \in Seq(S), NEW K, IsKept(t, s, K, Len(s)),
           Increasing(s)
    PROVE  Increasing(t) /\ Range(t) = Range(s) \intersect K
<1>1. PICK e : Embeds(e, t, s, Len(s))
  BY DEF IsKept
<1>2. /\ Len(s) \in Nat /\ Len(t) \in Nat /\ DOMAIN s = 1 .. Len(s) /\ DOMAIN t = 1 .. Len(t)
      /\ e \in [1 .. Len(t) -> 1 .. Len(s)]
  BY <1>1 DEF Embeds
<1>3. Increasing(t)
  BY <1>1, <1>2 DEF Embeds, Increasing
<1>4. Range(t) \subseteq Range(s) \intersect K
  BY <1>1, <1>2 DEF Embeds, IsKept, Range
<1>5. Range(s) \intersect K \subseteq Range(t)
  BY <1>2 DEF IsKept, Range
<1>. QED BY <1>3, <1>4, <1>5

\* The backlog is what the file has beyond the cursor, in its order.
LEMMA BacklogFacts ==
    ASSUME TypeOK, Numbered, NEW since \in Nat
    PROVE  /\ Backlog(since) \in Seq(Envelope) /\ Increasing(Backlog(since))
           /\ Range(Backlog(since)) = {e \in Range(disk) : e.seq > since}
<1>. DEFINE K == {e \in Range(disk) : e.seq > since}
<1>1. disk \in Seq(Envelope) /\ Increasing(disk)
  BY DEF TypeOK, Numbered
<1>2. PICK t : t = Backlog(since)
  OBVIOUS
<1>3. t = Keep(disk, K)
  BY <1>2 DEF Backlog
<1>4. Range(disk) \intersect K = K
  OBVIOUS
<1>. HIDE DEF K
<1>5. t \in Seq(Envelope) /\ IsKept(t, disk, K, Len(disk))
  BY <1>1, <1>3, KeepFacts
<1>6. Increasing(t) /\ Range(t) = Range(disk) \intersect K
  BY <1>1, <1>5, IncreasingKept
<1>. QED BY <1>2, <1>4, <1>5, <1>6 DEF K

\* the frames the backlog is queued as
LEMMA Queueing ==
    ASSUME NEW t \in Seq(Envelope), Increasing(t), NEW c,
           c = [i \in DOMAIN t |-> Frame(t[i], "backlog")]
    PROVE  /\ c \in Seq(Frames) /\ InTurn(c)
           /\ \A f \in Range(c) : f.from = "backlog" /\
                                  \E e \in Range(t) : f.id = e.id /\ f.seq = e.seq
<1>1. /\ Len(t) \in Nat /\ DOMAIN t = 1 .. Len(t)
      /\ \A i \in DOMAIN t : t[i] \in Envelope /\ t[i] \in Range(t)
  BY RangeElement
<1>2. \A i \in DOMAIN t : /\ c[i] \in Frames /\ c[i].id = t[i].id
                          /\ c[i].seq = t[i].seq /\ c[i].from = "backlog"
  BY <1>1, FrameOf
<1>3. c \in [1 .. Len(t) -> Frames] /\ DOMAIN c = DOMAIN t
  BY <1>1, <1>2
<1>4. c \in Seq(Frames)
  BY <1>1, <1>3
<1>5. InTurn(c)
  BY <1>2, <1>3 DEF InTurn, Follows, Increasing
<1>6. \A f \in Range(c) : \E i \in DOMAIN t : f = c[i]
  BY <1>3 DEF Range
<1>7. \A f \in Range(c) : f.from = "backlog" /\ \E e \in Range(t) : f.id = e.id /\ f.seq = e.seq
  BY <1>1, <1>2, <1>6
<1>. QED BY <1>4, <1>5, <1>7

\* What an attach reads from the journal ends at its high, and so does all that is on disk.
LEMMA AttachReadStep ==
    ASSUME ReplayInv, NEW s \in Sessions, AttachRead(s) PROVE ReplayInv'
<1>0. TypeOK /\ Numbered /\ Cursors /\ Subscribers /\ Covers /\ OneNumber
  BY DEF ReplayInv
<1>1. PICK since : since = session[s].since
  OBVIOUS
<1>2. PICK t : t = Backlog(since)
  OBVIOUS
<1>3. PICK c : c = [i \in DOMAIN t |-> Frame(t[i], "backlog")]
  OBVIOUS
<1>4. PICK h : h = MaxOr(SeqsOf(t), since)
  OBVIOUS
<1>5. PICK new : new = [session[s] EXCEPT !.phase = "read", !.high = h, !.chan = c]
  OBVIOUS
<1>6. /\ session[s].phase = "loaded" /\ session' = [session EXCEPT ![s] = new]
      /\ UNCHANGED <<ids, next_seq, bus, lines, disk, drain, hand, streamed_through,
                     replay_high, restarts, generation, sink>>
  BY <1>1, <1>2, <1>3, <1>4, <1>5 DEF AttachRead, hub
<1>7. /\ session[s] \in SessionType /\ session \in [Sessions -> SessionType] /\ since \in Nat
      /\ since < next_seq /\ next_seq \in Nat /\ session[s].got = <<>>
  BY <1>1, <1>6, SessionFacts DEF SessionType, Behind
<1>8. /\ t \in Seq(Envelope) /\ Increasing(t)
      /\ Range(t) = {e \in Range(disk) : e.seq > since}
  BY <1>0, <1>2, <1>7, BacklogFacts
<1>9. /\ c \in Seq(Frames) /\ InTurn(c)
      /\ \A f \in Range(c) : f.from = "backlog" /\
                             \E e \in Range(t) : f.id = e.id /\ f.seq = e.seq
  BY <1>3, <1>8, Queueing
<1>10. \A e \in Range(disk) : e.seq \in Nat /\ e.seq < next_seq /\ e.id <= ids /\ e \in Stored
  <2>1. \A e \in Range(disk) : e.seq \in Nat
    BY <1>0, StoredTypes, EnvelopeType
  <2>. QED BY <1>0, <2>1 DEF Numbered, Stored
<1>11. /\ h \in Nat
       /\ t = <<>> => h = since
       /\ t # <<>> => \E e \in Range(t) : h = e.seq
       /\ \A e \in Range(t) : e.seq <= h
  BY <1>4, <1>7, <1>8, MaxOrLast
<1>12. h < next_seq /\ since <= h
  <2>1. CASE t = <<>>
    BY <1>7, <1>11, <2>1
  <2>2. CASE t # <<>>
    <3>1. PICK e \in Range(t) : h = e.seq
      BY <1>11, <2>2
    <3>. QED BY <1>7, <1>8, <1>10, <3>1
  <2>. QED BY <2>1, <2>2
<1>13. \A e \in Range(disk) : e.seq <= h
  <2>. SUFFICES ASSUME NEW e \in Range(disk) PROVE e.seq <= h
    OBVIOUS
  <2>1. CASE e \in Range(t)
    BY <1>11, <2>1
  <2>2. CASE e \notin Range(t)
    BY <1>7, <1>8, <1>10, <1>11, <1>12, <2>2
  <2>. QED BY <2>1, <2>2
<1>14. /\ new \in SessionType /\ new.phase = "read" /\ new.high = h /\ new.chan = c
       /\ new.got = <<>> /\ new.lapped = session[s].lapped
  BY <1>5, <1>7, <1>9, <1>11 DEF SessionType, Phases
<1>15. session'[s] = new /\ \A r \in Sessions : r # s => session'[r] = session[r]
  BY <1>6, <1>7
<1>16. Given(s)' = Range(c)
  BY <1>14, <1>15, RangeEmpty DEF Given
<1>17. \A f \in Range(c) : /\ f.from = "backlog" /\ f.seq < next_seq /\ f.id <= ids /\ f.seq <= h
                           /\ \E e \in Range(disk) : e.seq = f.seq
                           /\ \E e \in Stored : f.id = e.id /\ f.seq = e.seq
  BY <1>8, <1>9, <1>10, <1>13
<1>18. ~Clean(s)'
  BY <1>14, <1>15 DEF Clean
<1>19. Subscriber(s)'
  <2>1. Parts(new.got, new.chan)
    BY <1>9, <1>14, InTurnEmpty, RangeEmpty DEF Parts, Precede
  <2>2. OneRepeat(Given(s)')
    BY <1>16, <1>17 DEF OneRepeat
  <2>3. Ahead(s)'
    BY <1>6, <1>16, <1>17, <1>18 DEF Ahead
  <2>. QED BY <1>6, <1>14, <1>15, <1>16, <1>17, <2>1, <2>2, <2>3
           DEF Subscriber, Open, OpenPhases, EarlyPhases
<1>20. Covers'
  <2>1. \A r \in Sessions : r # s => Given(r)' = Given(r) /\ (Clean(r)' <=> Clean(r))
    BY <1>15 DEF Given, Clean
  <2>2. \A r \in Sessions : Held(r, h)
    <3>. SUFFICES ASSUME NEW r \in Sessions, NEW f \in Given(r), f.from = "backlog"
                  PROVE  f.seq <= h
      BY DEF Held
    <3>1. PICK e \in Range(disk) : e.seq = f.seq
      BY <1>0 DEF Subscribers, Subscriber
    <3>. QED BY <1>13, <3>1
  <2>3. Held(s, session[s].high)'
    BY <1>14, <1>15, <1>16, <1>17 DEF Held
  <2>4. ASSUME NEW r \in Sessions, r # s, session'[r].phase = "read"
        PROVE  Held(r, session[r].high)'
    BY <1>0, <1>15, <2>1, <2>4 DEF Covers, Held
  <2>5. ASSUME NEW r \in Sessions, Clean(r)'
        PROVE  /\ Held(r, replay_high)'
               /\ \A q \in Sessions : session'[q].phase = "read" => Held(r, session[q].high)'
    <3>1. r # s /\ Clean(r) /\ Given(r)' = Given(r)
      BY <1>18, <2>1, <2>5
    <3>2. Held(r, replay_high)'
      BY <1>0, <1>6, <3>1 DEF Covers, Held
    <3>3. Held(r, session[s].high)'
      BY <1>14, <1>15, <2>2, <3>1 DEF Held
    <3>4. ASSUME NEW q \in Sessions, q # s, session'[q].phase = "read"
          PROVE  Held(r, session[q].high)'
      BY <1>0, <1>15, <3>1, <3>4 DEF Covers, Held
    <3>. QED BY <3>2, <3>3, <3>4
  <2>. QED BY <2>3, <2>4, <2>5 DEF Covers, Sessions
<1>21. Behind(new)
  BY <1>12, <1>14 DEF Behind
<1>22. \A f \in Given(s)' : f \in Given(s) \/ \E e \in Stored : f.id = e.id /\ f.seq = e.seq
  BY <1>16, <1>17
<1>. QED BY <1>6, <1>14, <1>19, <1>20, <1>21, <1>22, SessionFacts, SessionStep

\* An attach arms replay_high above everything it queues; it lowers it only below the
\* backlog of a session it lapped.
LEMMA AttachArmStep ==
    ASSUME ReplayInv, NEW s \in Sessions, AttachArm(s) PROVE ReplayInv'
<1>0. TypeOK /\ Subscriber(s) /\ Covers
  BY DEF ReplayInv, Subscribers
<1>1. PICK lap \in BOOLEAN : lap = \E r \in Sessions \ {s} : session[r].phase = "read"
  OBVIOUS
<1>2. PICK new : new = [session[s] EXCEPT !.phase = "armed", !.since = 0, !.high = 0,
                                          !.lapped = lap]
  OBVIOUS
<1>3. /\ session[s].phase = "read" /\ session' = [session EXCEPT ![s] = new]
      /\ replay_high' = session[s].high
      /\ UNCHANGED <<ids, next_seq, bus, lines, disk, drain, hand, streamed_through,
                     restarts, generation, sink>>
  BY <1>1, <1>2 DEF AttachArm, hub
<1>4. /\ session[s] \in SessionType /\ session \in [Sessions -> SessionType]
      /\ session[s].high \in Nat /\ session[s].high < next_seq
  BY <1>3, SessionFacts DEF SessionType, Behind
<1>5. /\ new \in SessionType /\ new.phase = "armed" /\ new.got = session[s].got
      /\ new.chan = session[s].chan /\ new.lapped = lap
  BY <1>2, <1>4 DEF SessionType, Phases
<1>6. session'[s] = new /\ \A r \in Sessions : r # s => session'[r] = session[r]
  BY <1>3, <1>4
<1>7. Given(s)' = Given(s) /\ Open(s) /\ Open(s)'
  BY <1>3, <1>5, <1>6 DEF Given, Open, OpenPhases
<1>8. \A r \in Sessions : r # s => Given(r)' = Given(r) /\ (Clean(r)' <=> Clean(r))
  BY <1>6 DEF Given, Clean
<1>9. Subscriber(s)'
  <2>1. \A f \in Given(s) : f.from = "backlog"
    BY <1>0, <1>3 DEF Subscriber, EarlyPhases
  <2>2. OneRepeat(Given(s)')
    BY <1>7, <2>1 DEF OneRepeat
  <2>3. Ahead(s)'
    BY <1>0, <1>3, <1>7, <2>1 DEF Subscriber, Ahead
  <2>4. Parts(new.got, new.chan)
    BY <1>5, SessionFacts
  <2>. QED BY <1>0, <1>3, <1>5, <1>6, <1>7, <2>1, <2>2, <2>3, <2>4
           DEF Subscriber, EarlyPhases
<1>10. Covers'
  <2>1. ASSUME NEW r \in Sessions, session'[r].phase = "read" PROVE Held(r, session[r].high)'
    <3>1. r # s
      BY <1>5, <1>6, <2>1
    <3>. QED BY <1>0, <1>6, <1>8, <2>1, <3>1 DEF Covers, Held
  <2>2. ASSUME NEW r \in Sessions, Clean(r)' PROVE Held(r, replay_high)'
    <3>1. CASE r = s
      BY <1>0, <1>3, <1>7, <3>1 DEF Covers, Held
    <3>2. CASE r # s
      BY <1>0, <1>3, <1>8, <2>2, <3>2 DEF Covers, Held
    <3>. QED BY <3>1, <3>2
  <2>3. ASSUME NEW r \in Sessions, NEW q \in Sessions, Clean(r)', session'[q].phase = "read"
        PROVE  Held(r, session[q].high)'
    <3>1. q # s /\ session[q].phase = "read" /\ session'[q] = session[q]
      BY <1>5, <1>6, <2>3
    <3>2. CASE r = s
      <4>1. lap = TRUE
        BY <1>1, <3>1
      <4>. QED BY <1>5, <1>6, <2>3, <3>2, <4>1 DEF Clean
    <3>3. CASE r # s
      BY <1>0, <1>8, <2>3, <3>1, <3>3 DEF Covers, Held
    <3>. QED BY <3>2, <3>3
  <2>. QED BY <2>1, <2>2, <2>3 DEF Covers, Sessions
<1>11. Behind(new)
  BY <1>5 DEF Behind
<1>. QED BY <1>3, <1>4, <1>5, <1>7, <1>9, <1>10, <1>11, SessionFacts, SessionStep

-----------------------------------------------------------------------------
(* The daemon starts again *)

\* A restart keeps the invariant: counting goes on above the file.
LEMMA DaemonRestartsStep == ASSUME ReplayInv, DaemonRestarts PROVE ReplayInv'
<1>0. TypeOK /\ Numbered /\ Subscribers /\ Covers /\ OneNumber
  BY DEF ReplayInv
<1>1. /\ restarts < MaxRestarts /\ restarts' = restarts + 1
      /\ next_seq' = DiskMax + 1 /\ streamed_through' = DiskMax /\ replay_high' = DiskMax
      /\ bus' = <<>> /\ lines' = <<>> /\ drain' = <<>> /\ hand' = <<>>
      /\ generation' = 0 /\ sink' = 0
      /\ UNCHANGED <<ids, disk>>
  BY DEF DaemonRestarts, FirstSeq, SeedCursor
<1>2. session' = [s \in Sessions |->
          IF session[s].phase \in {"none", "done"} THEN session[s]
          ELSE [session[s] EXCEPT !.phase = "cut", !.chan = <<>>]]
  BY DEF DaemonRestarts
<1>3. DiskMax \in Nat /\ \A e \in Range(disk) : e.seq \in Nat /\ e.seq <= DiskMax
  <2>1. disk \in Seq(Envelope) /\ Increasing(disk)
    BY <1>0 DEF TypeOK, Numbered
  <2>2. \A e \in Range(disk) : e.seq \in Nat
    BY <1>0, StoredTypes, EnvelopeType
  <2>. QED BY <2>1, <2>2, MaxOrLast DEF DiskMax
<1>5. ASSUME NEW s \in Sessions
      PROVE  /\ session'[s] \in SessionType /\ Narrows(s) /\ ~Open(s)'
             /\ session'[s].phase \in {"none", "done", "cut"}
  <2>1. session[s] \in SessionType /\ Subscriber(s)
    BY <1>0, SessionTypes DEF Subscribers
  <2>2. CASE session[s].phase \in {"none", "done"}
    <3>1. session'[s] = session[s]
      BY <1>2, <2>2
    <3>2. Given(s)' = Given(s) /\ ~Open(s) /\ ~Open(s)' /\ ~Clean(s)'
      BY <2>2, <3>1 DEF Given, Open, OpenPhases, Clean
    <3>3. Parts(session'[s].got, session'[s].chan) /\ session'[s].chan = <<>>
      BY <2>1, <3>1, <3>2 DEF Subscriber
    <3>4. session'[s].phase \in {"none", "loaded"} => session'[s].got = <<>>
      BY <2>1, <3>1 DEF Subscriber
    <3>5. Narrows(s)
      BY <3>1, <3>2, <3>3, <3>4 DEF Narrows
    <3>. QED BY <2>1, <2>2, <3>1, <3>2, <3>5
  <2>3. CASE session[s].phase \notin {"none", "done"}
    <3>1. PICK new : new = [session[s] EXCEPT !.phase = "cut", !.chan = <<>>]
      OBVIOUS
    <3>2. session'[s] = new
      BY <1>2, <2>3, <3>1
    <3>3. <<>> \in Seq(Frames)
      OBVIOUS
    <3>4. /\ new \in SessionType /\ new.phase = "cut" /\ new.chan = <<>>
          /\ new.got = session[s].got /\ new.lapped = session[s].lapped
      BY <2>1, <3>1, <3>3 DEF SessionType, Phases
    <3>5. Given(s)' \subseteq Given(s) /\ ~Open(s)' /\ ~Clean(s)'
      BY <3>2, <3>4, RangeEmpty DEF Given, Open, OpenPhases, Clean
    <3>6. Parts(new.got, new.chan)
      BY <2>1, <3>4, PartsNoChan DEF Subscriber
    <3>. QED BY <3>2, <3>4, <3>5, <3>6 DEF Narrows, EarlyPhases
  <2>. QED BY <2>2, <2>3
<1>6. TypeOK'
  <2>1. session' = [s \in Sessions |-> session'[s]]
    BY <1>2
  <2>2. session' \in [Sessions -> SessionType]
    BY <1>5, <2>1
  <2>3. DiskMax + 1 \in Nat \ {0}
    BY <1>3
  <2>4. restarts' \in 0 .. MaxRestarts
    BY <1>0, <1>1, ReplayConstants DEF TypeOK
  <2>5. 0 \in 0 .. MaxSessions /\ Len(bus') <= BusCap /\ Len(hand') <= 1
    BY <1>1, ReplayConstants
  <2>6. /\ bus' \in Seq(Envelope) /\ lines' \in Seq(Envelope) /\ drain' \in Seq(Envelope)
        /\ hand' \in Seq(Envelope)
    BY <1>1
  <2>. QED BY <1>0, <1>1, <1>3, <2>2, <2>3, <2>4, <2>5, <2>6 DEF TypeOK, SessionType, Phases
<1>7. /\ Range(bus') = {} /\ Range(lines') = {} /\ Range(drain') = {} /\ Range(hand') = {}
      /\ Increasing(bus') /\ Increasing(lines') /\ Increasing(drain')
  BY <1>1, RangeEmpty, IncreasingEmpty
<1>8. Stored' = Range(disk)
  BY <1>1, <1>7 DEF Stored
<1>9. Numbered'
  <2>1. \A e \in Range(disk) : e.seq < DiskMax + 1 /\ e.id <= ids
    <3>1. \A e \in Range(disk) : e.id <= ids
      BY <1>0 DEF Numbered, Stored
    <3>. QED BY <1>3, <3>1
  <2>. QED BY <1>0, <1>1, <1>7, <1>8, <2>1 DEF Numbered, Before
<1>10. Cursors'
  <2>1. \A s \in Sessions : session'[s].phase # "loaded" /\ session'[s].phase # "read"
    BY <1>5
  <2>2. DiskMax < DiskMax + 1
    BY <1>3
  <2>. QED BY <1>1, <2>1, <2>2 DEF Cursors, Sessions
<1>11. Subscribers'
  <2>1. ids <= ids'
    BY <1>0, <1>1, ReplayConstants DEF TypeOK
  <2>2. ASSUME NEW s \in Sessions PROVE Subscriber(s)'
    BY <1>0, <1>1, <1>5, <1>6, <2>1, NarrowsStep DEF Subscribers, Covers
  <2>. QED BY <2>2 DEF Subscribers, Sessions
<1>12. Covers'
  <2>1. \A s \in Sessions : ~Clean(s)' /\ session'[s].phase # "read"
    BY <1>5 DEF Open, OpenPhases, Clean
  <2>. QED BY <2>1 DEF Covers, Sessions
<1>13. OneNumber'
  <2>1. \A s \in Sessions : \A f \in Given(s)' : f \in Given(s)
    BY <1>5 DEF Narrows
  <2>2. \A e \in Stored' : e \in Stored
    BY <1>8 DEF Stored
  <2>. QED BY <1>0, <2>1, <2>2, MovesKept
<1>. QED BY <1>6, <1>9, <1>10, <1>11, <1>12, <1>13 DEF ReplayInv

-----------------------------------------------------------------------------
(* The invariant *)

\* The invariant holds at first.
LEMMA ReplayInitInv == Init => ReplayInv
<1>. SUFFICES ASSUME Init PROVE ReplayInv
  OBVIOUS
<1>1. /\ ids = 0 /\ next_seq = 1
      /\ bus = <<>> /\ lines = <<>> /\ disk = <<>> /\ drain = <<>> /\ hand = <<>>
      /\ streamed_through = 0 /\ replay_high = 0 /\ generation = 0 /\ sink = 0
      /\ restarts = 0 /\ session = [s \in Sessions |-> NoSession]
  BY DEF Init, FirstSeq
<1>2. NoSession \in SessionType /\ NoSession.got = <<>> /\ NoSession.chan = <<>>
      /\ NoSession.phase = "none"
  BY DEF NoSession, SessionType, Phases
<1>3. TypeOK
  <2>1. session \in [Sessions -> SessionType]
    BY <1>1, <1>2
  <2>2. /\ 0 \in 0 .. MaxEnvelopes /\ 0 \in 0 .. MaxSessions /\ 0 \in 0 .. MaxRestarts
        /\ Len(bus) <= BusCap /\ Len(hand) <= 1
    BY <1>1, ReplayConstants
  <2>. QED BY <1>1, <2>1, <2>2 DEF TypeOK, SessionType, Phases
<1>4. /\ Range(bus) = {} /\ Range(lines) = {} /\ Range(drain) = {} /\ Range(hand) = {}
      /\ Range(disk) = {} /\ Increasing(disk)
      /\ Increasing(bus) /\ Increasing(lines) /\ Increasing(drain)
  BY <1>1, RangeEmpty, IncreasingEmpty
<1>5. Stored = {}
  BY <1>4 DEF Stored
<1>6. Numbered /\ Cursors
  BY <1>1, <1>2, <1>4, <1>5 DEF Numbered, Before, Cursors
<1>7. ASSUME NEW s \in Sessions
      PROVE  Given(s) = {} /\ Subscriber(s) /\ session[s].phase = "none"
  <2>1. session[s] = NoSession
    BY <1>1
  <2>2. Given(s) = {} /\ ~Open(s)
    BY <1>2, <2>1, RangeEmpty DEF Given, Open, OpenPhases
  <2>3. Parts(<<>>, <<>>)
    BY InTurnEmpty, RangeEmpty DEF Parts, Precede
  <2>. QED BY <1>2, <2>1, <2>2, <2>3 DEF Subscriber, OneRepeat
<1>8. Subscribers /\ OneNumber
  BY <1>5, <1>7 DEF Subscribers, OneNumber, Everywhere
<1>9. Covers
  BY <1>7 DEF Covers, Clean
<1>. QED BY <1>3, <1>6, <1>8, <1>9 DEF ReplayInv

\* Every step of the hub, the forwarder, an attach, a writer or a REPL, and a restart of
\* the daemon, keeps the invariant.
LEMMA ReplayNextInv == ReplayInv /\ [Next]_vars => ReplayInv'
<1>. SUFFICES ASSUME ReplayInv, [Next]_vars PROVE ReplayInv'
  OBVIOUS
<1>1. CASE Ingest
  BY <1>1, IngestStep
<1>2. CASE Tee
  BY <1>2, TeeStep
<1>3. CASE Persist
  BY <1>3, PersistStep
<1>4. CASE ForwardCheck
  BY <1>4, ForwardCheckStep
<1>5. CASE ForwardSend
  BY <1>5, ForwardSendStep
<1>6. ASSUME NEW s \in Sessions,
             \/ AttachLoad(s) \/ AttachSteps(s) \/ WriterWrites(s) \/ WriterExits(s)
             \/ WriterClears(s) \/ ReplDies(s)
      PROVE  ReplayInv'
  BY <1>6, AttachLoadStep, AttachReadStep, AttachArmStep, AttachBumpStep, AttachInstallStep,
     WriterWritesStep, WriterExitsStep, WriterClearsStep, ReplDiesStep DEF AttachSteps
<1>7. CASE DaemonRestarts
  BY <1>7, DaemonRestartsStep
<1>8. CASE UNCHANGED vars
  <2>1. TypeOK' /\ Numbered' /\ Cursors'
    BY <1>8 DEF ReplayInv, vars, TypeOK, Numbered, Cursors, Stored
  <2>2. Subscribers' /\ Covers'
    BY <1>8, <2>1, StillOnward, NoSessionChanges DEF ReplayInv, vars
  <2>3. OneNumber'
    BY <1>8 DEF ReplayInv, vars, OneNumber, Everywhere, Stored, Given
  <2>. QED BY <2>1, <2>2, <2>3 DEF ReplayInv
<1>. QED BY <1>1, <1>2, <1>3, <1>4, <1>5, <1>6, <1>7, <1>8 DEF Next

\* The invariant always holds.
LEMMA ReplayInvAlways == Spec => []ReplayInv
  BY ReplayInitInv, ReplayNextInv, PTL DEF Spec

\* NumberingSound always holds: hub_seq orders the journal file strictly through daemon
\* crashes that lose numbers already handed out and a tee that drops what it lags behind,
\* and no cursor ever covers a number that is still to be handed out.
THEOREM NumberingAlwaysSound == Spec => []NumberingSound
  BY ReplayInvAlways, NumberingSoundHolds, PTL

\* JoinSound always holds: however overlapping attaches, replaced writers, deaths of a REPL
\* and the forwarder interleave, each subscriber gets its backlog in order, then live frames
\* in order, and at most one envelope twice unless it armed replay_high while another attach
\* had read the journal and was yet to arm.
THEOREM JoinAlwaysSound == Spec => []JoinSound
  BY ReplayInvAlways, JoinSoundHolds, PTL

=============================================================================
