----------------------------- MODULE ListTheorems -----------------------------
(***************************************************************************)
(* What Only keeps of a list: its elements, their order, and how often     *)
(* Only may be applied.  All rests on induction over the length of the     *)
(* list, stated for a set of numbers and not for an operator.              *)
(***************************************************************************)
EXTENDS Lists, SequencesExt, SequenceTheorems, FiniteSetTheorems, WellFoundedInduction, TLAPS

\* Induction over the natural numbers for a set of numbers.
LEMMA SetInduction ==
    ASSUME NEW P, 0 \in P, \A n \in Nat : n \in P => n + 1 \in P
    PROVE  Nat \subseteq P
<1> DEFINE less == {ss \in Nat \X Nat : ss[1] < ss[2]}
           rest == Nat \ P
<1>1. IsWellFoundedOn(less, Nat)
    BY NatLessThanWellFounded DEF OpToRel
<1>2. SUFFICES ASSUME rest # {} PROVE FALSE
    OBVIOUS
<1>3. PICK x \in rest : \A y \in rest : <<y, x>> \notin less
    <2> HIDE DEF less
    <2>1. rest \subseteq Nat
        OBVIOUS
    <2> HIDE DEF rest
    <2> QED BY <1>1, <1>2, <2>1, WFMin
<1>4. x \in Nat /\ x # 0
    OBVIOUS
<1>5. x - 1 \in Nat /\ (x - 1) + 1 = x
    BY <1>4
<1>6. <<x - 1, x>> \in less
    BY <1>4, <1>5
<1>7. x - 1 \in P
    BY <1>3, <1>5, <1>6
<1> QED BY <1>4, <1>5, <1>7

\* f[n] is what Only keeps of the first n elements.
KeptUpto(S, list, kept, f) ==
    /\ f \in [0 .. Len(list) -> Seq(S)]
    /\ Only(list, kept) = f[Len(list)]
    /\ f[0] = << >>
    /\ \A n \in 1 .. Len(list) :
          f[n] = IF list[n] \in kept THEN Append(f[n - 1], list[n]) ELSE f[n - 1]

\* The function that the recursion of Only defines exists.
LEMMA OnlyByPrefix ==
    ASSUME NEW S, NEW list \in Seq(S), NEW kept
    PROVE  \E f : KeptUpto(S, list, kept, f)
<1> DEFINE N == Len(list)
           Step(f, n) == IF n = 0 THEN << >>
                         ELSE IF list[n] \in kept THEN Append(f[n - 1], list[n]) ELSE f[n - 1]
           Upto(m) == {f \in [0 .. m -> Seq(S)] : \A n \in 0 .. m : f[n] = Step(f, n)}
           P == {m \in Nat : m <= N => Upto(m) # {}}
<1>1. N \in Nat /\ \A n \in 1 .. N : list[n] \in S
    BY LenProperties
<1>2. << >> \in Seq(S)
    BY EmptySeq
<1>3. 0 \in P
    <2>1. [n \in 0 .. 0 |-> << >>] \in Upto(0)
        BY <1>2
    <2> QED BY <2>1
<1>4. \A m \in Nat : m \in P => m + 1 \in P
    <2> SUFFICES ASSUME NEW m \in Nat, m \in P, m + 1 <= N PROVE Upto(m + 1) # {}
        <3> HIDE DEF Upto, N
        <3> QED OBVIOUS
    <2>0. Upto(m) # {}
        <3> HIDE DEF Upto
        <3> QED BY <1>1
    <2>1. PICK f \in [0 .. m -> Seq(S)] : \A n \in 0 .. m : f[n] = Step(f, n)
        BY <2>0
    <2> DEFINE g == [n \in 0 .. m + 1 |->
                        IF n <= m THEN f[n]
                        ELSE IF list[n] \in kept THEN Append(f[n - 1], list[n]) ELSE f[n - 1]]
    <2>2. list[m + 1] \in S
        BY <1>1
    <2>3. f[m] \in Seq(S)
        OBVIOUS
    <2>4. Append(f[m], list[m + 1]) \in Seq(S)
        BY <2>2, <2>3, AppendProperties
    <2>5. g[m + 1] \in Seq(S)
        BY <2>3, <2>4
    <2>6. \A n \in 0 .. m : g[n] = f[n] /\ f[n] \in Seq(S)
        OBVIOUS
    <2>7. g \in [0 .. m + 1 -> Seq(S)]
        <3>1. \A n \in 0 .. m + 1 : n \in 0 .. m \/ n = m + 1
            OBVIOUS
        <3>2. \A n \in 0 .. m + 1 : g[n] \in Seq(S)
            <4> HIDE DEF g
            <4> QED BY <3>1, <2>5, <2>6
        <3> QED BY <3>2
    <2>8. ASSUME NEW n \in 0 .. m + 1 PROVE g[n] = Step(g, n)
        <3>1. CASE n = 0
            BY <3>1, <2>1
        <3>2. CASE n \in 1 .. m
            <4>1. n - 1 \in 0 .. m /\ n \in 0 .. m
                BY <3>2
            <4>2. g[n - 1] = f[n - 1] /\ g[n] = f[n]
                BY <4>1, <2>6
            <4> HIDE DEF g
            <4> QED BY <2>1, <3>2, <4>1, <4>2
        <3>3. CASE n = m + 1
            <4>1. g[n - 1] = f[n - 1] /\ n # 0 /\ n - 1 = m
                BY <3>3
            <4> QED BY <3>3, <4>1
        <3> QED BY <3>1, <3>2, <3>3
    <2>9. g \in Upto(m + 1)
        <3> HIDE DEF g
        <3> QED BY <2>7, <2>8
    <2> QED BY <2>9
<1>5. N \in P
    <2> HIDE DEF P
    <2> QED BY <1>1, <1>3, <1>4, SetInduction
<1>6. PICK f \in [0 .. N -> Seq(S)] : \A n \in 0 .. N : f[n] = Step(f, n)
    BY <1>1, <1>5
<1>7. f = [n \in 0 .. N |-> Step(f, n)]
    BY <1>6
<1> DEFINE F == CHOOSE h : h = [n \in 0 .. N |-> Step(h, n)]
<1>8. F = [n \in 0 .. N |-> Step(F, n)]
    BY <1>7
<1>9. Only(list, kept) = F[N]
    BY DEF Only
<1> HIDE DEF F
<1>10. F = f
    <2> DEFINE Q == {m \in Nat : m <= N => F[m] = f[m]}
    <2>1. 0 \in Q
        BY <1>1, <1>6, <1>8
    <2>2. \A m \in Nat : m \in Q => m + 1 \in Q
        <3> SUFFICES ASSUME NEW m \in Nat, m \in Q, m + 1 <= N PROVE F[m + 1] = f[m + 1]
            OBVIOUS
        <3>1. F[m] = f[m]
            BY <1>1
        <3>2. m + 1 \in 0 .. N /\ m + 1 # 0 /\ (m + 1) - 1 = m
            BY <1>1
        <3>3. f[m + 1] = Step(f, m + 1)
            BY <1>6, <3>2
        <3>4. F[m + 1] = Step(F, m + 1)
            BY <1>8, <3>2
        <3> QED BY <3>1, <3>2, <3>3, <3>4
    <2>3. Nat \subseteq Q
        <3> HIDE DEF Q
        <3> QED BY <2>1, <2>2, SetInduction
    <2>4. \A n \in 0 .. N : F[n] = f[n]
        <3> HIDE DEF Step
        <3> QED BY <1>1, <2>3
    <2>5. F = [n \in 0 .. N |-> F[n]]
        <3> QED BY <1>8
    <2>6. f = [n \in 0 .. N |-> f[n]]
        OBVIOUS
    <2> QED BY <2>4, <2>5, <2>6
<1>11. ASSUME NEW n \in 1 .. N
       PROVE  f[n] = IF list[n] \in kept THEN Append(f[n - 1], list[n]) ELSE f[n - 1]
    <2>1. n \in 0 .. N /\ n # 0
        BY <1>1
    <2> QED BY <1>6, <2>1
<1>12. f[0] = << >>
    BY <1>1, <1>6
<1>13. KeptUpto(S, list, kept, f)
    <2> HIDE DEF Step
    <2> QED BY <1>9, <1>10, <1>11, <1>12 DEF KeptUpto
<1> QED BY <1>13

\* The places p[1] < ... < p[m] are those of s that are kept, and of t likewise.
KeptAt(s, sKept, t, tKept, m, p) ==
    /\ m \in Nat /\ p \in [1 .. m -> 1 .. Len(s)]
    /\ \A a, b \in 1 .. m : a < b => p[a] < p[b]
    /\ \A k \in 1 .. Len(s) : s[k] \in sKept <=> \E a \in 1 .. m : p[a] = k
    /\ Only(s, sKept) = [a \in 1 .. m |-> s[p[a]]]
    /\ Only(t, tKept) = [a \in 1 .. m |-> t[p[a]]]

\* Two lists of one length, kept at the same places: what Only keeps of each is what
\* the list has at these places, in their order.
LEMMA OnlyByPlaces ==
    ASSUME NEW S, NEW s \in Seq(S), NEW T, NEW t \in Seq(T), Len(s) = Len(t),
           NEW sKept, NEW tKept,
           \A k \in 1 .. Len(s) : s[k] \in sKept <=> t[k] \in tKept
    PROVE  \E m, p : KeptAt(s, sKept, t, tKept, m, p)
<1> DEFINE N == Len(s)
<1>0. /\ N \in Nat /\ \A n \in 1 .. N : s[n] \in S /\ t[n] \in T
    BY LenProperties
<1>1. PICK f : KeptUpto(S, s, sKept, f)
    BY OnlyByPrefix
<1>2. PICK g : KeptUpto(T, t, tKept, g)
    BY OnlyByPrefix
<1>a. /\ f \in [0 .. N -> Seq(S)] /\ Only(s, sKept) = f[N] /\ f[0] = << >>
      /\ \A n \in 1 .. N : f[n] = IF s[n] \in sKept THEN Append(f[n - 1], s[n]) ELSE f[n - 1]
    BY <1>1 DEF KeptUpto
<1>b. /\ g \in [0 .. N -> Seq(T)] /\ Only(t, tKept) = g[N] /\ g[0] = << >>
      /\ \A n \in 1 .. N : g[n] = IF t[n] \in tKept THEN Append(g[n - 1], t[n]) ELSE g[n - 1]
    BY <1>2 DEF KeptUpto
<1> DEFINE Increasing(m, p) == \A a, b \in 1 .. m : a < b => p[a] < p[b]
           Covers(n, m, p) == \A k \in 1 .. n : s[k] \in sKept <=> \E a \in 1 .. m : p[a] = k
           Picks(n, m, p) == /\ Increasing(m, p)
                             /\ Covers(n, m, p)
                             /\ f[n] = [a \in 1 .. m |-> s[p[a]]]
                             /\ g[n] = [a \in 1 .. m |-> t[p[a]]]
           Found(n) == \E m \in Nat : \E p \in [1 .. m -> 1 .. n] : Picks(n, m, p)
           P == {n \in Nat : n <= N => Found(n)}
<1>3. 0 \in P
    <2> DEFINE p == [a \in 1 .. 0 |-> 1]
    <2>1. p \in [1 .. 0 -> 1 .. 0]
        OBVIOUS
    <2>2. f[0] = [a \in 1 .. 0 |-> s[p[a]]]
        BY <1>a
    <2>3. g[0] = [a \in 1 .. 0 |-> t[p[a]]]
        BY <1>b
    <2>4. Increasing(0, p) /\ Covers(0, 0, p)
        OBVIOUS
    <2>5. Picks(0, 0, p)
        BY <2>2, <2>3, <2>4
    <2> HIDE DEF p, Picks
    <2> QED BY <2>1, <2>5
<1>4. \A n \in Nat : n \in P => n + 1 \in P
    <2> SUFFICES ASSUME NEW n \in Nat, n \in P, n + 1 <= N
                 PROVE  Found(n + 1)
        <3> HIDE DEF Found, N
        <3> QED OBVIOUS
    <2>0. Found(n)
        <3> HIDE DEF Found
        <3> QED BY <1>0
    <2>m. PICK m \in Nat : \E p \in [1 .. m -> 1 .. n] : Picks(n, m, p)
        <3> HIDE DEF Picks
        <3> QED BY <2>0
    <2>1. PICK p \in [1 .. m -> 1 .. n] : Picks(n, m, p)
        <3> HIDE DEF Picks
        <3> QED BY <2>m
    <2>2. /\ n \in 0 .. N /\ n + 1 \in 1 .. N /\ n + 1 \in 0 .. N /\ (n + 1) - 1 = n
        BY <1>0
    <2>3. CASE s[n + 1] \notin sKept
        <3>1. f[n + 1] = f[n] /\ g[n + 1] = g[n]
            BY <1>a, <1>b, <2>2, <2>3
        <3>2. \A a \in 1 .. m : p[a] \in 1 .. n /\ p[a] # n + 1
            OBVIOUS
        <3>3. p \in [1 .. m -> 1 .. n + 1]
            OBVIOUS
        <3>4. Covers(n + 1, m, p)
            <4>1. \A k \in 1 .. n + 1 : k \in 1 .. n \/ k = n + 1
                OBVIOUS
            <4> QED BY <2>1, <2>3, <3>2, <4>1
        <3>5. Picks(n + 1, m, p)
            BY <2>1, <3>1, <3>4
        <3> HIDE DEF Picks
        <3> QED BY <3>3, <3>5
    <2>4. CASE s[n + 1] \in sKept
        <3> DEFINE q == [a \in 1 .. m + 1 |-> IF a <= m THEN p[a] ELSE n + 1]
        <3>1. /\ f[n + 1] = Append(f[n], s[n + 1]) /\ g[n + 1] = Append(g[n], t[n + 1])
              /\ f[n] \in Seq(S) /\ g[n] \in Seq(T) /\ s[n + 1] \in S /\ t[n + 1] \in T
            <4>1. s[n + 1] \in S /\ t[n + 1] \in T /\ t[n + 1] \in tKept
                BY <1>0, <2>2, <2>4
            <4>2. f[n] \in Seq(S) /\ g[n] \in Seq(T)
                BY <1>a, <1>b, <2>2
            <4>3. f[n + 1] = Append(f[n], s[n + 1])
                BY <1>a, <2>2, <2>4
            <4>4. g[n + 1] = Append(g[n], t[n + 1])
                BY <1>b, <2>2, <4>1
            <4> QED BY <4>1, <4>2, <4>3, <4>4
        <3>2. /\ m + 1 \in Nat
              /\ \A a \in 1 .. m : q[a] = p[a] /\ p[a] \in 1 .. n
              /\ q[m + 1] = n + 1 /\ m + 1 \in 1 .. m + 1
              /\ \A a \in 1 .. m + 1 : a \in 1 .. m \/ a = m + 1
              /\ \A k \in 1 .. n + 1 : k \in 1 .. n \/ k = n + 1
            OBVIOUS
        <3>3. q \in [1 .. m + 1 -> 1 .. n + 1]
            OBVIOUS
        <3> HIDE DEF q
        <3>4. Increasing(m + 1, q)
            <4> SUFFICES ASSUME NEW a \in 1 .. m + 1, NEW b \in 1 .. m + 1, a < b PROVE q[a] < q[b]
                OBVIOUS
            <4>1. a \in 1 .. m
                OBVIOUS
            <4>2. CASE b \in 1 .. m
                BY <2>1, <3>2, <4>1, <4>2
            <4>3. CASE b = m + 1
                BY <3>2, <4>1, <4>3
            <4> QED BY <3>2, <4>2, <4>3
        <3>5. Covers(n + 1, m + 1, q)
            <4> SUFFICES ASSUME NEW k \in 1 .. n + 1
                         PROVE  s[k] \in sKept <=> \E a \in 1 .. m + 1 : q[a] = k
                OBVIOUS
            <4>1. CASE k = n + 1
                BY <2>4, <3>2, <4>1
            <4>2. CASE k \in 1 .. n
                <5>1. s[k] \in sKept <=> \E a \in 1 .. m : p[a] = k
                    BY <2>1, <4>2
                <5>2. q[m + 1] # k
                    BY <3>2, <4>2
                <5>3. \A a \in 1 .. m : a \in 1 .. m + 1
                    OBVIOUS
                <5>4. (\E a \in 1 .. m : p[a] = k) => \E a \in 1 .. m + 1 : q[a] = k
                    BY <3>2, <5>3
                <5>5. ASSUME NEW a \in 1 .. m + 1, q[a] = k PROVE \E b \in 1 .. m : p[b] = k
                    <6>1. a \in 1 .. m
                        BY <3>2, <5>2, <5>5
                    <6> QED BY <3>2, <5>5, <6>1
                <5> QED BY <5>1, <5>4, <5>5
            <4> QED BY <3>2, <4>1, <4>2
        <3>6. Len(f[n]) = m /\ Len(g[n]) = m
            <4>1. DOMAIN f[n] = 1 .. m /\ DOMAIN g[n] = 1 .. m
                BY <2>1
            <4> QED BY <3>1, <4>1, LenProperties
        <3>7. f[n + 1] = [a \in 1 .. m + 1 |-> s[q[a]]]
            <4>1. /\ Append(f[n], s[n + 1]) \in Seq(S) /\ Len(Append(f[n], s[n + 1])) = m + 1
                  /\ \A a \in 1 .. m : Append(f[n], s[n + 1])[a] = f[n][a]
                  /\ Append(f[n], s[n + 1])[m + 1] = s[n + 1]
                BY <3>1, <3>2, <3>6, AppendProperties
            <4>2. DOMAIN f[n + 1] = 1 .. m + 1 /\ f[n + 1] = [a \in DOMAIN f[n + 1] |-> f[n + 1][a]]
                BY <3>1, <4>1, LenProperties
            <4>3. \A a \in 1 .. m : f[n][a] = s[p[a]]
                BY <2>1
            <4>4. \A a \in 1 .. m + 1 : f[n + 1][a] = s[q[a]]
                BY <3>1, <3>2, <4>1, <4>3
            <4> QED BY <4>2, <4>4
        <3>8. g[n + 1] = [a \in 1 .. m + 1 |-> t[q[a]]]
            <4>1. /\ Append(g[n], t[n + 1]) \in Seq(T) /\ Len(Append(g[n], t[n + 1])) = m + 1
                  /\ \A a \in 1 .. m : Append(g[n], t[n + 1])[a] = g[n][a]
                  /\ Append(g[n], t[n + 1])[m + 1] = t[n + 1]
                BY <3>1, <3>2, <3>6, AppendProperties
            <4>2. DOMAIN g[n + 1] = 1 .. m + 1 /\ g[n + 1] = [a \in DOMAIN g[n + 1] |-> g[n + 1][a]]
                BY <3>1, <4>1, LenProperties
            <4>3. \A a \in 1 .. m : g[n][a] = t[p[a]]
                BY <2>1
            <4>4. \A a \in 1 .. m + 1 : g[n + 1][a] = t[q[a]]
                BY <3>1, <3>2, <4>1, <4>3
            <4> QED BY <4>2, <4>4
        <3>9. Picks(n + 1, m + 1, q)
            BY <3>4, <3>5, <3>7, <3>8
        <3> HIDE DEF Picks
        <3> QED BY <3>2, <3>3, <3>9
    <2> QED BY <2>3, <2>4
<1>5. N \in P
    <2> HIDE DEF P
    <2> QED BY <1>0, <1>3, <1>4, SetInduction
<1>c. Found(N)
    <2> HIDE DEF Found
    <2> QED BY <1>0, <1>5
<1>6. PICK m \in Nat : \E p \in [1 .. m -> 1 .. N] : Picks(N, m, p)
    <2> HIDE DEF Picks
    <2> QED BY <1>c
<1>7. PICK p \in [1 .. m -> 1 .. N] : Picks(N, m, p)
    <2> HIDE DEF Picks
    <2> QED BY <1>6
<1>8. Only(s, sKept) = [a \in 1 .. m |-> s[p[a]]] /\ Only(t, tKept) = [a \in 1 .. m |-> t[p[a]]]
    BY <1>a, <1>b, <1>7
<1>9. Increasing(m, p) /\ Covers(N, m, p)
    BY <1>7
<1>10. KeptAt(s, sKept, t, tKept, m, p)
    <2> HIDE DEF Picks
    <2> QED BY <1>8, <1>9 DEF KeptAt
<1> QED BY <1>10

\* Of the empty list Only keeps nothing.
LEMMA OnlyEmpty ==
    ASSUME NEW kept
    PROVE  Only(<< >>, kept) = << >>
<1>1. << >> \in Seq({}) /\ Len(<< >>) = 0
    BY EmptySeq
<1>2. PICK f : KeptUpto({}, << >>, kept, f)
    BY <1>1, OnlyByPrefix
<1> QED BY <1>1, <1>2 DEF KeptUpto

\* Of a longer list it keeps what it keeps of the shorter one, and the last element
\* when that passes.
LEMMA OnlyAppend ==
    ASSUME NEW S, NEW list \in Seq(S), NEW x \in S, NEW kept
    PROVE  Only(Append(list, x), kept) =
              IF x \in kept THEN Append(Only(list, kept), x) ELSE Only(list, kept)
<1> DEFINE N == Len(list)
           more == Append(list, x)
<1>1. /\ N \in Nat /\ more \in Seq(S) /\ Len(more) = N + 1 /\ more[N + 1] = x
      /\ \A n \in 1 .. N : more[n] = list[n]
    BY LenProperties, AppendProperties
<1> HIDE DEF more
<1>3. PICK f : KeptUpto(S, list, kept, f)
    BY OnlyByPrefix
<1>4. PICK g : KeptUpto(S, more, kept, g)
    BY <1>1, OnlyByPrefix
<1>5. /\ f \in [0 .. N -> Seq(S)] /\ Only(list, kept) = f[N] /\ f[0] = << >>
      /\ \A n \in 1 .. N : f[n] = IF list[n] \in kept THEN Append(f[n - 1], list[n]) ELSE f[n - 1]
    BY <1>3 DEF KeptUpto
<1>6. /\ Only(more, kept) = g[N + 1] /\ g[0] = << >>
      /\ \A n \in 1 .. N + 1 : g[n] = IF more[n] \in kept THEN Append(g[n - 1], more[n]) ELSE g[n - 1]
    BY <1>1, <1>4 DEF KeptUpto
<1> DEFINE P == {n \in Nat : n <= N => g[n] = f[n]}
<1>7. 0 \in P
    BY <1>5, <1>6
<1>8. ASSUME NEW n \in Nat, n \in P PROVE n + 1 \in P
    <2> SUFFICES ASSUME n + 1 <= N PROVE g[n + 1] = f[n + 1]
        OBVIOUS
    <2>1. g[n] = f[n] /\ n + 1 \in 1 .. N /\ n + 1 \in 1 .. N + 1 /\ (n + 1) - 1 = n
        BY <1>1, <1>8
    <2>2. more[n + 1] = list[n + 1]
        BY <1>1, <2>1
    <2>3. f[n + 1] = IF list[n + 1] \in kept THEN Append(f[n], list[n + 1]) ELSE f[n]
        BY <1>5, <2>1
    <2>4. g[n + 1] = IF more[n + 1] \in kept THEN Append(g[n], more[n + 1]) ELSE g[n]
        BY <1>6, <2>1
    <2> QED BY <2>1, <2>2, <2>3, <2>4
<1>9. g[N] = f[N]
    <2>1. Nat \subseteq P
        <3> HIDE DEF P
        <3> QED BY <1>7, <1>8, SetInduction
    <2> QED BY <1>1, <2>1
<1>10. g[N + 1] = IF x \in kept THEN Append(g[N], x) ELSE g[N]
    <2>1. N + 1 \in 1 .. N + 1 /\ (N + 1) - 1 = N
        BY <1>1
    <2> QED BY <1>1, <1>6, <2>1
<1>11. Only(more, kept) = IF x \in kept THEN Append(Only(list, kept), x) ELSE Only(list, kept)
    BY <1>5, <1>6, <1>9, <1>10
<1> QED BY <1>11 DEF more

\* To filter twice is to filter for both.
LEMMA OnlyTwice ==
    ASSUME NEW S, NEW list \in Seq(S), NEW A, NEW B
    PROVE  Only(Only(list, A), B) = Only(list, A \cap B)
<1> DEFINE N == Len(list)
<1>1. N \in Nat /\ \A n \in 1 .. N : list[n] \in S
    BY LenProperties
<1>2. PICK f : KeptUpto(S, list, A, f)
    BY OnlyByPrefix
<1>3. PICK g : KeptUpto(S, list, A \cap B, g)
    BY OnlyByPrefix
<1>4. /\ f \in [0 .. N -> Seq(S)] /\ Only(list, A) = f[N] /\ f[0] = << >>
      /\ \A n \in 1 .. N : f[n] = IF list[n] \in A THEN Append(f[n - 1], list[n]) ELSE f[n - 1]
    BY <1>2 DEF KeptUpto
<1>5. /\ g \in [0 .. N -> Seq(S)] /\ Only(list, A \cap B) = g[N] /\ g[0] = << >>
      /\ \A n \in 1 .. N :
            g[n] = IF list[n] \in A \cap B THEN Append(g[n - 1], list[n]) ELSE g[n - 1]
    BY <1>3 DEF KeptUpto
<1> DEFINE P == {n \in Nat : n <= N => Only(f[n], B) = g[n]}
<1>6. 0 \in P
    BY <1>4, <1>5, OnlyEmpty
<1>7. ASSUME NEW n \in Nat, n \in P PROVE n + 1 \in P
    <2> SUFFICES ASSUME n + 1 <= N PROVE Only(f[n + 1], B) = g[n + 1]
        OBVIOUS
    <2>1. /\ Only(f[n], B) = g[n] /\ n + 1 \in 1 .. N /\ (n + 1) - 1 = n
          /\ n \in 0 .. N
        BY <1>1, <1>7
    <2>2. f[n] \in Seq(S) /\ list[n + 1] \in S
        BY <1>1, <1>4, <2>1
    <2>3. f[n + 1] = IF list[n + 1] \in A THEN Append(f[n], list[n + 1]) ELSE f[n]
        BY <1>4, <2>1
    <2>4. g[n + 1] = IF list[n + 1] \in A \cap B THEN Append(g[n], list[n + 1]) ELSE g[n]
        BY <1>5, <2>1
    <2>5. Only(Append(f[n], list[n + 1]), B) =
             IF list[n + 1] \in B THEN Append(Only(f[n], B), list[n + 1]) ELSE Only(f[n], B)
        <3>1. \A l \in Seq(S), x \in S :
                 Only(Append(l, x), B) = IF x \in B THEN Append(Only(l, B), x) ELSE Only(l, B)
            BY OnlyAppend
        <3> HIDE DEF P
        <3> QED BY <2>2, <3>1
    <2>6. CASE list[n + 1] \notin A
        BY <2>1, <2>3, <2>4, <2>6
    <2>7. CASE list[n + 1] \in A
        BY <2>1, <2>3, <2>4, <2>5, <2>7
    <2> QED BY <2>6, <2>7
<1>8. Nat \subseteq P
    <2> HIDE DEF P
    <2> QED BY <1>6, <1>7, SetInduction
<1>9. N <= N => Only(f[N], B) = g[N]
    BY <1>1, <1>8
<1> QED BY <1>1, <1>4, <1>5, <1>9

\* Only keeps elements of the list, those that pass and no others.
LEMMA OnlyElements ==
    ASSUME NEW S, NEW list \in Seq(S), NEW kept
    PROVE  /\ Only(list, kept) \in Seq(S)
           /\ ToSet(Only(list, kept)) = ToSet(list) \cap kept
<1> DEFINE N == Len(list)
<1>1. N \in Nat /\ (\A n \in 1 .. N : list[n] \in S) /\ DOMAIN list = 1 .. N
    BY LenProperties
<1>2. PICK f : KeptUpto(S, list, kept, f)
    BY OnlyByPrefix
<1>3. Only(list, kept) \in Seq(S)
    BY <1>1, <1>2 DEF KeptUpto
<1>4. PICK m, p : KeptAt(list, kept, list, kept, m, p)
    BY OnlyByPlaces
<1>5. /\ m \in Nat /\ p \in [1 .. m -> 1 .. N]
      /\ \A k \in 1 .. N : list[k] \in kept <=> \E a \in 1 .. m : p[a] = k
      /\ Only(list, kept) = [a \in 1 .. m |-> list[p[a]]]
    BY <1>4 DEF KeptAt
<1>6. ASSUME NEW x \in ToSet(Only(list, kept)) PROVE x \in ToSet(list) \cap kept
    <2>1. PICK a \in 1 .. m : x = list[p[a]]
        BY <1>5, <1>6 DEF ToSet
    <2>2. p[a] \in 1 .. N
        BY <1>5
    <2> QED BY <1>1, <1>5, <2>1, <2>2 DEF ToSet
<1>7. ASSUME NEW x \in ToSet(list) \cap kept PROVE x \in ToSet(Only(list, kept))
    <2>1. PICK k \in 1 .. N : x = list[k]
        BY <1>1, <1>7 DEF ToSet
    <2>2. PICK a \in 1 .. m : p[a] = k
        BY <1>5, <1>7, <2>1
    <2> QED BY <1>5, <2>1, <2>2 DEF ToSet
<1> QED BY <1>3, <1>6, <1>7

\* SetToSeq lists a finite set, each element once.
LEMMA SetToSeqLists ==
    ASSUME NEW S, IsFiniteSet(S)
    PROVE  /\ SetToSeq(S) \in Seq(S)
           /\ ToSet(SetToSeq(S)) = S
           /\ \A k, l \in DOMAIN SetToSeq(S) : SetToSeq(S)[k] = SetToSeq(S)[l] => k = l
<1> DEFINE n == Cardinality(S)
<1>1. n \in Nat /\ ExistsBijection(1 .. n, S)
    BY FS_CardinalityType
<1>2. PICK b : b \in Bijection(1 .. n, S)
    BY <1>1 DEF ExistsBijection
<1>3. b \in [1 .. n -> S] /\ IsInjective(b)
    BY <1>2 DEF Bijection, Injection, IsInjective
<1> DEFINE f == SetToSeq(S)
<1>4. f \in [1 .. n -> S] /\ IsInjective(f)
    BY <1>3 DEF SetToSeq
<1> HIDE DEF f
<1>5. f \in Seq(S)
    BY <1>1, <1>4, IsASeq
<1>6. \A k, l \in DOMAIN f : f[k] = f[l] => k = l
    BY <1>4 DEF IsInjective
<1>7. ToSet(f) \subseteq S
    BY <1>4 DEF ToSet
<1>8. IsFiniteSet(ToSet(f)) /\ Cardinality(ToSet(f)) = n
    <2>1. f \in Bijection(1 .. n, ToSet(f))
        BY <1>4, <1>6 DEF Bijection, Injection, Surjection, IsInjective, ToSet
    <2>2. ExistsBijection(1 .. n, ToSet(f))
        BY <2>1 DEF ExistsBijection
    <2> QED BY <1>1, <1>7, <2>2, FS_CountingElements, FS_Subset
<1>9. ToSet(f) = S
    BY <1>7, <1>8, FS_Subset
<1> QED BY <1>5, <1>6, <1>9 DEF f

\* A set of numbers that is not empty and has a bound has a greatest one.
LEMMA Greatest ==
    ASSUME NEW N \in Nat, NEW T \in SUBSET (0 .. N), T # {}
    PROVE  \E k \in T : \A l \in T : l <= k
<1> DEFINE bounds == {n \in Nat : \A l \in T : l <= n}
           P == {n \in Nat : n \in bounds => \E k \in T : \A l \in T : l <= k}
<1>1. 0 \in P
    <2>1. SUFFICES ASSUME \A l \in T : l <= 0 PROVE \E k \in T : \A l \in T : l <= k
        OBVIOUS
    <2>2. PICK k \in T : TRUE
        OBVIOUS
    <2>3. k = 0
        BY <2>1
    <2> QED BY <2>1, <2>3
<1>2. ASSUME NEW n \in Nat, n \in P PROVE n + 1 \in P
    <2>1. SUFFICES ASSUME \A l \in T : l <= n + 1 PROVE \E k \in T : \A l \in T : l <= k
        OBVIOUS
    <2>2. CASE n + 1 \in T
        BY <2>1, <2>2
    <2>3. CASE n + 1 \notin T
        <3>1. \A l \in T : l <= n
            BY <2>1, <2>3
        <3> QED BY <1>2, <3>1
    <2> QED BY <2>2, <2>3
<1>3. Nat \subseteq P
    <2> HIDE DEF P
    <2> QED BY <1>1, <1>2, SetInduction
<1> QED BY <1>3

\* It keeps a list that passes as a whole.
LEMMA OnlyAll ==
    ASSUME NEW S, NEW list \in Seq(S), NEW kept, S \subseteq kept
    PROVE  Only(list, kept) = list
<1> DEFINE N == Len(list)
<1>1. N \in Nat /\ DOMAIN list = 1 .. N /\ \A n \in 1 .. N : list[n] \in S
    BY LenProperties
<1>2. PICK f : KeptUpto(S, list, kept, f)
    BY OnlyByPrefix
<1>3. /\ f \in [0 .. N -> Seq(S)] /\ Only(list, kept) = f[N] /\ f[0] = << >>
      /\ \A n \in 1 .. N : f[n] = Append(f[n - 1], list[n])
    BY <1>1, <1>2 DEF KeptUpto
<1> HIDE DEF N
<1> DEFINE P == {n \in Nat : n <= N => Len(f[n]) = n /\ \A k \in 1 .. n : f[n][k] = list[k]}
<1>4. 0 \in P
    BY <1>1, <1>3, EmptySeq
<1>5. \A n \in Nat : n \in P => n + 1 \in P
    <2> SUFFICES ASSUME NEW n \in Nat, n \in P, n + 1 <= N PROVE n + 1 \in P
        OBVIOUS
    <2>1. Len(f[n]) = n /\ \A k \in 1 .. n : f[n][k] = list[k]
        BY <1>1
    <2>2. f[n + 1] = Append(f[n], list[n + 1]) /\ f[n] \in Seq(S) /\ list[n + 1] \in S
        <3>1. n + 1 \in 1 .. N /\ n \in 0 .. N /\ (n + 1) - 1 = n
            BY <1>1
        <3> QED BY <1>1, <1>3, <3>1
    <2>3. /\ Len(f[n + 1]) = n + 1 /\ f[n + 1][n + 1] = list[n + 1]
          /\ \A k \in 1 .. n : f[n + 1][k] = list[k]
        BY <2>1, <2>2, AppendProperties
    <2> QED BY <2>3
<1> HIDE DEF P
<1>6. N \in P
    BY <1>1, <1>4, <1>5, SetInduction
<1>7. Len(f[N]) = N /\ (\A k \in 1 .. N : f[N][k] = list[k]) /\ f[N] \in Seq(S)
    BY <1>1, <1>3, <1>6 DEF P
<1> QED BY <1>1, <1>3, <1>7, SeqEqual DEF N

=============================================================================
