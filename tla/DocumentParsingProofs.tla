------------------------ MODULE DocumentParsingProofs ------------------------
(***************************************************************************)
(* Theorems of DocumentParsing, for any files, splitters, embedders and    *)
(* failures of the parent store.                                           *)
(***************************************************************************)
EXTENDS DocumentParsing, SequenceTheorems, FiniteSetTheorems, WellFoundedInduction, TLAPS

-----------------------------------------------------------------------------
(* Induction over the positions of a sequence, with the property as a set:  *)
(* there is no least position without it.                                  *)
LEMMA LeastOf ==
    ASSUME NEW P, P \subseteq Nat, P # {}
    PROVE  \E n \in P : \A m \in P : n <= m
<1>1. \E n \in P : \A m \in P : ~(<<m, n>> \in OpToRel(<, Nat))
    BY NatLessThanWellFounded, WFMin, Zenon
<1>2. PICK n \in P : \A m \in P : ~(<<m, n>> \in OpToRel(<, Nat)) BY <1>1, Zenon
<1>3. \A m \in P : ~(m < n) BY <1>2, Zenon DEF OpToRel
<1>4. \A m \in P : n <= m BY <1>3
<1> QED BY <1>4

LEMMA UpTo ==
    ASSUME NEW n \in Nat, NEW P, 0 \in P, \A i \in 1 .. n : i - 1 \in P => i \in P
    PROVE  \A i \in 0 .. n : i \in P
<1> DEFINE Q == {i \in 0 .. n : i \notin P}
<1> SUFFICES ASSUME Q # {} PROVE FALSE OBVIOUS
<1>1. PICK i \in Q : \A j \in Q : i <= j
    <2>1. Q \subseteq Nat OBVIOUS
    <2> HIDE DEF Q
    <2> QED BY <2>1, LeastOf
<1>2. i \in 1 .. n OBVIOUS
<1>3. i - 1 \in 0 .. n /\ ~(i - 1 \in Q) BY <1>1, <1>2
<1> QED BY <1>2, <1>3

(* A recursion over the positions that never leaves T has a solution.      *)
Solves(f, n, T, base, step) ==
    f \in [0 .. n -> T] /\ f[0] = base /\ \A i \in 1 .. n : f[i] = step[<<i, f[i - 1]>>]

LEMMA Recursion ==
    ASSUME NEW n \in Nat, NEW T, NEW base \in T, NEW step \in [(1 .. n) \X T -> T]
    PROVE  \E f : Solves(f, n, T, base, step)
<1> DEFINE Good(f, k) ==
             /\ f \in [0 .. k -> T] /\ f[0] = base
             /\ \A i \in 1 .. k : f[i] = step[<<i, f[i - 1]>>]
           P == {k \in 0 .. n : \E f : Good(f, k)}
<1>1. 0 \in P
    <2>1. Good([i \in 0 .. 0 |-> base], 0) OBVIOUS
    <2>2. 0 \in 0 .. n OBVIOUS
    <2> HIDE DEF Good
    <2> QED BY <2>1, <2>2
<1>2. ASSUME NEW k \in 1 .. n, k - 1 \in P PROVE k \in P
    <2>1. PICK f : Good(f, k - 1) BY <1>2
    <2> DEFINE last == step[<<k, f[k - 1]>>]
               more == [i \in 0 .. k |-> IF i = k THEN last ELSE f[i]]
    <2>2. f[k - 1] \in T BY <2>1
    <2>3. last \in T BY <2>2
    <2> HIDE DEF last
    <2>4. more \in [0 .. k -> T] BY <2>1, <2>3
    <2>5. more[0] = base BY <2>1
    <2>6. \A i \in 0 .. k - 1 : more[i] = f[i] OBVIOUS
    <2>7. more[k] = last OBVIOUS
    <2> HIDE DEF more
    <2>8. ASSUME NEW i \in 1 .. k PROVE more[i] = step[<<i, more[i - 1]>>]
        <3>1. more[i - 1] = f[i - 1] BY <2>6
        <3>2. CASE i = k BY <2>7, <3>1, <3>2 DEF last
        <3>3. CASE i # k
            <4>1. i \in 1 .. k - 1 BY <3>3
            <4> QED BY <2>1, <2>6, <3>1, <4>1
        <3> QED BY <3>2, <3>3
    <2>9. Good(more, k) BY <2>4, <2>5, <2>8
    <2> HIDE DEF Good
    <2> QED BY <2>9
<1>3. \A k \in 1 .. n : k - 1 \in P => k \in P BY <1>2
<1>4. n \in P
    <2> HIDE DEF P
    <2> QED BY <1>1, <1>3, UpTo
<1>5. PICK f : Good(f, n) BY <1>4
<1> QED BY <1>5 DEF Solves

-----------------------------------------------------------------------------
(* What is sifted from a sequence stands at increasing positions.          *)
Increasing(at) == \A a, b \in DOMAIN at : a < b => at[a] < at[b]

Sifts(kept, C, s, P) ==
    /\ kept \in [0 .. Len(s) -> Seq(C)] /\ kept[0] = <<>>
    /\ \A n \in 1 .. Len(s) :
          kept[n] = IF n \in P THEN Append(kept[n - 1], s[n]) ELSE kept[n - 1]
    /\ Sift(s, P) = kept[Len(s)]

LEMMA SiftUnfolds ==
    ASSUME NEW C, NEW s \in Seq(C), NEW P
    PROVE  \E kept : Sifts(kept, C, s, P)
<1> DEFINE Rhs(kept, n) ==
             IF n = 0 THEN <<>> ELSE IF n \in P THEN Append(kept[n - 1], s[n]) ELSE kept[n - 1]
           Follows(kept) == kept = [n \in 0 .. Len(s) |-> Rhs(kept, n)]
           sifted == CHOOSE kept : Follows(kept)
           step == [x \in (1 .. Len(s)) \X Seq(C) |->
                      IF x[1] \in P THEN Append(x[2], s[x[1]]) ELSE x[2]]
<1>1. Sift(s, P) = sifted[Len(s)] BY DEF Sift
<1>2. step \in [(1 .. Len(s)) \X Seq(C) -> Seq(C)] OBVIOUS
<1>3. PICK f : Solves(f, Len(s), Seq(C), <<>>, step)
    <2>1. <<>> \in Seq(C) /\ Len(s) \in Nat OBVIOUS
    <2> HIDE DEF step
    <2> QED BY <1>2, <2>1, Recursion
<1>4. \A n \in 1 .. Len(s) : f[n] = Rhs(f, n)
    <2> SUFFICES ASSUME NEW n \in 1 .. Len(s) PROVE f[n] = Rhs(f, n) OBVIOUS
    <2>1. f[n - 1] \in Seq(C) BY <1>3 DEF Solves
    <2>2. f[n] = step[<<n, f[n - 1]>>] BY <1>3 DEF Solves
    <2> QED BY <2>1, <2>2
<1>5. \E kept : Follows(kept)
    <2>1. \A n \in 0 .. Len(s) : f[n] = Rhs(f, n)
        <3>1. \A n \in 0 .. Len(s) : n = 0 \/ n \in 1 .. Len(s) OBVIOUS
        <3>2. f[0] = Rhs(f, 0) BY <1>3 DEF Solves
        <3> HIDE DEF Rhs
        <3> QED BY <1>4, <3>1, <3>2
    <2> HIDE DEF Rhs
    <2>2. f = [n \in 0 .. Len(s) |-> Rhs(f, n)] BY <1>3, <2>1 DEF Solves
    <2> QED BY <2>2
<1>6. \A n \in 0 .. Len(s) : sifted[n] = Rhs(sifted, n) /\ DOMAIN sifted = 0 .. Len(s)
    <2>1. Follows(sifted)
        <3> HIDE DEF Follows
        <3> QED BY <1>5
    <2> HIDE DEF Rhs, sifted
    <2> QED BY <2>1
<1> HIDE DEF sifted
<1>7. \A n \in 0 .. Len(s) : sifted[n] \in Seq(C)
    <2> DEFINE Q == {n \in 0 .. Len(s) : sifted[n] \in Seq(C)}
    <2>1. 0 \in Q
        <3>1. 0 \in 0 .. Len(s) /\ sifted[0] = <<>> /\ <<>> \in Seq(C) BY <1>6
        <3> QED BY <3>1
    <2>2. ASSUME NEW n \in 1 .. Len(s), n - 1 \in Q PROVE n \in Q
        <3>1. /\ n \in 0 .. Len(s) /\ sifted[n - 1] \in Seq(C) /\ s[n] \in C
              /\ sifted[n] = IF n \in P THEN Append(sifted[n - 1], s[n]) ELSE sifted[n - 1]
            BY <1>6, <2>2
        <3>2. Append(sifted[n - 1], s[n]) \in Seq(C) BY <3>1
        <3> QED BY <3>1, <3>2
    <2>3. Len(s) \in Nat OBVIOUS
    <2>4. \A n \in 1 .. Len(s) : n - 1 \in Q => n \in Q BY <2>2
    <2> HIDE DEF Q
    <2>5. \A n \in 0 .. Len(s) : n \in Q BY <2>1, <2>3, <2>4, UpTo
    <2> QED BY <2>5 DEF Q
<1>8. sifted = [n \in 0 .. Len(s) |-> sifted[n]]
    <2>1. sifted = [n \in 0 .. Len(s) |-> Rhs(sifted, n)]
        <3>1. Follows(sifted)
            <4> HIDE DEF Follows
            <4> QED BY <1>5 DEF sifted
        <3> QED BY <3>1
    <2> HIDE DEF Rhs
    <2> QED BY <1>6, <2>1
<1>9. sifted \in [0 .. Len(s) -> Seq(C)] BY <1>7, <1>8
<1>10. sifted[0] = <<>> BY <1>6
<1>11. \A n \in 1 .. Len(s) :
          sifted[n] = IF n \in P THEN Append(sifted[n - 1], s[n]) ELSE sifted[n - 1]
    BY <1>6
<1>12. Sifts(sifted, C, s, P) BY <1>1, <1>9, <1>10, <1>11 DEF Sifts
<1> QED BY <1>12

Marks(at, s, P) ==
    /\ at \in Seq(1 .. Len(s)) /\ Increasing(at)
    /\ \A i \in 1 .. Len(s) : i \in P <=> \E k \in DOMAIN at : at[k] = i
    /\ Sift(s, P) = [k \in 1 .. Len(at) |-> s[at[k]]]

LEMMA SiftPositions ==
    ASSUME NEW C, NEW s \in Seq(C), NEW P
    PROVE  \E at : Marks(at, s, P)
<1>0. PICK kept : Sifts(kept, C, s, P) BY SiftUnfolds
<1>1. /\ kept \in [0 .. Len(s) -> Seq(C)] /\ kept[0] = <<>>
      /\ \A n \in 1 .. Len(s) :
            kept[n] = IF n \in P THEN Append(kept[n - 1], s[n]) ELSE kept[n - 1]
      /\ Sift(s, P) = kept[Len(s)]
    BY <1>0 DEF Sifts
<1> DEFINE Good(at, n) ==
             /\ at \in Seq(1 .. Len(s)) /\ \A k \in 1 .. Len(at) : at[k] <= n
             /\ Increasing(at)
             /\ \A i \in 1 .. n : i \in P <=> \E k \in 1 .. Len(at) : at[k] = i
             /\ kept[n] = [k \in 1 .. Len(at) |-> s[at[k]]]
           Q == {n \in 0 .. Len(s) : \E at : Good(at, n)}
<1>2. 0 \in Q
    <2>1. Good(<<>>, 0)
        <3>1. kept[0] = [k \in 1 .. 0 |-> s[<<>>[k]]] BY <1>1
        <3>2. Len(<<>>) = 0 /\ <<>> \in Seq(1 .. Len(s)) OBVIOUS
        <3> QED BY <3>1, <3>2 DEF Increasing
    <2> HIDE DEF Good
    <2> QED BY <2>1
<1>3. ASSUME NEW n \in 1 .. Len(s), n - 1 \in Q PROVE n \in Q
    <2>1. PICK at : Good(at, n - 1) BY <1>3
    <2>2. CASE n \notin P
        <3>1. kept[n] = kept[n - 1] BY <1>1, <2>2
        <3>2. \A k \in 1 .. Len(at) : at[k] <= n - 1 /\ at[k] # n /\ at[k] <= n BY <2>1
        <3>3. \A i \in 1 .. n : i \in P <=> \E k \in 1 .. Len(at) : at[k] = i
            <4> SUFFICES ASSUME NEW i \in 1 .. n
                         PROVE  i \in P <=> \E k \in 1 .. Len(at) : at[k] = i OBVIOUS
            <4>1. CASE i = n BY <2>2, <3>2, <4>1
            <4>2. CASE i \in 1 .. n - 1 BY <2>1, <4>2
            <4> QED BY <4>1, <4>2
        <3>4. Good(at, n) BY <2>1, <3>1, <3>2, <3>3
        <3> HIDE DEF Good
        <3> QED BY <3>4
    <2>3. CASE n \in P
        <3> DEFINE more == Append(at, n)
        <3>1. kept[n] = Append(kept[n - 1], s[n]) BY <1>1, <2>3
        <3>2. /\ more \in Seq(1 .. Len(s)) /\ Len(more) = Len(at) + 1 /\ more[Len(at) + 1] = n
              /\ \A k \in 1 .. Len(at) : more[k] = at[k]
            BY <2>1
        <3> HIDE DEF more
        <3>3. \A k \in 1 .. Len(at) : at[k] <= n - 1 /\ at[k] # n /\ at[k] <= n BY <2>1
        <3>4. \A k \in 1 .. Len(more) : k \in 1 .. Len(at) \/ k = Len(at) + 1 BY <2>1, <3>2
        <3>5. \A k \in 1 .. Len(more) : more[k] <= n BY <3>2, <3>3, <3>4
        <3>6. Increasing(more)
            <4> SUFFICES ASSUME NEW a \in DOMAIN more, NEW b \in DOMAIN more, a < b
                         PROVE  more[a] < more[b]
                BY DEF Increasing
            <4>0. a \in 1 .. Len(more) /\ b \in 1 .. Len(more) BY <3>2
            <4>1. a \in 1 .. Len(at) BY <2>1, <3>2, <4>0
            <4>2. CASE b \in 1 .. Len(at)
                <5>1. at[a] < at[b] BY <2>1, <4>1, <4>2 DEF Increasing
                <5> QED BY <3>2, <4>1, <4>2, <5>1
            <4>3. CASE b = Len(at) + 1
                <5>1. at[a] <= n - 1 /\ more[a] = at[a] /\ more[b] = n /\ at[a] \in Nat
                    BY <2>1, <3>2, <3>3, <4>1, <4>3
                <5> QED BY <5>1
            <4> QED BY <3>4, <4>0, <4>2, <4>3
        <3>7. \A i \in 1 .. n : i \in P <=> \E k \in 1 .. Len(more) : more[k] = i
            <4> SUFFICES ASSUME NEW i \in 1 .. n
                         PROVE  i \in P <=> \E k \in 1 .. Len(more) : more[k] = i OBVIOUS
            <4>0. Len(at) \in Nat BY <2>1
            <4>1. CASE i = n
                <5>1. Len(at) + 1 \in 1 .. Len(more) BY <3>2, <4>0
                <5> QED BY <2>3, <3>2, <4>1, <5>1
            <4>2. CASE i \in 1 .. n - 1
                <5>1. i \in P <=> \E k \in 1 .. Len(at) : at[k] = i BY <2>1, <4>2
                <5>2. \A k \in 1 .. Len(at) : k \in 1 .. Len(more) BY <3>2, <4>0
                <5>3. \A k \in 1 .. Len(more) : more[k] = i => k \in 1 .. Len(at) BY <3>2, <3>4, <4>2
                <5> QED BY <3>2, <5>1, <5>2, <5>3
            <4> QED BY <4>1, <4>2
        <3>8. kept[n] = [k \in 1 .. Len(more) |-> s[more[k]]]
            <4>1. kept[n - 1] = [k \in 1 .. Len(at) |-> s[at[k]]] BY <2>1
            <4>2. kept[n - 1] \in Seq(C) /\ Len(kept[n - 1]) = Len(at) /\ s[n] \in C BY <2>1, <4>1
            <4>3. Len(kept[n]) = Len(at) + 1 /\ kept[n] \in Seq(C) BY <3>1, <4>2
            <4>4. ASSUME NEW k \in 1 .. Len(more) PROVE kept[n][k] = s[more[k]]
                <5>1. CASE k \in 1 .. Len(at)
                    <6>1. kept[n][k] = kept[n - 1][k] BY <3>1, <4>2, <5>1
                    <6> QED BY <3>2, <4>1, <5>1, <6>1
                <5>2. CASE k = Len(at) + 1 BY <3>1, <3>2, <4>2, <5>2
                <5> QED BY <3>4, <5>1, <5>2
            <4>5. kept[n] = [k \in 1 .. Len(more) |-> kept[n][k]]
                <5>1. kept[n] = [k \in 1 .. Len(kept[n]) |-> kept[n][k]] BY <4>3
                <5> QED BY <3>2, <4>3, <5>1
            <4> QED BY <4>4, <4>5
        <3>9. Good(more, n) BY <3>2, <3>5, <3>6, <3>7, <3>8
        <3> HIDE DEF Good
        <3> QED BY <3>9
    <2> QED BY <2>2, <2>3
<1>4. \A n \in 1 .. Len(s) : n - 1 \in Q => n \in Q BY <1>3
<1>5. Len(s) \in Q
    <2>1. Len(s) \in Nat /\ Len(s) \in 0 .. Len(s) OBVIOUS
    <2> HIDE DEF Q
    <2>2. \A n \in 0 .. Len(s) : n \in Q BY <1>2, <1>4, <2>1, UpTo
    <2> QED BY <2>1, <2>2
<1>6. PICK at : Good(at, Len(s)) BY <1>5
<1>7. DOMAIN at = 1 .. Len(at) BY <1>6
<1>8. Marks(at, s, P) BY <1>1, <1>6, <1>7 DEF Marks
<1> QED BY <1>8

LEMMA SiftType ==
    ASSUME NEW C, NEW s \in Seq(C), NEW P
    PROVE  Sift(s, P) \in Seq(C)
<1>1. PICK at : Marks(at, s, P) BY SiftPositions
<1>2. \A k \in 1 .. Len(at) : s[at[k]] \in C BY <1>1 DEF Marks
<1> QED BY <1>1, <1>2 DEF Marks

SiftedMembers(s, P) ==
    /\ \A k \in DOMAIN Sift(s, P) : \E i \in 1 .. Len(s) : i \in P /\ Sift(s, P)[k] = s[i]
    /\ \A i \in 1 .. Len(s) : i \in P => \E k \in DOMAIN Sift(s, P) : Sift(s, P)[k] = s[i]

LEMMA SiftMembers ==
    ASSUME NEW C, NEW s \in Seq(C), NEW P
    PROVE  SiftedMembers(s, P)
<1>1. PICK at : Marks(at, s, P) BY SiftPositions
<1>2. DOMAIN Sift(s, P) = DOMAIN at /\ \A k \in DOMAIN at : at[k] \in 1 .. Len(s) /\ Sift(s, P)[k] = s[at[k]]
    BY <1>1 DEF Marks
<1>3. \A i \in 1 .. Len(s) : i \in P <=> \E k \in DOMAIN at : at[k] = i BY <1>1 DEF Marks
<1> QED BY <1>2, <1>3 DEF SiftedMembers

(* Two increasing sequences of the same numbers are the same.              *)
LEMMA IncreasingPrefix ==
    ASSUME NEW a \in Seq(Nat), NEW b \in Seq(Nat), Increasing(a), Increasing(b),
           ToSet(a) = ToSet(b)
    PROVE  \A k \in 1 .. Len(a) : k \in 1 .. Len(b) /\ a[k] = b[k]
<1> DEFINE Q == {k \in 0 .. Len(a) : \A j \in 1 .. k : j \in 1 .. Len(b) /\ a[j] = b[j]}
<1>0. DOMAIN a = 1 .. Len(a) /\ DOMAIN b = 1 .. Len(b) /\ Len(a) \in Nat /\ Len(b) \in Nat OBVIOUS
<1>1. 0 \in Q BY <1>0
<1>2. ASSUME NEW k \in 1 .. Len(a), k - 1 \in Q PROVE k \in Q
    <2>1. \A j \in 1 .. k - 1 : j \in 1 .. Len(b) /\ a[j] = b[j] BY <1>2
    <2>2. PICK m \in 1 .. Len(b) : b[m] = a[k] BY <1>0 DEF ToSet
    <2>3. ~(m \in 1 .. k - 1)
        <3> SUFFICES ASSUME m \in 1 .. k - 1 PROVE FALSE OBVIOUS
        <3>1. a[m] = b[m] /\ m \in 1 .. Len(a) /\ m < k BY <2>1
        <3>2. a[m] < a[k] BY <1>0, <3>1 DEF Increasing
        <3> QED BY <2>2, <3>1, <3>2
    <2>4. k <= m /\ k \in 1 .. Len(b) BY <1>0, <2>3
    <2>5. b[k] <= a[k]
        <3>1. b[k] \in Nat /\ b[m] \in Nat BY <2>4
        <3>2. k < m => b[k] < b[m] BY <1>0, <2>4 DEF Increasing
        <3> QED BY <2>2, <2>4, <3>1, <3>2
    <2>6. PICK l \in 1 .. Len(a) : a[l] = b[k] BY <1>0, <2>4 DEF ToSet
    <2>7. ~(l \in 1 .. k - 1)
        <3> SUFFICES ASSUME l \in 1 .. k - 1 PROVE FALSE OBVIOUS
        <3>1. a[l] = b[l] /\ l \in 1 .. Len(b) /\ l < k BY <2>1
        <3>2. b[l] < b[k] BY <1>0, <2>4, <3>1 DEF Increasing
        <3> QED BY <2>6, <3>1, <3>2
    <2>8. k <= l BY <2>7
    <2>9. a[k] <= b[k]
        <3>1. a[k] \in Nat /\ a[l] \in Nat OBVIOUS
        <3>2. k < l => a[k] < a[l] BY <1>0 DEF Increasing
        <3> QED BY <2>6, <2>8, <3>1, <3>2
    <2>10. a[k] = b[k] BY <2>4, <2>5, <2>9
    <2>11. \A j \in 1 .. k : j \in 1 .. k - 1 \/ j = k OBVIOUS
    <2> QED BY <2>1, <2>4, <2>10, <2>11
<1>3. Len(a) \in Q
    <2>1. \A k \in 1 .. Len(a) : k - 1 \in Q => k \in Q BY <1>2
    <2> HIDE DEF Q
    <2>2. \A k \in 0 .. Len(a) : k \in Q BY <1>0, <1>1, <2>1, UpTo
    <2> QED BY <1>0, <2>2
<1> QED BY <1>3

LEMMA SameIncreasing ==
    ASSUME NEW a \in Seq(Nat), NEW b \in Seq(Nat), Increasing(a), Increasing(b),
           ToSet(a) = ToSet(b)
    PROVE  a = b
<1>1. \A k \in 1 .. Len(a) : k \in 1 .. Len(b) /\ a[k] = b[k] BY IncreasingPrefix
<1>2. \A k \in 1 .. Len(b) : k \in 1 .. Len(a) BY IncreasingPrefix
<1>3. Len(a) = Len(b)
    <2>1. Len(a) \in Nat /\ Len(b) \in Nat OBVIOUS
    <2>2. Len(a) <= Len(b) BY <1>1, <2>1
    <2>3. Len(b) <= Len(a) BY <1>2, <2>1
    <2> QED BY <2>1, <2>2, <2>3
<1> QED BY <1>1, <1>3

-----------------------------------------------------------------------------
(* A fold from the left is a recursion over the positions.                 *)
LEMMA Greatest ==
    ASSUME NEW n \in Nat, NEW S \in SUBSET (1 .. n), S # {}
    PROVE  Max(S) \in S /\ \A y \in S : Max(S) >= y
<1> DEFINE P == {n - x : x \in S}
<1>1. P \subseteq Nat /\ P # {} OBVIOUS
<1>2. \E m \in P : \A k \in P : m <= k
    <2> HIDE DEF P
    <2> QED BY <1>1, LeastOf
<1>3. PICK m \in P : \A k \in P : m <= k BY <1>2
<1>4. PICK x \in S : m = n - x OBVIOUS
<1>5. \A y \in S : x >= y
    <2> SUFFICES ASSUME NEW y \in S PROVE x >= y OBVIOUS
    <2>1. m <= n - y BY <1>3
    <2>2. x \in 1 .. n /\ y \in 1 .. n OBVIOUS
    <2> QED BY <1>4, <2>1, <2>2
<1>6. \E z \in S : \A y \in S : z >= y BY <1>5
<1> QED BY <1>6 DEF Max

Tables(table, n, T, base, step) ==
    /\ table \in [SUBSET (1 .. n) -> T] /\ table[{}] = base
    /\ \A s \in SUBSET (1 .. n) : s # {} => table[s] = step[<<Max(s), table[s \ {Max(s)}]>>]

LEMMA TableExists ==
    ASSUME NEW n \in Nat, NEW T, NEW base \in T, NEW step \in [(1 .. n) \X T -> T]
    PROVE  \E table : Tables(table, n, T, base, step)
<1> DEFINE S == SUBSET (1 .. n)
           With(k, table) == [s \in S |-> IF k \in s THEN step[<<k, table[s \ {k}]>>] ELSE table[s]]
           more == [x \in (1 .. n) \X [S -> T] |-> With(x[1], x[2])]
           start == [s \in S |-> base]
<1>1. start \in [S -> T] OBVIOUS
<1>2. ASSUME NEW k \in 1 .. n, NEW table \in [S -> T] PROVE With(k, table) \in [S -> T]
    <2>1. \A s \in S : s \ {k} \in S /\ table[s \ {k}] \in T /\ table[s] \in T OBVIOUS
    <2>2. \A s \in S : step[<<k, table[s \ {k}]>>] \in T BY <2>1
    <2> HIDE DEF S
    <2> QED BY <2>1, <2>2
<1>3. more \in [(1 .. n) \X [S -> T] -> [S -> T]]
    <2> HIDE DEF With, S
    <2> QED BY <1>2
<1>4. PICK g : Solves(g, n, [S -> T], start, more)
    <2> HIDE DEF more, start, S
    <2> QED BY <1>1, <1>3, Recursion
<1>5. \A k \in 0 .. n : g[k] \in [S -> T] BY <1>4 DEF Solves
<1>6. \A k \in 1 .. n : g[k] = With(k, g[k - 1])
    <2> SUFFICES ASSUME NEW k \in 1 .. n PROVE g[k] = With(k, g[k - 1]) OBVIOUS
    <2>1. g[k] = more[<<k, g[k - 1]>>] BY <1>4 DEF Solves
    <2>2. g[k - 1] \in [S -> T]
        <3>1. k - 1 \in 0 .. n OBVIOUS
        <3> HIDE DEF S
        <3> QED BY <1>5, <3>1
    <2> HIDE DEF With, S
    <2> QED BY <2>1, <2>2
<1> HIDE DEF more
<1> DEFINE Q == {k \in 0 .. n : /\ g[k][{}] = base
                                /\ \A s \in SUBSET (1 .. k) :
                                     s # {} => g[k][s] = step[<<Max(s), g[k][s \ {Max(s)}]>>]}
<1>7. 0 \in Q
    <2>1. g[0][{}] = base BY <1>4 DEF Solves
    <2>2. \A s \in SUBSET (1 .. 0) : s = {} OBVIOUS
    <2>3. 0 \in 0 .. n OBVIOUS
    <2> QED BY <2>1, <2>2, <2>3
<1>8. ASSUME NEW k \in 1 .. n, k - 1 \in Q PROVE k \in Q
    <2>1. \A s \in S : g[k][s] = IF k \in s THEN step[<<k, g[k - 1][s \ {k}]>>] ELSE g[k - 1][s]
        <3>1. g[k] = With(k, g[k - 1]) BY <1>6
        <3> HIDE DEF S
        <3> QED BY <3>1
    <2>2. g[k][{}] = base BY <1>8, <2>1
    <2>3. ASSUME NEW s \in SUBSET (1 .. k), s # {}
          PROVE  g[k][s] = step[<<Max(s), g[k][s \ {Max(s)}]>>]
        <3>0. s \in S /\ s \ {Max(s)} \in S
            <4>1. 1 .. k \subseteq 1 .. n OBVIOUS
            <4> QED BY <4>1
        <3>1. Max(s) \in s /\ \A y \in s : Max(s) >= y
            <4>1. k \in Nat OBVIOUS
            <4> QED BY <2>3, <4>1, Greatest
        <3>2. CASE k \in s
            <4>1. Max(s) = k
                <5>1. Max(s) >= k /\ Max(s) \in 1 .. k BY <3>1, <3>2
                <5> QED BY <5>1
            <4>2. k \notin s \ {k} /\ s \ {k} \in S BY <3>0
            <4>3. g[k][s \ {k}] = g[k - 1][s \ {k}]
                <5> HIDE DEF S
                <5> QED BY <2>1, <4>2
            <4>4. g[k][s] = step[<<k, g[k - 1][s \ {k}]>>]
                <5> HIDE DEF S
                <5> QED BY <2>1, <3>0, <3>2
            <4> QED BY <4>1, <4>3, <4>4
        <3>3. CASE k \notin s
            <4>1. s \in SUBSET (1 .. k - 1) BY <3>3
            <4>2. g[k - 1][s] = step[<<Max(s), g[k - 1][s \ {Max(s)}]>>] BY <1>8, <2>3, <4>1
            <4>3. g[k][s] = g[k - 1][s]
                <5> HIDE DEF S
                <5> QED BY <2>1, <3>0, <3>3
            <4>4. g[k][s \ {Max(s)}] = g[k - 1][s \ {Max(s)}]
                <5>1. k \notin s \ {Max(s)} BY <3>3
                <5> HIDE DEF S
                <5> QED BY <2>1, <3>0, <5>1
            <4> QED BY <4>2, <4>3, <4>4
        <3> QED BY <3>2, <3>3
    <2> QED BY <2>2, <2>3
<1>9. n \in Q
    <2>1. \A k \in 1 .. n : k - 1 \in Q => k \in Q BY <1>8
    <2> HIDE DEF Q
    <2>2. \A k \in 0 .. n : k \in Q BY <1>7, <2>1, UpTo
    <2> QED BY <2>2
<1>10. Tables(g[n], n, T, base, step)
    <2>1. g[n] \in [S -> T]
        <3> HIDE DEF S
        <3> QED BY <1>5
    <2> QED BY <1>9, <2>1 DEF Tables
<1> QED BY <1>10

Agrees(table, n, T, base, step) ==
    /\ table[{}] = base
    /\ \A s \in SUBSET (1 .. n) : s # {} /\ table[s \ {Max(s)}] \in T =>
           table[s] = step[<<Max(s), table[s \ {Max(s)}]>>]

PartialFolds(table, n) == [k \in 0 .. n |-> table[1 .. k]]

LEMMA TableSolves ==
    ASSUME NEW n \in Nat, NEW T, NEW base \in T, NEW step \in [(1 .. n) \X T -> T],
           NEW table, Agrees(table, n, T, base, step)
    PROVE  Solves(PartialFolds(table, n), n, T, base, step)
<1> DEFINE f == PartialFolds(table, n)
           Q == {k \in 0 .. n : table[1 .. k] \in T}
<1>0. f = [k \in 0 .. n |-> table[1 .. k]] BY DEF PartialFolds
<1>1. 1 .. 0 = {} /\ table[{}] = base BY DEF Agrees
<1>2. ASSUME NEW k \in 1 .. n, table[1 .. k - 1] \in T
      PROVE  table[1 .. k] = step[<<k, table[1 .. k - 1]>>] /\ table[1 .. k] \in T
    <2>1. 1 .. k \in SUBSET (1 .. n) /\ 1 .. k # {} /\ k \in 1 .. k OBVIOUS
    <2>2. Max(1 .. k) = k
        <3>1. Max(1 .. k) \in 1 .. k /\ \A y \in 1 .. k : Max(1 .. k) >= y BY <2>1, Greatest
        <3> QED BY <2>1, <3>1
    <2>3. (1 .. k) \ {k} = 1 .. k - 1 OBVIOUS
    <2>4. table[1 .. k] = step[<<k, table[1 .. k - 1]>>] BY <1>2, <2>1, <2>2, <2>3 DEF Agrees
    <2> QED BY <1>2, <2>4
<1>3. \A k \in 0 .. n : k \in Q
    <2>1. 0 \in Q BY <1>1
    <2>2. ASSUME NEW k \in 1 .. n, k - 1 \in Q PROVE k \in Q
        <3>1. table[1 .. k - 1] \in T BY <2>2
        <3>2. table[1 .. k] \in T BY <1>2, <3>1
        <3>3. k \in 0 .. n OBVIOUS
        <3> QED BY <3>2, <3>3
    <2>3. \A k \in 1 .. n : k - 1 \in Q => k \in Q BY <2>2
    <2> HIDE DEF Q
    <2> QED BY <2>1, <2>3, UpTo
<1>4. f \in [0 .. n -> T] BY <1>0, <1>3
<1>5. f[0] = base BY <1>0, <1>1
<1>6. \A k \in 1 .. n : f[k] = step[<<k, f[k - 1]>>]
    <2> SUFFICES ASSUME NEW k \in 1 .. n PROVE f[k] = step[<<k, f[k - 1]>>] OBVIOUS
    <2>1. k - 1 \in 0 .. n /\ k \in 0 .. n OBVIOUS
    <2>2. table[1 .. k - 1] \in T BY <1>3, <2>1
    <2>3. f[k] = table[1 .. k] /\ f[k - 1] = table[1 .. k - 1] BY <1>0, <2>1
    <2> HIDE DEF f
    <2> QED BY <1>2, <2>2, <2>3
<1> QED BY <1>4, <1>5, <1>6 DEF Solves

-----------------------------------------------------------------------------
(* Concatenations of sequences.                                            *)
Flattens(flat, C, ss) ==
    /\ flat \in [0 .. Len(ss) -> Seq(C)] /\ flat[0] = <<>>
    /\ \A n \in 1 .. Len(ss) : flat[n] = flat[n - 1] \o ss[n]
    /\ FlattenSeq(ss) = flat[Len(ss)]

LEMMA FlattenUnfolds ==
    ASSUME NEW C, NEW ss \in Seq(Seq(C))
    PROVE  \E flat : Flattens(flat, C, ss)
<1> DEFINE N == Len(ss)
           Rhs(flat, n) == IF n = 1 THEN ss[n] ELSE flat[n - 1] \o ss[n]
           Follows(flat) == flat = [n \in 1 .. N |-> Rhs(flat, n)]
           flatten == CHOOSE flat : Follows(flat)
           step == [x \in (1 .. N) \X Seq(C) |-> x[2] \o ss[x[1]]]
<1>0. N \in Nat /\ \A n \in 1 .. N : ss[n] \in Seq(C) OBVIOUS
<1>1. \A x \in (1 .. N) \X Seq(C) : x[2] \o ss[x[1]] \in Seq(C)
    <2> SUFFICES ASSUME NEW i \in 1 .. N, NEW u \in Seq(C) PROVE u \o ss[i] \in Seq(C) OBVIOUS
    <2>1. ss[i] \in Seq(C) BY <1>0
    <2> QED BY <2>1
<1>2. step \in [(1 .. N) \X Seq(C) -> Seq(C)] BY <1>1
<1>3. PICK f : Solves(f, N, Seq(C), <<>>, step)
    <2>1. <<>> \in Seq(C) OBVIOUS
    <2> HIDE DEF step, N
    <2> QED BY <1>0, <1>2, <2>1, Recursion
<1>4. ASSUME NEW n \in 1 .. N PROVE f[n] \in Seq(C) /\ f[n - 1] \in Seq(C) /\ f[n] = f[n - 1] \o ss[n]
    <2>0. n \in 0 .. N /\ n - 1 \in 0 .. N BY <1>0
    <2>1. f[n] \in Seq(C) /\ f[n - 1] \in Seq(C) /\ f[n] = step[<<n, f[n - 1]>>]
        <3> HIDE DEF N, step
        <3> QED BY <1>3, <2>0 DEF Solves
    <2> HIDE DEF N
    <2> QED BY <2>1
<1>5. \E flat : Follows(flat)
    <2> DEFINE g == [n \in 1 .. N |-> f[n]]
    <2>1. ASSUME NEW n \in 1 .. N PROVE g[n] = Rhs(g, n)
        <3>1. CASE n = 1
            <4>1. f[0] = <<>> BY <1>3 DEF Solves
            <4>2. f[1] = <<>> \o ss[1] /\ ss[1] \in Seq(C)
                <5>1. f[n] = f[n - 1] \o ss[n] BY <1>4, Zenon
                <5>2. n - 1 = 0 BY <3>1
                <5>3. f[n] = f[0] \o ss[n] BY <5>1, <5>2, Zenon
                <5>4. f[1] = <<>> \o ss[1] BY <3>1, <4>1, <5>3, Zenon
                <5> QED BY <1>0, <3>1, <5>4
            <4>3. <<>> \o ss[1] = ss[1] BY <4>2
            <4> QED BY <3>1, <4>2, <4>3
        <3>2. CASE n # 1
            <4>1. n - 1 \in 1 .. N BY <3>2
            <4>2. g[n] = f[n] /\ g[n - 1] = f[n - 1] BY <4>1
            <4> QED BY <1>4, <3>2, <4>2
        <3> QED BY <3>1, <3>2
    <2> HIDE DEF Rhs
    <2>2. g = [n \in 1 .. N |-> Rhs(g, n)] BY <2>1
    <2> QED BY <2>2
<1>6. \A n \in 1 .. N : flatten[n] = Rhs(flatten, n)
    <2>1. Follows(flatten)
        <3> HIDE DEF Follows
        <3> QED BY <1>5
    <2> HIDE DEF Rhs, flatten
    <2> QED BY <2>1
<1> DEFINE flat == [n \in 0 .. N |-> IF n = 0 THEN <<>> ELSE flatten[n]]
<1>7. \A n \in 1 .. N : flat[n] = flatten[n] /\ (n # 1 => flat[n - 1] = flatten[n - 1])
    <2>1. \A n \in 1 .. N : n \in 0 .. N /\ n # 0 /\ n - 1 \in 0 .. N /\ (n # 1 => n - 1 # 0)
        BY <1>0
    <2> HIDE DEF flatten, N
    <2> QED BY <2>1
<1>8. flat[0] = <<>>
    <2> HIDE DEF flatten
    <2> QED BY <1>0
<1>9. ASSUME NEW n \in 1 .. N, flat[n - 1] \in Seq(C)
      PROVE  flat[n] = flat[n - 1] \o ss[n] /\ flat[n] \in Seq(C)
    <2> HIDE DEF flat, flatten
    <2>1. ss[n] \in Seq(C) BY <1>0
    <2>2. CASE n = 1
        <3>1. flat[n] = ss[n] /\ flat[n - 1] = <<>> BY <1>6, <1>7, <1>8, <2>2
        <3>2. <<>> \o ss[n] = ss[n] BY <2>1
        <3> QED BY <2>1, <3>1, <3>2
    <2>3. CASE n # 1
        <3>1. flat[n] = flat[n - 1] \o ss[n] BY <1>6, <1>7, <2>3
        <3>2. flat[n - 1] \o ss[n] \in Seq(C) BY <1>9, <2>1
        <3> QED BY <3>1, <3>2
    <2> QED BY <2>2, <2>3
<1>10. \A n \in 0 .. N : flat[n] \in Seq(C)
    <2> DEFINE Q == {n \in 0 .. N : flat[n] \in Seq(C)}
    <2> HIDE DEF flat
    <2>1. 0 \in Q
        <3>1. <<>> \in Seq(C) /\ 0 \in 0 .. N BY <1>0
        <3> HIDE DEF N
        <3> QED BY <1>8, <3>1
    <2>2. ASSUME NEW n \in 1 .. N, n - 1 \in Q PROVE n \in Q
        <3>1. flat[n] \in Seq(C) BY <1>9, <2>2
        <3>2. n \in 0 .. N OBVIOUS
        <3> QED BY <3>1, <3>2
    <2>3. \A n \in 1 .. N : n - 1 \in Q => n \in Q BY <2>2
    <2> HIDE DEF Q, N
    <2>4. \A n \in 0 .. N : n \in Q BY <1>0, <2>1, <2>3, UpTo
    <2> QED BY <2>4 DEF Q
<1>11. FlattenSeq(ss) = flat[N]
    <2>1. CASE N = 0
        <3>1. ss = <<>> /\ FlattenSeq(ss) = ss BY <2>1 DEF FlattenSeq
        <3> HIDE DEF flat
        <3> QED BY <1>8, <2>1, <3>1
    <2>2. CASE N # 0
        <3>1. FlattenSeq(ss) = flatten[N] BY <2>2 DEF FlattenSeq
        <3>2. N \in 1 .. N BY <1>0, <2>2
        <3> HIDE DEF flat, flatten, N
        <3> QED BY <1>7, <3>1, <3>2
    <2> QED BY <2>1, <2>2
<1>12. flat \in [0 .. N -> Seq(C)]
    <2> HIDE DEF flatten
    <2>1. flat = [n \in 0 .. N |-> flat[n]] OBVIOUS
    <2> HIDE DEF flat
    <2> QED BY <1>10, <2>1
<1>13. \A n \in 1 .. N : flat[n] = flat[n - 1] \o ss[n]
    <2>1. \A n \in 1 .. N : n - 1 \in 0 .. N OBVIOUS
    <2> HIDE DEF flat
    <2> QED BY <1>9, <1>10, <2>1
<1>14. Flattens(flat, C, ss)
    <2> HIDE DEF flat
    <2> QED BY <1>8, <1>11, <1>12, <1>13 DEF Flattens
<1> QED BY <1>14

LEMMA FlattenType ==
    ASSUME NEW C, NEW ss \in Seq(Seq(C))
    PROVE  FlattenSeq(ss) \in Seq(C)
<1>1. PICK flat : Flattens(flat, C, ss) BY FlattenUnfolds
<1>2. Len(ss) \in 0 .. Len(ss) OBVIOUS
<1> QED BY <1>1, <1>2 DEF Flattens

LEMMA FlattenEmpty == FlattenSeq(<<>>) = <<>>
BY DEF FlattenSeq

Joined(z, x, y) ==
    /\ Len(z) = Len(x) + Len(y)
    /\ \A i \in 1 .. Len(x) : z[i] = x[i]
    /\ \A i \in 1 .. Len(y) : z[Len(x) + i] = y[i]

LEMMA ConcatAt ==
    ASSUME NEW C, NEW x \in Seq(C), NEW y \in Seq(C)
    PROVE  Joined(x \o y, x, y)
BY DEF Joined

LEMMA ConcatOnce == \A C : \A x, y, z \in Seq(C) : (x \o y) \o z = x \o (y \o z)
OBVIOUS

LEMMA FlattenConcat ==
    ASSUME NEW C, NEW a \in Seq(Seq(C)), NEW b \in Seq(Seq(C))
    PROVE  FlattenSeq(a \o b) = FlattenSeq(a) \o FlattenSeq(b)
<1> DEFINE c == a \o b
           N == Len(a)
           M == Len(b)
<1>0. /\ N \in Nat /\ M \in Nat /\ c \in Seq(Seq(C)) /\ Len(c) = N + M
      /\ (\A n \in 1 .. N : c[n] = a[n]) /\ (\A n \in 1 .. M : c[N + n] = b[n] /\ b[n] \in Seq(C))
    OBVIOUS
<1> HIDE DEF c
<1>1. PICK fa : Flattens(fa, C, a) BY FlattenUnfolds
<1>2. PICK fb : Flattens(fb, C, b) BY FlattenUnfolds
<1>3. PICK fc : Flattens(fc, C, c) BY <1>0, FlattenUnfolds
<1>4. /\ fa[0] = <<>> /\ (\A n \in 1 .. N : fa[n] = fa[n - 1] \o a[n]) /\ FlattenSeq(a) = fa[N]
      /\ \A n \in 0 .. N : fa[n] \in Seq(C)
    BY <1>1 DEF Flattens
<1>5. /\ fb[0] = <<>> /\ (\A n \in 1 .. M : fb[n] = fb[n - 1] \o b[n]) /\ FlattenSeq(b) = fb[M]
      /\ \A n \in 0 .. M : fb[n] \in Seq(C)
    BY <1>2 DEF Flattens
<1>6. /\ fc[0] = <<>> /\ (\A n \in 1 .. N + M : fc[n] = fc[n - 1] \o c[n])
      /\ FlattenSeq(c) = fc[N + M]
    BY <1>0, <1>3 DEF Flattens
<1> HIDE DEF N, M
<1>7. \A n \in 0 .. N : fc[n] = fa[n]
    <2> DEFINE Q == {n \in 0 .. N : fc[n] = fa[n]}
    <2>1. 0 \in Q BY <1>0, <1>4, <1>6
    <2>2. ASSUME NEW n \in 1 .. N, n - 1 \in Q PROVE n \in Q
        <3>1. n \in 1 .. N + M /\ n \in 0 .. N BY <1>0
        <3>2. fc[n - 1] = fa[n - 1] BY <2>2
        <3> QED BY <1>0, <1>4, <1>6, <3>1, <3>2
    <2>3. \A n \in 1 .. N : n - 1 \in Q => n \in Q BY <2>2
    <2> HIDE DEF Q
    <2>4. \A n \in 0 .. N : n \in Q BY <1>0, <2>1, <2>3, UpTo
    <2> QED BY <2>4 DEF Q
<1>8. \A n \in 0 .. M : fc[N + n] = fa[N] \o fb[n]
    <2> DEFINE Q == {n \in 0 .. M : fc[N + n] = fa[N] \o fb[n]}
    <2>0. N \in 0 .. N /\ fa[N] \in Seq(C) BY <1>0, <1>4
    <2>1. 0 \in Q
        <3>1. fa[N] \o <<>> = fa[N] BY <2>0
        <3>2. N + 0 = N /\ 0 \in 0 .. M BY <1>0
        <3> QED BY <1>5, <1>7, <2>0, <3>1, <3>2
    <2>2. ASSUME NEW n \in 1 .. M, n - 1 \in Q PROVE n \in Q
        <3>1. N + n \in 1 .. N + M /\ n \in 0 .. M /\ N + n - 1 = N + (n - 1) /\ n - 1 \in 0 .. M BY <1>0
        <3>2. fc[N + (n - 1)] = fa[N] \o fb[n - 1] BY <2>2
        <3>3. fc[N + n] = (fa[N] \o fb[n - 1]) \o b[n]
            <4> DEFINE k == N + n
            <4>0. k \in 1 .. N + M /\ k - 1 = N + n - 1 BY <1>0, <3>1
            <4> HIDE DEF k
            <4>1a. fc[k] = fc[k - 1] \o c[k] BY <1>6, <4>0, Zenon
            <4>1. fc[N + n] = fc[N + n - 1] \o c[N + n] BY <4>0, <4>1a DEF k
            <4>2. c[N + n] = b[n] BY <1>0
            <4> QED BY <3>1, <3>2, <4>1, <4>2
        <3>4. fb[n - 1] \in Seq(C) /\ b[n] \in Seq(C) BY <1>0, <1>5, <3>1
        <3>5. (fa[N] \o fb[n - 1]) \o b[n] = fa[N] \o (fb[n - 1] \o b[n])
            <4> DEFINE x == fa[N]
                       y == fb[n - 1]
                       z == b[n]
            <4>1. x \in Seq(C) /\ y \in Seq(C) /\ z \in Seq(C) BY <2>0, <3>4
            <4> HIDE DEF x, y, z
            <4>2. (x \o y) \o z = x \o (y \o z) BY <4>1, ConcatOnce, SMTT(90)
            <4> QED BY <4>2 DEF x, y, z
        <3>6. fc[N + n] = fa[N] \o fb[n] BY <1>5, <3>3, <3>5
        <3> QED BY <3>1, <3>6
    <2>3. \A n \in 1 .. M : n - 1 \in Q => n \in Q BY <2>2
    <2> HIDE DEF Q
    <2>4. \A n \in 0 .. M : n \in Q BY <1>0, <2>1, <2>3, UpTo
    <2> QED BY <2>4 DEF Q
<1>9. M \in 0 .. M BY <1>0
<1> QED BY <1>4, <1>5, <1>6, <1>8, <1>9 DEF c

-----------------------------------------------------------------------------

(* HTML: the sections so far and the texts since the last heading.         *)
Buffers(f) == [docs : Seq(Seq(ToSet(f.elements))), buffer : Seq(ToSet(f.elements))]

Sees(run, f) ==
    /\ run \in [0 .. Len(f.elements) -> Buffers(f)] /\ run[0] = [docs |-> <<>>, buffer |-> <<>>]
    /\ \A i \in 1 .. Len(f.elements) : run[i] = See(run[i - 1], f.elements[i])
    /\ FoldLeft(See, [docs |-> <<>>, buffer |-> <<>>], f.elements) = run[Len(f.elements)]

LEMMA SeesUnfold ==
    ASSUME NEW f, IsPlain(f)
    PROVE  \E run : Sees(run, f)
<1> DEFINE T == Buffers(f)
           E == f.elements
           N == Len(E)
           base == [docs |-> <<>>, buffer |-> <<>>]
           Rhs(table, s) == IF s = {} THEN base ELSE See(table[s \ {Max(s)}], E[Max(s)])
           Follows(table) == table = [s \in SUBSET (1 .. N) |-> Rhs(table, s)]
           table == CHOOSE t : Follows(t)
           step == [x \in (1 .. N) \X T |-> See(x[2], E[x[1]])]
           run == PartialFolds(table, N)
<1>0. N \in Nat /\ DOMAIN E = 1 .. N BY DEF IsPlain, IsSeq
<1>1. FoldLeft(See, base, E) = table[1 .. N]
    BY <1>0 DEF FoldLeft, MapThenFoldSet
<1>2. base \in T BY DEF Buffers
<1>3. \A i \in 1 .. N, x \in T : See(x, E[i]) \in T
    <2> SUFFICES ASSUME NEW i \in 1 .. N, NEW x \in T PROVE See(x, E[i]) \in T OBVIOUS
    <2>1. E[i] \in ToSet(E) BY <1>0 DEF ToSet
    <2>2. Append(x.buffer, E[i]) \in Seq(ToSet(E)) BY <2>1 DEF Buffers
    <2>3. Append(x.docs, x.buffer) \in Seq(Seq(ToSet(E))) BY DEF Buffers
    <2>4. <<>> \in Seq(ToSet(E)) /\ x.docs \in Seq(Seq(ToSet(E))) BY DEF Buffers
    <2>5. FlushBuffer(x) \in T BY <2>3, <2>4 DEF Buffers, FlushBuffer
    <2>6. [x EXCEPT !.buffer = Append(@, E[i])] \in T BY <2>2 DEF Buffers
    <2> HIDE DEF T, E
    <2> QED BY <2>5, <2>6 DEF See
<1>4. step \in [(1 .. N) \X T -> T]
    <2> HIDE DEF T, N, E
    <2> QED BY <1>3
<1>5. \E t : Follows(t)
    <2>1. PICK t : Tables(t, N, T, base, step)
        <3> HIDE DEF T, N, E, base, step
        <3> QED BY <1>0, <1>2, <1>4, TableExists
    <2>2. ASSUME NEW s \in SUBSET (1 .. N) PROVE t[s] = Rhs(t, s)
        <3> HIDE DEF T, N, E, base
        <3>1. CASE s = {} BY <2>1, <3>1 DEF Tables
        <3>2. CASE s # {}
            <4>1. Max(s) \in s BY <1>0, <3>2, Greatest
            <4>2. s \ {Max(s)} \in SUBSET (1 .. N) /\ Max(s) \in 1 .. N BY <4>1
            <4>3. t[s \ {Max(s)}] \in T BY <2>1, <4>2 DEF Tables
            <4>4. t[s] = step[<<Max(s), t[s \ {Max(s)}]>>]
                <5> HIDE DEF step
                <5> QED BY <2>1, <3>2 DEF Tables
            <4> QED BY <3>2, <4>2, <4>3, <4>4
        <3> QED BY <3>1, <3>2
    <2>3. t = [s \in SUBSET (1 .. N) |-> Rhs(t, s)]
        <3>1. t = [s \in SUBSET (1 .. N) |-> t[s]] BY <2>1 DEF Tables
        <3> HIDE DEF Rhs, N
        <3> QED BY <2>2, <3>1
    <2> HIDE DEF Rhs
    <2> QED BY <2>3
<1>6. \A s \in SUBSET (1 .. N) : table[s] = Rhs(table, s)
    <2>1. Follows(table)
        <3> HIDE DEF Follows
        <3> QED BY <1>5
    <2> HIDE DEF Rhs, table
    <2> QED BY <2>1
<1>7. Solves(run, N, T, base, step)
    <2> HIDE DEF table, T, E, N, base
    <2>1. {} \in SUBSET (1 .. N) OBVIOUS
    <2>2. table[{}] = base BY <1>6, <2>1
    <2>3. ASSUME NEW s \in SUBSET (1 .. N), s # {}, table[s \ {Max(s)}] \in T
          PROVE  table[s] = step[<<Max(s), table[s \ {Max(s)}]>>]
        <3>1. Max(s) \in 1 .. N BY <1>0, <2>3, Greatest
        <3> QED BY <1>6, <2>3, <3>1
    <2> HIDE DEF step
    <2>4. Agrees(table, N, T, base, step) BY <2>2, <2>3 DEF Agrees
    <2> QED BY <1>0, <1>2, <1>4, <2>4, TableSolves
<1>8. FoldLeft(See, base, E) = run[N]
    <2> HIDE DEF table
    <2>1. N \in 0 .. N BY <1>0
    <2> HIDE DEF N
    <2> QED BY <1>1, <2>1 DEF PartialFolds
<1>9. /\ run \in [0 .. N -> T] /\ run[0] = base
      /\ \A i \in 1 .. N : run[i] = See(run[i - 1], E[i])
    <2> HIDE DEF run, T, E, base
    <2>1. run \in [0 .. N -> T] /\ run[0] = base BY <1>7 DEF Solves
    <2>2. ASSUME NEW i \in 1 .. N PROVE run[i] = See(run[i - 1], E[i])
        <3>1. i - 1 \in 0 .. N /\ run[i] = step[<<i, run[i - 1]>>]
            <4> HIDE DEF N, step
            <4> QED BY <1>0, <1>7 DEF Solves
        <3>2. run[i - 1] \in T BY <2>1, <3>1
        <3> HIDE DEF N
        <3> QED BY <3>1, <3>2
    <2> QED BY <2>1, <2>2
<1>10. Sees(run, f)
    <2> HIDE DEF run, table
    <2> QED BY <1>8, <1>9 DEF Sees
<1> QED BY <1>10


(* PDF: the lines of the block under construction and the blocks so far.   *)
Blocks(L) == [type : {"text", "table"}, lines : Seq(L)]

Pages(L) == [text : Seq(L), table : Seq(L), blocks : Seq(Blocks(L))]

NoLines == [text |-> <<>>, table |-> <<>>, blocks |-> <<>>]

LEMMA FlushType ==
    ASSUME NEW L, NEW b \in Pages(L)
    PROVE  FlushText(b) \in Pages(L) /\ FlushTable(b) \in Pages(L)
<1>1. /\ [type |-> "text", lines |-> b.text] \in Blocks(L)
      /\ [type |-> "table", lines |-> b.table] \in Blocks(L)
    BY DEF Pages, Blocks
<1>2. /\ Append(b.blocks, [type |-> "text", lines |-> b.text]) \in Seq(Blocks(L))
      /\ Append(b.blocks, [type |-> "table", lines |-> b.table]) \in Seq(Blocks(L))
    BY <1>1 DEF Pages
<1>3. b.text \o b.table \in Seq(L) /\ <<>> \in Seq(L) BY DEF Pages
<1>4. FlushText(b) \in Pages(L) BY <1>2, <1>3 DEF Pages, FlushText
<1>5. FlushTable(b) \in Pages(L)
    <2>1. CASE Len(b.table) < 2 BY <1>3, <2>1 DEF Pages, FlushTable
    <2>2. CASE ~(Len(b.table) < 2) BY <1>2, <1>3, <2>2 DEF Pages, FlushTable
    <2> QED BY <2>1, <2>2
<1> QED BY <1>4, <1>5

LEMMA AppendedType ==
    ASSUME NEW L, NEW b \in Pages(L), NEW line \in L
    PROVE  /\ [b EXCEPT !.table = Append(@, line)] \in Pages(L)
           /\ [b EXCEPT !.text = Append(@, line)] \in Pages(L)
<1>1. Append(b.table, line) \in Seq(L) /\ Append(b.text, line) \in Seq(L) BY DEF Pages
<1> QED BY <1>1 DEF Pages

Reads(run, lines, L) ==
    /\ run \in [0 .. Len(lines) -> Pages(L)] /\ run[0] = NoLines
    /\ \A i \in 1 .. Len(lines) : run[i] = ReadLine(run[i - 1], lines[i])
    /\ FoldLeft(ReadLine, NoLines, lines) = run[Len(lines)]

LEMMA ReadsUnfold ==
    ASSUME NEW L, NEW lines \in Seq(L)
    PROVE  \E run : Reads(run, lines, L)
<1> DEFINE T == Pages(L)
           E == lines
           N == Len(E)
           base == NoLines
           Rhs(table, s) == IF s = {} THEN base ELSE ReadLine(table[s \ {Max(s)}], E[Max(s)])
           Follows(table) == table = [s \in SUBSET (1 .. N) |-> Rhs(table, s)]
           table == CHOOSE t : Follows(t)
           step == [x \in (1 .. N) \X T |-> ReadLine(x[2], E[x[1]])]
           run == PartialFolds(table, N)
<1>0. N \in Nat /\ DOMAIN E = 1 .. N OBVIOUS
<1>1. FoldLeft(ReadLine, base, E) = table[1 .. N]
    BY <1>0 DEF FoldLeft, MapThenFoldSet
<1>2. base \in T BY DEF Pages, NoLines
<1>3. \A i \in 1 .. N, x \in T : ReadLine(x, E[i]) \in T
    <2> SUFFICES ASSUME NEW i \in 1 .. N, NEW x \in T PROVE ReadLine(x, E[i]) \in T OBVIOUS
    <2>1. E[i] \in L BY <1>0
    <2>2. \A y \in T : FlushText(y) \in T /\ FlushTable(y) \in T BY FlushType
    <2>3. \A y \in T : /\ [y EXCEPT !.table = Append(@, E[i])] \in T
                        /\ [y EXCEPT !.text = Append(@, E[i])] \in T
        BY <2>1, AppendedType
    <2> HIDE DEF T, E
    <2>4. FlushText(FlushTable(x)) \in T /\ FlushText(x) \in T /\ FlushTable(x) \in T BY <2>2
    <2>5. /\ [FlushText(x) EXCEPT !.table = Append(@, E[i])] \in T
          /\ [FlushTable(x) EXCEPT !.text = Append(@, E[i])] \in T
        BY <2>3, <2>4
    <2>6. CASE E[i].kind = "blank" BY <2>4, <2>6 DEF ReadLine
    <2>7. CASE E[i].kind = "row" BY <2>5, <2>7 DEF ReadLine
    <2>8. CASE E[i].kind # "blank" /\ E[i].kind # "row" BY <2>5, <2>8 DEF ReadLine
    <2> QED BY <2>6, <2>7, <2>8
<1>4. step \in [(1 .. N) \X T -> T]
    <2> HIDE DEF T, N, E
    <2> QED BY <1>3
<1>5. \E t : Follows(t)
    <2>1. PICK t : Tables(t, N, T, base, step)
        <3> HIDE DEF T, N, E, base, step
        <3> QED BY <1>0, <1>2, <1>4, TableExists
    <2>2. ASSUME NEW s \in SUBSET (1 .. N) PROVE t[s] = Rhs(t, s)
        <3> HIDE DEF T, N, E, base
        <3>1. CASE s = {} BY <2>1, <3>1 DEF Tables
        <3>2. CASE s # {}
            <4>1. Max(s) \in s BY <1>0, <3>2, Greatest
            <4>2. s \ {Max(s)} \in SUBSET (1 .. N) /\ Max(s) \in 1 .. N BY <4>1
            <4>3. t[s \ {Max(s)}] \in T BY <2>1, <4>2 DEF Tables
            <4>4. t[s] = step[<<Max(s), t[s \ {Max(s)}]>>]
                <5> HIDE DEF step
                <5> QED BY <2>1, <3>2 DEF Tables
            <4> QED BY <3>2, <4>2, <4>3, <4>4
        <3> QED BY <3>1, <3>2
    <2>3. t = [s \in SUBSET (1 .. N) |-> Rhs(t, s)]
        <3>1. t = [s \in SUBSET (1 .. N) |-> t[s]] BY <2>1 DEF Tables
        <3> HIDE DEF Rhs, N
        <3> QED BY <2>2, <3>1
    <2> HIDE DEF Rhs
    <2> QED BY <2>3
<1>6. \A s \in SUBSET (1 .. N) : table[s] = Rhs(table, s)
    <2>1. Follows(table)
        <3> HIDE DEF Follows
        <3> QED BY <1>5
    <2> HIDE DEF Rhs, table
    <2> QED BY <2>1
<1>7. Solves(run, N, T, base, step)
    <2> HIDE DEF table, T, E, N, base
    <2>1. {} \in SUBSET (1 .. N) OBVIOUS
    <2>2. table[{}] = base BY <1>6, <2>1
    <2>3. ASSUME NEW s \in SUBSET (1 .. N), s # {}, table[s \ {Max(s)}] \in T
          PROVE  table[s] = step[<<Max(s), table[s \ {Max(s)}]>>]
        <3>1. Max(s) \in 1 .. N BY <1>0, <2>3, Greatest
        <3> QED BY <1>6, <2>3, <3>1
    <2> HIDE DEF step
    <2>4. Agrees(table, N, T, base, step) BY <2>2, <2>3 DEF Agrees
    <2> QED BY <1>0, <1>2, <1>4, <2>4, TableSolves
<1>8. FoldLeft(ReadLine, base, E) = run[N]
    <2> HIDE DEF table
    <2>1. N \in 0 .. N BY <1>0
    <2> HIDE DEF N
    <2> QED BY <1>1, <2>1 DEF PartialFolds
<1>9. /\ run \in [0 .. N -> T] /\ run[0] = base
      /\ \A i \in 1 .. N : run[i] = ReadLine(run[i - 1], E[i])
    <2> HIDE DEF run, T, E, base
    <2>1. run \in [0 .. N -> T] /\ run[0] = base BY <1>7 DEF Solves
    <2>2. ASSUME NEW i \in 1 .. N PROVE run[i] = ReadLine(run[i - 1], E[i])
        <3>1. i - 1 \in 0 .. N /\ run[i] = step[<<i, run[i - 1]>>]
            <4> HIDE DEF N, step
            <4> QED BY <1>0, <1>7 DEF Solves
        <3>2. run[i - 1] \in T BY <2>1, <3>1
        <3> HIDE DEF N
        <3> QED BY <3>1, <3>2
    <2> QED BY <2>1, <2>2
<1>10. Reads(run, lines, L)
    <2> HIDE DEF run, table
    <2> QED BY <1>8, <1>9 DEF Reads
<1> QED BY <1>10


(* Markdown: the elements so far and the stack of open headings.           *)
CellsOf(W) == [marks : Nat, texts : Seq(W)]
Pairs(W) == [heading : CellsOf(W), body : CellsOf(W)]
Elements(W) == [title : BOOLEAN, level : Nat, texts : Seq(W), up : Nat]
Headings == [at : Nat \ {0}, level : Nat]
Stacks == Seq(Headings)
Loadings(W) == [elements : Seq(Elements(W)), stack : Stacks]

ParasOf(body, at) == [i \in DOMAIN body.texts |-> Element(FALSE, 0, <<body.texts[i]>>, at)]

LEMMA PoppedType ==
    ASSUME NEW stack \in Stacks, NEW level \in Nat
    PROVE  Popped(stack, level) \in Stacks /\ TopOf(Popped(stack, level)) \in Nat
<1>1. Popped(stack, level) \in Stacks BY SiftType DEF Popped, Stacks
<1>2. \A s \in Stacks : TopOf(s) \in Nat
    <2> SUFFICES ASSUME NEW s \in Stacks, s # <<>> PROVE s[Len(s)].at \in Nat BY DEF TopOf, Last
    <2>1. Len(s) \in 1 .. Len(s) BY DEF Stacks
    <2>2. s[Len(s)] \in Headings BY <2>1 DEF Stacks
    <2> QED BY <2>2 DEF Headings
<1> QED BY <1>1, <1>2

LEMMA ParasType ==
    ASSUME NEW W, NEW body \in CellsOf(W), NEW at \in Nat
    PROVE  /\ ParasOf(body, at) \in Seq(Elements(W))
           /\ Len(ParasOf(body, at)) = Len(body.texts)
           /\ \A i \in 1 .. Len(body.texts) :
                 ParasOf(body, at)[i] = [title |-> FALSE, level |-> 0, texts |-> <<body.texts[i]>>, up |-> at]
<1>1. DOMAIN body.texts = 1 .. Len(body.texts) /\ Len(body.texts) \in Nat BY DEF CellsOf
<1>2. ASSUME NEW i \in 1 .. Len(body.texts)
      PROVE  [title |-> FALSE, level |-> 0, texts |-> <<body.texts[i]>>, up |-> at] \in Elements(W)
    <2>1. body.texts[i] \in W BY DEF CellsOf
    <2>2. <<body.texts[i]>> \in Seq(W) BY <2>1
    <2> QED BY <2>2 DEF Elements
<1> QED BY <1>1, <1>2 DEF ParasOf, Element

LEMMA LoadPairType ==
    ASSUME NEW W, NEW l \in Loadings(W), NEW heading \in CellsOf(W), NEW body \in CellsOf(W)
    PROVE  LoadPair(l, heading, body) \in Loadings(W)
<1> DEFINE stack == Popped(l.stack, heading.marks)
           at == Len(l.elements) + 1
           title == Element(TRUE, heading.marks, heading.texts, TopOf(stack))
           paras == ParasOf(body, at)
           entry == [at |-> at, level |-> heading.marks]
<1>1. stack \in Stacks /\ TopOf(stack) \in Nat BY PoppedType DEF Loadings, CellsOf
<1>2. at \in Nat \ {0} BY DEF Loadings
<1>3. title \in Elements(W) BY <1>1 DEF Elements, Element, CellsOf
<1>4. paras \in Seq(Elements(W)) BY <1>2, ParasType
<1>5. l.elements \o <<title>> \o paras \in Seq(Elements(W))
    <2> HIDE DEF title, paras
    <2>1. l.elements \in Seq(Elements(W)) /\ <<title>> \in Seq(Elements(W)) BY <1>3 DEF Loadings
    <2>2. l.elements \o <<title>> \in Seq(Elements(W)) BY <2>1
    <2> QED BY <1>4, <2>2
<1>6. Append(stack, entry) \in Stacks
    <2>1. entry \in Headings BY <1>2 DEF CellsOf, Headings
    <2> HIDE DEF stack, entry
    <2> QED BY <1>1, <2>1 DEF Stacks
<1>7. LoadPair(l, heading, body)
        = IF heading.texts = <<>> THEN l
          ELSE [elements |-> l.elements \o <<title>> \o paras, stack |-> Append(stack, entry)]
    BY DEF LoadPair, ParasOf
<1> HIDE DEF stack, at, title, paras, entry
<1> QED BY <1>5, <1>6, <1>7 DEF Loadings

LoadSteps(run, pairs, W, pre) ==
    /\ run \in [0 .. Len(pairs) -> Loadings(W)] /\ run[0] = [elements |-> pre, stack |-> <<>>]
    /\ \A i \in 1 .. Len(pairs) : run[i] = LoadPair(run[i - 1], pairs[i].heading, pairs[i].body)

Loads(run, pairs, W, pre) ==
    /\ LoadSteps(run, pairs, W, pre)
    /\ FoldLeft(LAMBDA l, p : LoadPair(l, p.heading, p.body), [elements |-> pre, stack |-> <<>>], pairs)
          = run[Len(pairs)]

LEMMA LoadsUnfold ==
    ASSUME NEW W, NEW pairs \in Seq(Pairs(W)), NEW pre \in Seq(Elements(W))
    PROVE  \E run : Loads(run, pairs, W, pre)
<1> DEFINE T == Loadings(W)
           E == pairs
           N == Len(E)
           base == [elements |-> pre, stack |-> <<>>]
           Rhs(table, s) == IF s = {} THEN base ELSE LoadPair(table[s \ {Max(s)}], E[Max(s)].heading, E[Max(s)].body)
           Follows(table) == table = [s \in SUBSET (1 .. N) |-> Rhs(table, s)]
           table == CHOOSE t : Follows(t)
           step == [x \in (1 .. N) \X T |-> LoadPair(x[2], E[x[1]].heading, E[x[1]].body)]
           run == PartialFolds(table, N)
<1>0. N \in Nat /\ DOMAIN E = 1 .. N OBVIOUS
<1>1. FoldLeft(LAMBDA l, p : LoadPair(l, p.heading, p.body), base, E) = table[1 .. N]
    BY <1>0 DEF FoldLeft, MapThenFoldSet
<1>2. base \in T BY DEF Loadings, Stacks
<1>3. \A i \in 1 .. N, x \in T : LoadPair(x, E[i].heading, E[i].body) \in T
    <2> SUFFICES ASSUME NEW i \in 1 .. N, NEW x \in T PROVE LoadPair(x, E[i].heading, E[i].body) \in T
        OBVIOUS
    <2>0. E[i] \in Pairs(W) BY <1>0
    <2>1. E[i].heading \in CellsOf(W) /\ E[i].body \in CellsOf(W) BY <2>0 DEF Pairs
    <2> QED BY <2>1, LoadPairType
<1>4. step \in [(1 .. N) \X T -> T]
    <2> HIDE DEF T, N, E
    <2> QED BY <1>3
<1>5. \E t : Follows(t)
    <2>1. PICK t : Tables(t, N, T, base, step)
        <3> HIDE DEF T, N, E, base, step
        <3> QED BY <1>0, <1>2, <1>4, TableExists
    <2>2. ASSUME NEW s \in SUBSET (1 .. N) PROVE t[s] = Rhs(t, s)
        <3> HIDE DEF T, N, E, base
        <3>1. CASE s = {} BY <2>1, <3>1 DEF Tables
        <3>2. CASE s # {}
            <4>1. Max(s) \in s BY <1>0, <3>2, Greatest
            <4>2. s \ {Max(s)} \in SUBSET (1 .. N) /\ Max(s) \in 1 .. N BY <4>1
            <4>3. t[s \ {Max(s)}] \in T BY <2>1, <4>2 DEF Tables
            <4>4. t[s] = step[<<Max(s), t[s \ {Max(s)}]>>]
                <5> HIDE DEF step
                <5> QED BY <2>1, <3>2 DEF Tables
            <4> QED BY <3>2, <4>2, <4>3, <4>4
        <3> QED BY <3>1, <3>2
    <2>3. t = [s \in SUBSET (1 .. N) |-> Rhs(t, s)]
        <3>1. t = [s \in SUBSET (1 .. N) |-> t[s]] BY <2>1 DEF Tables
        <3> HIDE DEF Rhs, N
        <3> QED BY <2>2, <3>1
    <2> HIDE DEF Rhs
    <2> QED BY <2>3
<1>6. \A s \in SUBSET (1 .. N) : table[s] = Rhs(table, s)
    <2>1. Follows(table)
        <3> HIDE DEF Follows
        <3> QED BY <1>5
    <2> HIDE DEF Rhs, table
    <2> QED BY <2>1
<1>7. Solves(run, N, T, base, step)
    <2> HIDE DEF table, T, E, N, base
    <2>1. {} \in SUBSET (1 .. N) OBVIOUS
    <2>2. table[{}] = base BY <1>6, <2>1
    <2>3. ASSUME NEW s \in SUBSET (1 .. N), s # {}, table[s \ {Max(s)}] \in T
          PROVE  table[s] = step[<<Max(s), table[s \ {Max(s)}]>>]
        <3>1. Max(s) \in 1 .. N BY <1>0, <2>3, Greatest
        <3> QED BY <1>6, <2>3, <3>1
    <2> HIDE DEF step
    <2>4. Agrees(table, N, T, base, step) BY <2>2, <2>3 DEF Agrees
    <2> QED BY <1>0, <1>2, <1>4, <2>4, TableSolves
<1>8. FoldLeft(LAMBDA l, p : LoadPair(l, p.heading, p.body), base, E) = run[N]
    <2> HIDE DEF table
    <2>1. N \in 0 .. N BY <1>0
    <2> HIDE DEF N
    <2> QED BY <1>1, <2>1 DEF PartialFolds
<1>9. /\ run \in [0 .. N -> T] /\ run[0] = base
      /\ \A i \in 1 .. N : run[i] = LoadPair(run[i - 1], E[i].heading, E[i].body)
    <2> HIDE DEF run, T, E, base
    <2>1. run \in [0 .. N -> T] /\ run[0] = base BY <1>7 DEF Solves
    <2>2. ASSUME NEW i \in 1 .. N PROVE run[i] = LoadPair(run[i - 1], E[i].heading, E[i].body)
        <3>1. i - 1 \in 0 .. N /\ run[i] = step[<<i, run[i - 1]>>]
            <4> HIDE DEF N, step
            <4> QED BY <1>0, <1>7 DEF Solves
        <3>2. run[i - 1] \in T BY <2>1, <3>1
        <3> HIDE DEF N
        <3> QED BY <3>1, <3>2
    <2> QED BY <2>1, <2>2
<1>10. Loads(run, pairs, W, pre)
    <2> HIDE DEF run, table
    <2>1. LoadSteps(run, pairs, W, pre) BY <1>9 DEF LoadSteps
    <2> QED BY <1>8, <2>1, Zenon DEF Loads
<1> QED BY <1>10


(* Late chunking: the spans of the pieces located so far.                  *)
Locations == [ok : BOOLEAN, cursor : Nat \ {0}, spans : Seq(Nat \ {0})]

Nowhere == [ok |-> TRUE, cursor |-> 1, spans |-> <<>>]

(* A piece is located at or after the cursor, which it moves behind itself. *)
Located(new, s, piece) ==
    /\ new \in Locations
    /\ new.ok => /\ s.ok
                  /\ \E start \in Nat \ {0} :
                       /\ s.cursor <= start
                       /\ new.cursor = start + Len(piece)
                       /\ new.spans = Append(s.spans, start)

LEMMA LocateStep ==
    ASSUME NEW C, NEW s \in Locations, NEW piece \in Seq(C), NEW texts \in Seq(C)
    PROVE  Located(Locate(s, piece, texts), s, piece)
<1> DEFINE starts == Found(piece, texts, s.cursor)
           start == CHOOSE i \in starts : \A j \in starts : i <= j
           to == Len(texts) - Len(piece) + 1
<1>0. s.cursor \in Nat \ {0} /\ to \in Int /\ Len(piece) \in Nat BY DEF Locations
<1>1. starts \subseteq {i \in s.cursor .. to : s.cursor <= i}
    <2> HIDE DEF to
    <2> QED BY <1>0 DEF Found, to
<1>2. starts \subseteq Nat \ {0} /\ \A i \in starts : s.cursor <= i
    <2> HIDE DEF starts, to
    <2> QED BY <1>0, <1>1
<1>3. CASE ~s.ok \/ starts = {}
    <2>1. Locate(s, piece, texts) = [s EXCEPT !.ok = FALSE] BY <1>3 DEF Locate
    <2> QED BY <2>1 DEF Locations, Located
<1>4. CASE s.ok /\ starts # {}
    <2>1. start \in starts
        <3> HIDE DEF starts
        <3>1. \E i \in starts : \A j \in starts : i <= j BY <1>2, <1>4, LeastOf
        <3> QED BY <3>1
    <2>2. Locate(s, piece, texts)
            = [s EXCEPT !.cursor = start + Len(piece), !.spans = Append(@, start)]
        BY <1>4 DEF Locate, Advance
    <2> HIDE DEF start, starts
    <2>3. start \in Nat \ {0} /\ s.cursor <= start /\ start + Len(piece) \in Nat \ {0} BY <1>0, <1>2, <2>1
    <2>4. Append(s.spans, start) \in Seq(Nat \ {0}) BY <2>3 DEF Locations
    <2>5. /\ Locate(s, piece, texts) \in Locations
          /\ Locate(s, piece, texts).ok = s.ok
          /\ Locate(s, piece, texts).cursor = start + Len(piece)
          /\ Locate(s, piece, texts).spans = Append(s.spans, start)
        BY <2>2, <2>3, <2>4 DEF Locations
    <2> QED BY <1>4, <2>3, <2>5 DEF Located
<1> QED BY <1>3, <1>4 DEF Locations

LocateSteps(run, pieces, texts) ==
    /\ run \in [0 .. Len(pieces) -> Locations] /\ run[0] = Nowhere
    /\ \A i \in 1 .. Len(pieces) : run[i] = Locate(run[i - 1], pieces[i], texts)

Locates(run, pieces, texts) ==
    /\ LocateSteps(run, pieces, texts)
    /\ FoldLeft(LAMBDA s, piece : Locate(s, piece, texts), Nowhere, pieces) = run[Len(pieces)]

LEMMA LocatesUnfold ==
    ASSUME NEW C, NEW pieces \in Seq(Seq(C)), NEW texts \in Seq(C)
    PROVE  \E run : Locates(run, pieces, texts)
<1> DEFINE T == Locations
           E == pieces
           N == Len(E)
           base == Nowhere
           Rhs(table, s) == IF s = {} THEN base ELSE Locate(table[s \ {Max(s)}], E[Max(s)], texts)
           Follows(table) == table = [s \in SUBSET (1 .. N) |-> Rhs(table, s)]
           table == CHOOSE t : Follows(t)
           step == [x \in (1 .. N) \X T |-> Locate(x[2], E[x[1]], texts)]
           run == PartialFolds(table, N)
<1>0. N \in Nat /\ DOMAIN E = 1 .. N OBVIOUS
<1>1. FoldLeft(LAMBDA s, piece : Locate(s, piece, texts), base, E) = table[1 .. N]
    BY <1>0 DEF FoldLeft, MapThenFoldSet
<1>2. base \in T BY DEF Locations, Nowhere
<1>3. \A i \in 1 .. N, x \in T : Locate(x, E[i], texts) \in T
    <2> SUFFICES ASSUME NEW i \in 1 .. N, NEW x \in T PROVE Locate(x, E[i], texts) \in T OBVIOUS
    <2>1. E[i] \in Seq(C) BY <1>0
    <2> QED BY <2>1, LocateStep DEF Located
<1>4. step \in [(1 .. N) \X T -> T]
    <2> HIDE DEF T, N, E
    <2> QED BY <1>3
<1>5. \E t : Follows(t)
    <2>1. PICK t : Tables(t, N, T, base, step)
        <3> HIDE DEF T, N, E, base, step
        <3> QED BY <1>0, <1>2, <1>4, TableExists
    <2>2. ASSUME NEW s \in SUBSET (1 .. N) PROVE t[s] = Rhs(t, s)
        <3> HIDE DEF T, N, E, base
        <3>1. CASE s = {} BY <2>1, <3>1 DEF Tables
        <3>2. CASE s # {}
            <4>1. Max(s) \in s BY <1>0, <3>2, Greatest
            <4>2. s \ {Max(s)} \in SUBSET (1 .. N) /\ Max(s) \in 1 .. N BY <4>1
            <4>3. t[s \ {Max(s)}] \in T BY <2>1, <4>2 DEF Tables
            <4>4. t[s] = step[<<Max(s), t[s \ {Max(s)}]>>]
                <5> HIDE DEF step
                <5> QED BY <2>1, <3>2 DEF Tables
            <4> QED BY <3>2, <4>2, <4>3, <4>4
        <3> QED BY <3>1, <3>2
    <2>3. t = [s \in SUBSET (1 .. N) |-> Rhs(t, s)]
        <3>1. t = [s \in SUBSET (1 .. N) |-> t[s]] BY <2>1 DEF Tables
        <3> HIDE DEF Rhs, N
        <3> QED BY <2>2, <3>1
    <2> HIDE DEF Rhs
    <2> QED BY <2>3
<1>6. \A s \in SUBSET (1 .. N) : table[s] = Rhs(table, s)
    <2>1. Follows(table)
        <3> HIDE DEF Follows
        <3> QED BY <1>5
    <2> HIDE DEF Rhs, table
    <2> QED BY <2>1
<1>7. Solves(run, N, T, base, step)
    <2> HIDE DEF table, T, E, N, base
    <2>1. {} \in SUBSET (1 .. N) OBVIOUS
    <2>2. table[{}] = base BY <1>6, <2>1
    <2>3. ASSUME NEW s \in SUBSET (1 .. N), s # {}, table[s \ {Max(s)}] \in T
          PROVE  table[s] = step[<<Max(s), table[s \ {Max(s)}]>>]
        <3>1. Max(s) \in 1 .. N BY <1>0, <2>3, Greatest
        <3> QED BY <1>6, <2>3, <3>1
    <2> HIDE DEF step
    <2>4. Agrees(table, N, T, base, step) BY <2>2, <2>3 DEF Agrees
    <2> QED BY <1>0, <1>2, <1>4, <2>4, TableSolves
<1>8. FoldLeft(LAMBDA s, piece : Locate(s, piece, texts), base, E) = run[N]
    <2> HIDE DEF table
    <2>1. N \in 0 .. N BY <1>0
    <2> HIDE DEF N
    <2> QED BY <1>1, <2>1 DEF PartialFolds
<1>9. /\ run \in [0 .. N -> T] /\ run[0] = base
      /\ \A i \in 1 .. N : run[i] = Locate(run[i - 1], E[i], texts)
    <2> HIDE DEF run, T, E, base
    <2>1. run \in [0 .. N -> T] /\ run[0] = base BY <1>7 DEF Solves
    <2>2. ASSUME NEW i \in 1 .. N PROVE run[i] = Locate(run[i - 1], E[i], texts)
        <3>1. i - 1 \in 0 .. N /\ run[i] = step[<<i, run[i - 1]>>]
            <4> HIDE DEF N, step
            <4> QED BY <1>0, <1>7 DEF Solves
        <3>2. run[i - 1] \in T BY <2>1, <3>1
        <3> HIDE DEF N
        <3> QED BY <3>1, <3>2
    <2> QED BY <2>1, <2>2
<1>10. Locates(run, pieces, texts)
    <2> HIDE DEF run, table
    <2>1. LocateSteps(run, pieces, texts) BY <1>9 DEF LocateSteps
    <2> QED BY <1>8, <2>1, Zenon DEF Locates
<1> QED BY <1>10


-----------------------------------------------------------------------------
(* The sections of a Markdown file.                                        *)
LEMMA SiftedPositions ==
    ASSUME NEW C, NEW s \in Seq(C), NEW P
    PROVE  /\ Sift(Positions(s), P) \in Seq(1 .. Len(s))
           /\ Increasing(Sift(Positions(s), P))
           /\ \A i \in 1 .. Len(s) :
                i \in P <=> \E k \in DOMAIN Sift(Positions(s), P) : Sift(Positions(s), P)[k] = i
<1>1. /\ Positions(s) \in Seq(1 .. Len(s)) /\ Len(Positions(s)) = Len(s)
      /\ \A i \in 1 .. Len(s) : Positions(s)[i] = i
    BY DEF Positions
<1>2. PICK at : Marks(at, Positions(s), P) BY <1>1, SiftPositions
<1>3. /\ at \in Seq(1 .. Len(s)) /\ Increasing(at)
      /\ \A i \in 1 .. Len(s) : i \in P <=> \E k \in DOMAIN at : at[k] = i
      /\ Sift(Positions(s), P) = [k \in 1 .. Len(at) |-> Positions(s)[at[k]]]
    BY <1>1, <1>2 DEF Marks
<1>4. \A k \in 1 .. Len(at) : Positions(s)[at[k]] = at[k]
    <2>1. \A k \in 1 .. Len(at) : at[k] \in 1 .. Len(s) BY <1>3
    <2> QED BY <1>1, <2>1
<1>5. at = [k \in 1 .. Len(at) |-> at[k]] BY <1>3
<1>6. Sift(Positions(s), P) = at BY <1>3, <1>4, <1>5
<1> QED BY <1>3, <1>6

MarkdownWords(f) ==
    ToSet(f.preamble.texts) \cup (UNION {ToSet(f.parts[i].paras) : i \in DOMAIN f.parts})
        \cup {f.parts[i].title : i \in DOMAIN f.parts}

LEMMA CellsType ==
    ASSUME NEW f, IsMarkdown(f)
    PROVE  /\ Cells(f) \in Seq(CellsOf(MarkdownWords(f))) /\ Cells(f) # <<>>
           /\ Cells(f)[1] = f.preamble
<1> DEFINE W == MarkdownWords(f)
           two == [i \in DOMAIN f.parts |-> <<Heading(f.parts[i]), Body(f.parts[i])>>]
<1>1. DOMAIN f.parts = 1 .. Len(f.parts) /\ Len(f.parts) \in Nat BY DEF IsMarkdown, IsSeq
<1>2. f.preamble \in CellsOf(W)
    <2>1. ToSet(f.preamble.texts) \subseteq W BY DEF MarkdownWords
    <2>2. f.preamble.texts \in Seq(W) BY <2>1, SeqMonotonic DEF IsMarkdown
    <2> QED BY <2>2 DEF CellsOf, IsMarkdown
<1>3. ASSUME NEW i \in DOMAIN f.parts
      PROVE  Heading(f.parts[i]) \in CellsOf(W) /\ Body(f.parts[i]) \in CellsOf(W)
    <2>1. f.parts[i].title \in W /\ ToSet(f.parts[i].paras) \subseteq W BY DEF MarkdownWords
    <2>2. f.parts[i].level \in Nat /\ f.parts[i].paras \in Seq(ToSet(f.parts[i].paras))
        BY DEF IsMarkdown, IsSeq
    <2>3. f.parts[i].paras \in Seq(W) BY <2>1, <2>2, SeqMonotonic
    <2>4. <<f.parts[i].title>> \in Seq(W) BY <2>1
    <2> QED BY <2>2, <2>3, <2>4 DEF Heading, Body, CellsOf
<1>4. two \in Seq(Seq(CellsOf(W)))
    <2>1. \A i \in 1 .. Len(f.parts) : <<Heading(f.parts[i]), Body(f.parts[i])>> \in Seq(CellsOf(W))
        <3> SUFFICES ASSUME NEW i \in 1 .. Len(f.parts)
                     PROVE  <<Heading(f.parts[i]), Body(f.parts[i])>> \in Seq(CellsOf(W)) OBVIOUS
        <3>1. Heading(f.parts[i]) \in CellsOf(W) /\ Body(f.parts[i]) \in CellsOf(W) BY <1>1, <1>3
        <3> QED BY <3>1
    <2> HIDE DEF W
    <2> QED BY <1>1, <2>1
<1>5. FlattenSeq(two) \in Seq(CellsOf(W))
    <2> HIDE DEF two, W
    <2> QED BY <1>4, FlattenType
<1>6. Cells(f) = <<f.preamble>> \o FlattenSeq(two) BY DEF Cells
<1> HIDE DEF two, W
<1>7. <<f.preamble>> \in Seq(CellsOf(W)) BY <1>2
<1>8. Cells(f) \in Seq(CellsOf(W)) BY <1>5, <1>6, <1>7
<1>9. Len(Cells(f)) = 1 + Len(FlattenSeq(two)) /\ Len(FlattenSeq(two)) \in Nat BY <1>5, <1>6, <1>7
<1>10. Cells(f)[1] = f.preamble BY <1>5, <1>6, <1>7
<1> QED BY <1>8, <1>9, <1>10 DEF W

(* Nothing but the text before the first heading stands under no title, and *)
(* what an element hangs under is a title before it.                       *)
UnderTitles(elements) ==
    \A i \in 1 .. Len(elements) :
        /\ elements[i].up < i
        /\ ~elements[i].title /\ elements[i].up = 0 => i = 1

StackBelow(l) == \A k \in 1 .. Len(l.stack) : l.stack[k].at <= Len(l.elements)

PairLoaded(new, l, heading, body, m, n, stack) ==
    /\ m \in Nat /\ n \in Nat /\ Len(new.elements) = m + 1 + n
    /\ \A i \in 1 .. m : new.elements[i] = l.elements[i]
    /\ new.elements[m + 1] = [title |-> TRUE, level |-> heading.marks,
                              texts |-> heading.texts, up |-> TopOf(stack)]
    /\ \A i \in 1 .. n :
          new.elements[m + 1 + i] = [title |-> FALSE, level |-> 0,
                                     texts |-> <<body.texts[i]>>, up |-> m + 1]
    /\ new.stack = Append(stack, [at |-> m + 1, level |-> heading.marks])

LEMMA LoadPairEffect ==
    ASSUME NEW W, NEW l \in Loadings(W), NEW heading \in CellsOf(W), NEW body \in CellsOf(W),
           heading.texts # <<>>
    PROVE  PairLoaded(LoadPair(l, heading, body), l, heading, body,
                      Len(l.elements), Len(body.texts), Popped(l.stack, heading.marks))
<1> DEFINE m == Len(l.elements)
           n == Len(body.texts)
           stack == Popped(l.stack, heading.marks)
           title == [title |-> TRUE, level |-> heading.marks, texts |-> heading.texts, up |-> TopOf(stack)]
           paras == ParasOf(body, m + 1)
           new == LoadPair(l, heading, body)
<1>1. m \in Nat /\ n \in Nat /\ l.elements \in Seq(Elements(W)) BY DEF Loadings, CellsOf
<1>2. TopOf(stack) \in Nat BY PoppedType DEF Loadings, CellsOf
<1>3. title \in Elements(W) BY <1>2 DEF Elements, CellsOf
<1>4. /\ paras \in Seq(Elements(W)) /\ Len(paras) = n
      /\ \A i \in 1 .. n :
            paras[i] = [title |-> FALSE, level |-> 0, texts |-> <<body.texts[i]>>, up |-> m + 1]
    BY <1>1, ParasType
<1>5. /\ new.elements = l.elements \o <<title>> \o paras
      /\ new.stack = Append(stack, [at |-> m + 1, level |-> heading.marks])
    BY DEF LoadPair, ParasOf, Element
<1>6. <<title>> \in Seq(Elements(W)) /\ Len(<<title>>) = 1 /\ <<title>>[1] = title BY <1>3
<1> HIDE DEF title, paras
<1>7. /\ l.elements \o <<title>> \in Seq(Elements(W)) /\ Len(l.elements \o <<title>>) = m + 1
      /\ \A i \in 1 .. m : (l.elements \o <<title>>)[i] = l.elements[i]
      /\ (l.elements \o <<title>>)[m + 1] = title
    BY <1>1, <1>6
<1> DEFINE first == l.elements \o <<title>>
<1> HIDE DEF first, m, n, new
<1>8. /\ first \in Seq(Elements(W)) /\ Len(first) = m + 1 /\ first[m + 1] = title
      /\ \A i \in 1 .. m : first[i] = l.elements[i]
    BY <1>7 DEF first
<1>9. /\ Len(new.elements) = m + 1 + n
      /\ \A i \in 1 .. m + 1 : new.elements[i] = first[i]
      /\ \A i \in 1 .. n : new.elements[m + 1 + i] = paras[i]
    <2>1. new.elements = first \o paras BY <1>5 DEF first
    <2>2. first \in Seq(Elements(W)) /\ paras \in Seq(Elements(W)) BY <1>4, <1>8
    <2>3. Joined(first \o paras, first, paras) BY <2>2, ConcatAt
    <2> QED BY <1>1, <1>4, <1>8, <2>1, <2>3 DEF Joined
<1>10. \A i \in 1 .. m : new.elements[i] = l.elements[i] BY <1>1, <1>8, <1>9
<1>11. new.elements[m + 1] = title BY <1>1, <1>8, <1>9
<1>12. \A i \in 1 .. n : new.elements[m + 1 + i] = [title |-> FALSE, level |-> 0,
                                                     texts |-> <<body.texts[i]>>, up |-> m + 1]
    BY <1>4, <1>9
<1>13. PairLoaded(new, l, heading, body, m, n, stack)
    BY <1>1, <1>5, <1>9, <1>10, <1>11, <1>12 DEF PairLoaded, title
<1> QED BY <1>13 DEF m, n, new

LEMMA PoppedBelow ==
    ASSUME NEW stack \in Stacks, NEW level \in Nat, NEW m \in Nat,
           \A k \in 1 .. Len(stack) : stack[k].at <= m
    PROVE  /\ \A k \in 1 .. Len(Popped(stack, level)) : Popped(stack, level)[k].at <= m
           /\ TopOf(Popped(stack, level)) \in 0 .. m
<1> DEFINE popped == Popped(stack, level)
           P == {i \in DOMAIN stack : stack[i].level < level}
<1>1. popped \in Stacks BY PoppedType
<1>2. popped = Sift(stack, P) BY DEF Popped
<1>3. ASSUME NEW k \in 1 .. Len(popped) PROVE popped[k].at \in 0 .. m
    <2>1. k \in DOMAIN Sift(stack, P) BY <1>1, <1>2 DEF Stacks
    <2>2. \E i \in 1 .. Len(stack) : stack[i] = popped[k]
        <3> HIDE DEF P
        <3>1. stack \in Seq(Headings) BY DEF Stacks
        <3>2. SiftedMembers(stack, P) BY <3>1, SiftMembers
        <3> QED BY <1>2, <2>1, <3>2 DEF SiftedMembers
    <2>3. popped[k] \in Headings BY <1>1 DEF Stacks
    <2> QED BY <2>2, <2>3 DEF Headings
<1>4. TopOf(popped) \in 0 .. m
    <2>1. CASE popped = <<>> BY <2>1 DEF TopOf
    <2>2. CASE popped # <<>>
        <3>1. Len(popped) \in 1 .. Len(popped) BY <1>1, <2>2 DEF Stacks
        <3>2. TopOf(popped) = popped[Len(popped)].at BY <2>2 DEF TopOf, Last
        <3> HIDE DEF popped
        <3> QED BY <1>3, <3>1, <3>2
    <2> QED BY <2>1, <2>2
<1> QED BY <1>3, <1>4

LEMMA LoadPairKeeps ==
    ASSUME NEW W, NEW l \in Loadings(W), NEW heading \in CellsOf(W), NEW body \in CellsOf(W),
           UnderTitles(l.elements), StackBelow(l)
    PROVE  /\ UnderTitles(LoadPair(l, heading, body).elements)
           /\ StackBelow(LoadPair(l, heading, body))
<1> DEFINE m == Len(l.elements)
           n == Len(body.texts)
           stack == Popped(l.stack, heading.marks)
           new == LoadPair(l, heading, body)
<1>1. CASE heading.texts = <<>>
    <2>1. new = l BY <1>1 DEF LoadPair
    <2> QED BY <2>1
<1>2. CASE heading.texts # <<>>
    <2>1. /\ m \in Nat /\ n \in Nat /\ Len(new.elements) = m + 1 + n
          /\ \A i \in 1 .. m : new.elements[i] = l.elements[i]
          /\ new.elements[m + 1] = [title |-> TRUE, level |-> heading.marks,
                                    texts |-> heading.texts, up |-> TopOf(stack)]
          /\ \A i \in 1 .. n :
                new.elements[m + 1 + i] = [title |-> FALSE, level |-> 0,
                                           texts |-> <<body.texts[i]>>, up |-> m + 1]
          /\ new.stack = Append(stack, [at |-> m + 1, level |-> heading.marks])
        <3>1. PairLoaded(new, l, heading, body, m, n, stack) BY <1>2, LoadPairEffect
        <3> HIDE DEF m, n, stack, new
        <3> QED BY <3>1 DEF PairLoaded
    <2>2. /\ \A k \in 1 .. Len(stack) : stack[k].at <= m
          /\ TopOf(stack) \in 0 .. m
        <3>1. l.stack \in Stacks /\ heading.marks \in Nat BY DEF Loadings, CellsOf
        <3>2. \A k \in 1 .. Len(l.stack) : l.stack[k].at <= m BY DEF StackBelow
        <3> QED BY <2>1, <3>1, <3>2, PoppedBelow
    <2>3. stack \in Stacks BY PoppedType DEF Loadings, CellsOf
    <2> HIDE DEF m, n, stack, new
    <2>4. UnderTitles(new.elements)
        <3> SUFFICES ASSUME NEW i \in 1 .. m + 1 + n
                     PROVE  /\ new.elements[i].up < i
                            /\ ~new.elements[i].title /\ new.elements[i].up = 0 => i = 1
            BY <2>1 DEF UnderTitles
        <3>1. CASE i \in 1 .. m
            <4>1. i \in 1 .. Len(l.elements) /\ new.elements[i] = l.elements[i] BY <2>1, <3>1 DEF m
            <4> QED BY <4>1 DEF UnderTitles
        <3>2. CASE i = m + 1 BY <2>1, <2>2, <3>2
        <3>3. CASE i \in m + 2 .. m + 1 + n
            <4> DEFINE j == i - (m + 1)
            <4>1. j \in 1 .. n /\ m + 1 + j = i BY <2>1, <3>3
            <4>2. new.elements[i] = [title |-> FALSE, level |-> 0,
                                     texts |-> <<body.texts[j]>>, up |-> m + 1]
                <5> HIDE DEF j
                <5> QED BY <2>1, <4>1
            <4> QED BY <2>1, <3>3, <4>2
        <3> QED BY <2>1, <3>1, <3>2, <3>3
    <2>5. StackBelow(new)
        <3>0. stack \in Seq(Headings) /\ Len(stack) \in Nat BY <2>3 DEF Stacks
        <3>1. [at |-> m + 1, level |-> heading.marks] \in Headings BY <2>1 DEF Headings, CellsOf
        <3>2. /\ Len(new.stack) = Len(stack) + 1
              /\ \A k \in 1 .. Len(stack) : new.stack[k] = stack[k]
              /\ new.stack[Len(stack) + 1] = [at |-> m + 1, level |-> heading.marks]
            <4> DEFINE entry == [at |-> m + 1, level |-> heading.marks]
            <4>1. new.stack = Append(stack, entry) BY <2>1
            <4> HIDE DEF entry
            <4>2. /\ Len(Append(stack, entry)) = Len(stack) + 1
                  /\ \A k \in 1 .. Len(stack) : Append(stack, entry)[k] = stack[k]
                  /\ Append(stack, entry)[Len(stack) + 1] = entry
                BY <3>0
            <4> QED BY <4>1, <4>2 DEF entry
        <3> SUFFICES ASSUME NEW k \in 1 .. Len(stack) + 1
                     PROVE  new.stack[k].at <= m + 1 + n
            BY <2>1, <3>2 DEF StackBelow
        <3>3. CASE k \in 1 .. Len(stack)
            <4>1. stack[k] \in Headings /\ stack[k].at <= m BY <2>2, <3>0, <3>3
            <4>2. stack[k].at \in Nat BY <4>1 DEF Headings
            <4>3. new.stack[k].at = stack[k].at BY <3>2, <3>3
            <4> QED BY <2>1, <4>1, <4>2, <4>3
        <3>4. CASE k = Len(stack) + 1 BY <2>1, <3>2, <3>4
        <3> QED BY <3>0, <3>3, <3>4
    <2> QED BY <2>4, <2>5 DEF new
<1> QED BY <1>1, <1>2

(* The headings with their bodies, and what stands before the first one.    *)
MarkdownPairs(f) ==
    LET rest == IF Cells(f)[1].marks > 0 THEN Cells(f) ELSE Tail(Cells(f))
    IN  [i \in 1 .. (Len(rest) \div 2) |-> [heading |-> rest[2*i - 1], body |-> rest[2*i]]]

Preface(f) ==
    IF f.preamble.marks > 0 \/ f.preamble.texts = <<>> THEN <<>>
    ELSE <<Element(FALSE, 0, f.preamble.texts, 0)>>

LEMMA PairsType ==
    ASSUME NEW f, IsMarkdown(f)
    PROVE  /\ MarkdownPairs(f) \in Seq(Pairs(MarkdownWords(f)))
           /\ Preface(f) \in Seq(Elements(MarkdownWords(f)))
           /\ UnderTitles(Preface(f))
<1> DEFINE W == MarkdownWords(f)
           cells == Cells(f)
           rest == IF cells[1].marks > 0 THEN cells ELSE Tail(cells)
           half == Len(rest) \div 2
<1>1. cells \in Seq(CellsOf(W)) /\ cells # <<>> /\ cells[1] = f.preamble BY CellsType
<1> HIDE DEF W, cells
<1>2. rest \in Seq(CellsOf(W))
    <2>1. Tail(cells) \in Seq(CellsOf(W)) BY <1>1, HeadTailProperties
    <2> QED BY <1>1, <2>1
<1> HIDE DEF rest
<1>3. half \in Nat /\ 2 * half <= Len(rest) BY <1>2
<1>4. ASSUME NEW i \in 1 .. half PROVE [heading |-> rest[2*i - 1], body |-> rest[2*i]] \in Pairs(W)
    <2>1. 2*i - 1 \in 1 .. Len(rest) /\ 2*i \in 1 .. Len(rest)
        <3> HIDE DEF half
        <3>1. 2*i <= 2*half BY <1>3
        <3>2. Len(rest) \in Nat BY <1>2
        <3> QED BY <1>3, <3>1, <3>2
    <2>2. rest[2*i - 1] \in CellsOf(W) /\ rest[2*i] \in CellsOf(W) BY <1>2, <2>1
    <2> QED BY <2>2 DEF Pairs
<1>5. MarkdownPairs(f) = [i \in 1 .. half |-> [heading |-> rest[2*i - 1], body |-> rest[2*i]]]
    BY DEF MarkdownPairs, rest, cells
<1>6. MarkdownPairs(f) \in Seq(Pairs(W))
    <2> HIDE DEF half
    <2> QED BY <1>3, <1>4, <1>5
<1>7. f.preamble \in CellsOf(W) BY <1>1
<1>8. Element(FALSE, 0, f.preamble.texts, 0) \in Elements(W) BY <1>7 DEF Element, Elements, CellsOf
<1>9. Preface(f) \in Seq(Elements(W))
    <2> DEFINE before == Element(FALSE, 0, f.preamble.texts, 0)
    <2>1. Preface(f) = <<>> \/ Preface(f) = <<before>> BY DEF Preface
    <2> HIDE DEF before
    <2>2. <<>> \in Seq(Elements(W)) OBVIOUS
    <2>3. before \in Elements(W) BY <1>8 DEF before
    <2>4. <<before>> \in Seq(Elements(W)) BY <2>3
    <2> QED BY <2>1, <2>2, <2>4
<1>10. UnderTitles(Preface(f))
    <2>1. Len(<<>>) = 0 OBVIOUS
    <2>2. UnderTitles(<<>>) BY <2>1 DEF UnderTitles
    <2>3. UnderTitles(<<Element(FALSE, 0, f.preamble.texts, 0)>>) BY DEF UnderTitles, Element
    <2> QED BY <2>2, <2>3 DEF Preface
<1> QED BY <1>6, <1>9, <1>10 DEF W

LEMMA LoadedShape ==
    ASSUME NEW f, IsMarkdown(f)
    PROVE  Loaded(f) \in Seq(Elements(MarkdownWords(f))) /\ UnderTitles(Loaded(f))
<1> DEFINE W == MarkdownWords(f)
           pairs == MarkdownPairs(f)
           pre == Preface(f)
           N == Len(pairs)
<1>1. pairs \in Seq(Pairs(W)) /\ pre \in Seq(Elements(W)) /\ UnderTitles(pre) BY PairsType
<1>2. PICK run : Loads(run, pairs, W, pre)
    <2> HIDE DEF W, pairs, pre
    <2> QED BY <1>1, LoadsUnfold
<1>3. Loaded(f) = run[N].elements
    <2>1. Cells(f)[1] = f.preamble BY CellsType
    <2>2. Loaded(f) = FoldLeft(LAMBDA l, p : LoadPair(l, p.heading, p.body),
                               [elements |-> pre, stack |-> <<>>], pairs).elements
        BY <2>1 DEF Loaded, MarkdownPairs, Preface
    <2> HIDE DEF W, pairs, pre
    <2>3. FoldLeft(LAMBDA l, p : LoadPair(l, p.heading, p.body),
                   [elements |-> pre, stack |-> <<>>], pairs) = run[N]
        BY <1>2, Zenon DEF Loads
    <2> QED BY <2>2, <2>3, Zenon
<1> HIDE DEF W, pairs, pre
<1>3a. LoadSteps(run, pairs, W, pre) BY <1>2, Zenon DEF Loads
<1>4. /\ N \in Nat /\ run[0] = [elements |-> pre, stack |-> <<>>]
      /\ \A k \in 0 .. N : run[k] \in Loadings(W)
      /\ \A i \in 1 .. N : run[i] = LoadPair(run[i - 1], pairs[i].heading, pairs[i].body)
    <2>1. N \in Nat BY <1>1
    <2> QED BY <1>3a, <2>1 DEF LoadSteps
<1> DEFINE Q == {k \in 0 .. N : UnderTitles(run[k].elements) /\ StackBelow(run[k])}
<1>5. 0 \in Q BY <1>1, <1>4 DEF StackBelow
<1>6. ASSUME NEW k \in 1 .. N, k - 1 \in Q PROVE k \in Q
    <2>1. run[k - 1] \in Loadings(W) /\ UnderTitles(run[k - 1].elements) /\ StackBelow(run[k - 1])
        BY <1>4, <1>6
    <2>2. pairs[k] \in Pairs(W) BY <1>1
    <2>3. pairs[k].heading \in CellsOf(W) /\ pairs[k].body \in CellsOf(W) BY <2>2 DEF Pairs
    <2>4. UnderTitles(run[k].elements) /\ StackBelow(run[k]) BY <1>4, <2>1, <2>3, LoadPairKeeps
    <2> QED BY <1>4, <2>4
<1>7. N \in Q
    <2>1. \A k \in 1 .. N : k - 1 \in Q => k \in Q BY <1>6
    <2> HIDE DEF Q, N
    <2>2. \A k \in 0 .. N : k \in Q BY <1>4, <1>5, <2>1, UpTo
    <2> QED BY <1>4, <2>2
<1>8. N \in 0 .. N /\ run[N] \in Loadings(W) BY <1>4
<1> QED BY <1>3, <1>7, <1>8 DEF Loadings, W

(* What a parser makes of a file: sections of texts, told apart by the index *)
(* of their parent row, at least as far as their texts differ.               *)
Sectioned(S) ==
    /\ S \in Seq(ToSet(S))
    /\ \A i \in DOMAIN S : S[i].texts \in Seq(ToSet(S[i].texts))
    /\ \A i, j \in DOMAIN S : S[i].index = S[j].index => S[i].texts = S[j].texts

Distinct(S) == \A i, j \in DOMAIN S : S[i].index = S[j].index => i = j

LEMMA OwnMembers ==
    ASSUME NEW C, NEW s \in Seq(C)
    PROVE  s \in Seq(ToSet(s))
<1>1. DOMAIN s = 1 .. Len(s) /\ Len(s) \in Nat OBVIOUS
<1>2. \A i \in 1 .. Len(s) : s[i] \in ToSet(s) BY <1>1 DEF ToSet
<1> QED BY <1>1, <1>2

KeptOf(elements) ==
    Sift(Positions(elements),
         {i \in DOMAIN elements : IF elements[i].title THEN Bucket(elements, i) # <<>>
                                  ELSE elements[i].up = 0})

GatheredAt(elements, i) ==
    FlattenSeq([j \in DOMAIN Bucket(elements, i) |-> elements[Bucket(elements, i)[j]].texts])

SectionFrom(elements, i) ==
    IF elements[i].title
    THEN [path |-> TitlePath(elements)[i], index |-> i, texts |-> GatheredAt(elements, i)]
    ELSE [path |-> <<>>, index |-> NoParent, texts |-> elements[i].texts]

LEMMA MergedIs ==
    \A elements : Merged(elements)
        = [k \in DOMAIN KeptOf(elements) |-> SectionFrom(elements, KeptOf(elements)[k])]
BY Zenon DEF Merged, KeptOf, SectionFrom, GatheredAt

LEMMA GatheredType ==
    ASSUME NEW W, NEW elements \in Seq(Elements(W)), NEW i \in 1 .. Len(elements)
    PROVE  GatheredAt(elements, i) \in Seq(W)
<1> DEFINE bucket == Bucket(elements, i)
           P == {j \in DOMAIN elements : ~elements[j].title /\ elements[j].up = i}
           texts == [j \in DOMAIN bucket |-> elements[bucket[j]].texts]
<1>1. bucket \in Seq(1 .. Len(elements))
    <2>1. bucket = Sift(Positions(elements), P) BY DEF Bucket
    <2> HIDE DEF P, bucket
    <2> QED BY <2>1, SiftedPositions
<1>2. \A j \in 1 .. Len(elements) : elements[j].texts \in Seq(W)
    <2> SUFFICES ASSUME NEW j \in 1 .. Len(elements) PROVE elements[j].texts \in Seq(W) OBVIOUS
    <2>1. elements[j] \in Elements(W) OBVIOUS
    <2> QED BY <2>1 DEF Elements
<1>3. texts \in Seq(Seq(W))
    <2> HIDE DEF bucket
    <2>1. DOMAIN bucket = 1 .. Len(bucket) /\ Len(bucket) \in Nat BY <1>1
    <2>2. \A j \in 1 .. Len(bucket) : elements[bucket[j]].texts \in Seq(W) BY <1>1, <1>2
    <2> QED BY <2>1, <2>2
<1> HIDE DEF texts
<1> QED BY <1>3, FlattenType DEF GatheredAt, texts

LEMMA MergedShape ==
    ASSUME NEW W, NEW elements \in Seq(Elements(W)), UnderTitles(elements)
    PROVE  Sectioned(Merged(elements)) /\ Distinct(Merged(elements))
<1> DEFINE kept == KeptOf(elements)
           P == {i \in DOMAIN elements : IF elements[i].title THEN Bucket(elements, i) # <<>>
                                         ELSE elements[i].up = 0}
           S == Merged(elements)
<1>1. /\ kept \in Seq(1 .. Len(elements)) /\ Increasing(kept)
      /\ \A i \in 1 .. Len(elements) : i \in P <=> \E k \in DOMAIN kept : kept[k] = i
    <2>1. kept = Sift(Positions(elements), P) BY DEF KeptOf
    <2> HIDE DEF P, kept
    <2> QED BY <2>1, SiftedPositions
<1>2. \A k \in 1 .. Len(kept) : kept[k] \in 1 .. Len(elements) /\ kept[k] \in P
    <2> HIDE DEF kept, P
    <2> QED BY <1>1
<1>3. S = [k \in 1 .. Len(kept) |-> SectionFrom(elements, kept[k])]
    <2>1. DOMAIN kept = 1 .. Len(kept) BY <1>1
    <2> HIDE DEF kept
    <2> QED BY <2>1, MergedIs DEF kept
<1>4. \A k \in 1 .. Len(kept) : S[k] = SectionFrom(elements, kept[k])
    <2> HIDE DEF kept, S
    <2> QED BY <1>3
<1>5. S \in Seq(ToSet(S))
    <2> DEFINE C == {SectionFrom(elements, kept[k]) : k \in 1 .. Len(kept)}
    <2>1. S \in Seq(C)
        <3>1. Len(kept) \in Nat BY <1>1
        <3> HIDE DEF kept, S
        <3> QED BY <1>3, <3>1
    <2> HIDE DEF C, S
    <2> QED BY <2>1, OwnMembers
<1>6. DOMAIN S = 1 .. Len(kept)
    <2> HIDE DEF S, kept
    <2> QED BY <1>3
<1>7. ASSUME NEW i \in DOMAIN S PROVE S[i].texts \in Seq(ToSet(S[i].texts))
    <2>1. S[i].texts \in Seq(W)
        <3> DEFINE e == kept[i]
        <3>1. e \in 1 .. Len(elements) BY <1>2, <1>6, <1>7
        <3>2. S[i] = SectionFrom(elements, e) BY <1>4, <1>6, <1>7
        <3> HIDE DEF S, e
        <3>3. elements[e] \in Elements(W) BY <3>1
        <3>4. elements[e].texts \in Seq(W) BY <3>3 DEF Elements
        <3>5. GatheredAt(elements, e) \in Seq(W) BY <3>1, GatheredType
        <3> QED BY <3>2, <3>4, <3>5 DEF SectionFrom
    <2> HIDE DEF S
    <2> QED BY <2>1, OwnMembers
<1>8. ASSUME NEW i \in DOMAIN S, NEW j \in DOMAIN S, S[i].index = S[j].index PROVE i = j
    <2>1. i \in 1 .. Len(kept) /\ j \in 1 .. Len(kept) BY <1>6, <1>8
    <2> DEFINE d == kept[i]
               e == kept[j]
    <2>2. d \in 1 .. Len(elements) /\ d \in P /\ e \in 1 .. Len(elements) /\ e \in P BY <1>2, <2>1
    <2>3. S[i] = SectionFrom(elements, d) /\ S[j] = SectionFrom(elements, e) BY <1>4, <2>1
    <2>4. d = e => i = j
        <3>1. DOMAIN kept = 1 .. Len(kept) /\ d \in Nat /\ e \in Nat BY <1>1, <2>2
        <3>2. (i < j => d < e) /\ (j < i => e < d)
            <4> HIDE DEF kept
            <4> QED BY <1>1, <2>1, <3>1 DEF Increasing
        <3> HIDE DEF d, e, kept
        <3> QED BY <2>1, <3>1, <3>2
    <2>5. (elements[d].title \/ (elements[d].up = 0 /\ d = 1)) /\ (elements[e].title \/ (elements[e].up = 0 /\ e = 1))
        <3> HIDE DEF d, e
        <3>1. /\ elements[d].title \/ elements[d].up = 0
              /\ elements[e].title \/ elements[e].up = 0
            BY <2>2
        <3> QED BY <2>2, <3>1 DEF UnderTitles
    <2>6. /\ S[i].index = IF elements[d].title THEN d ELSE NoParent
          /\ S[j].index = IF elements[e].title THEN e ELSE NoParent
        <3> HIDE DEF S, d, e
        <3> QED BY <2>3 DEF SectionFrom
    <2>7. d # NoParent /\ e # NoParent
        <3>1. d \in Nat /\ e \in Nat BY <2>2
        <3> QED BY <3>1, ParsingAssumption
    <2> HIDE DEF S, d, e, P
    <2> QED BY <1>8, <2>4, <2>5, <2>6, <2>7
<1> HIDE DEF S
<1>9. Distinct(S) BY <1>8 DEF Distinct
<1>10. Sectioned(S) BY <1>5, <1>7, <1>8 DEF Sectioned
<1> QED BY <1>9, <1>10 DEF S

(* The sections of the other formats are the texts they are indexed by.     *)
PlainSections(T) == {Plainly(t) : t \in Seq(T)}

LEMMA PlainShape ==
    ASSUME NEW T, NEW S \in Seq(PlainSections(T))
    PROVE  Sectioned(S)
<1>1. \A i \in DOMAIN S : S[i].texts \in Seq(T) /\ S[i].index = S[i].texts
    <2> SUFFICES ASSUME NEW i \in DOMAIN S PROVE S[i].texts \in Seq(T) /\ S[i].index = S[i].texts OBVIOUS
    <2>1. S[i] \in PlainSections(T) OBVIOUS
    <2>2. PICK t \in Seq(T) : S[i] = Plainly(t) BY <2>1 DEF PlainSections
    <2> QED BY <2>2 DEF Plainly
<1>2. ASSUME NEW i \in DOMAIN S PROVE S[i].texts \in Seq(ToSet(S[i].texts))
    <2>1. S[i].texts \in Seq(T) BY <1>1
    <2> QED BY <2>1, OwnMembers
<1>3. S \in Seq(ToSet(S)) BY OwnMembers
<1> QED BY <1>1, <1>2, <1>3 DEF Sectioned

LEMMA PlainlyEach ==
    ASSUME NEW T, NEW texts \in Seq(Seq(T))
    PROVE  [i \in DOMAIN texts |-> Plainly(texts[i])] \in Seq(PlainSections(T))
<1>1. DOMAIN texts = 1 .. Len(texts) /\ Len(texts) \in Nat OBVIOUS
<1>2. \A i \in 1 .. Len(texts) : Plainly(texts[i]) \in PlainSections(T) BY <1>1 DEF PlainSections
<1> QED BY <1>1, <1>2

LEMMA HtmlType ==
    ASSUME NEW f, IsPlain(f)
    PROVE  HtmlTexts(f) \in Seq(Seq(ToSet(f.elements)))
<1> DEFINE T == ToSet(f.elements)
           N == Len(f.elements)
<1>1. PICK run : Sees(run, f) BY SeesUnfold
<1>2. N \in 0 .. N BY DEF IsPlain, IsSeq
<1>3. HtmlTexts(f) = FlushBuffer(run[N]).docs BY <1>1 DEF HtmlTexts, Sees
<1>4. run[N] \in Buffers(f) BY <1>1, <1>2 DEF Sees
<1>5. \A h \in Buffers(f) : FlushBuffer(h).docs \in Seq(Seq(T))
    <2> SUFFICES ASSUME NEW h \in Buffers(f) PROVE FlushBuffer(h).docs \in Seq(Seq(T)) OBVIOUS
    <2>1. h.docs \in Seq(Seq(T)) /\ h.buffer \in Seq(T) BY DEF Buffers
    <2>2. Append(h.docs, h.buffer) \in Seq(Seq(T)) BY <2>1
    <2>3. FlushBuffer(h).docs = h.docs \/ FlushBuffer(h).docs = Append(h.docs, h.buffer)
        BY DEF FlushBuffer, Buffers
    <2> QED BY <2>1, <2>2, <2>3
<1> QED BY <1>3, <1>4, <1>5

LEMMA ParagraphType ==
    ASSUME NEW f, IsPlain(f)
    PROVE  ParagraphTexts(f) \in Seq(Seq(ToSet(f.elements)))
<1> DEFINE T == ToSet(f.elements)
           all == [i \in DOMAIN f.elements |-> <<f.elements[i]>>]
           P == {i \in DOMAIN all : f.kind = "txt" \/ ~Tiny(all[i])}
<1>1. f.elements \in Seq(T) BY DEF IsPlain, IsSeq
<1>2. all \in Seq(Seq(T))
    <2>1. DOMAIN f.elements = 1 .. Len(f.elements) /\ Len(f.elements) \in Nat BY <1>1
    <2>2. \A i \in 1 .. Len(f.elements) : f.elements[i] \in T BY <1>1
    <2> HIDE DEF T
    <2>3. \A i \in 1 .. Len(f.elements) : <<f.elements[i]>> \in Seq(T) BY <2>2
    <2> QED BY <2>1, <2>3
<1>3. ParagraphTexts(f) = Sift(all, P) BY DEF ParagraphTexts
<1> HIDE DEF all, P, T
<1>4. Sift(all, P) \in Seq(Seq(T)) BY <1>2, SiftType
<1> QED BY <1>3, <1>4 DEF T

(* The lines of a PDF page, with who read them.                             *)
PageTexts == {"pdfium", "pypdf", "ocr", "nobody"} \X Nat \X Nat
Lines == [kind : {"row", "text", "blank"}, text : PageTexts]

Unruled(f, line) == IF line.kind = "row" /\ ~f.tables THEN [line EXCEPT !.kind = "text"] ELSE line
UnruledLines(f, lines) == [i \in DOMAIN lines |-> Unruled(f, lines[i])]

LEMMA BlocksAre ==
    \A f, lines : BlocksOf(f, lines)
        = FlushText(FlushTable(FoldLeft(ReadLine, NoLines, UnruledLines(f, lines)))).blocks
BY Zenon DEF BlocksOf, NoLines, UnruledLines, Unruled

LEMMA PageLinesType ==
    ASSUME NEW f, IsPdf(f), NEW i \in Nat
    PROVE  PageLines(f, i) \in Seq(Lines) /\ Len(PageLines(f, i)) = Len(f.layout)
<1>1. DOMAIN f.layout = 1 .. Len(f.layout) /\ Len(f.layout) \in Nat BY DEF IsPdf
<1>2. \A k \in 1 .. Len(f.layout) : [kind |-> f.layout[k], text |-> <<ParserOf(f, i), i, k>>] \in Lines
    <2> SUFFICES ASSUME NEW k \in 1 .. Len(f.layout)
                 PROVE  [kind |-> f.layout[k], text |-> <<ParserOf(f, i), i, k>>] \in Lines OBVIOUS
    <2>1. f.layout[k] \in {"row", "text", "blank"} BY DEF IsPdf
    <2>2. ParserOf(f, i) \in {"pdfium", "pypdf", "ocr", "nobody"} BY DEF ParserOf
    <2> QED BY <2>1, <2>2 DEF Lines, PageTexts
<1> QED BY <1>1, <1>2 DEF PageLines

LEMMA UnruledType ==
    ASSUME NEW f, NEW lines \in Seq(Lines)
    PROVE  /\ UnruledLines(f, lines) \in Seq(Lines) /\ Len(UnruledLines(f, lines)) = Len(lines)
           /\ \A i \in 1 .. Len(lines) :
                /\ UnruledLines(f, lines)[i].text = lines[i].text
                /\ UnruledLines(f, lines)[i].kind = "blank" <=> lines[i].kind = "blank"
<1>1. DOMAIN lines = 1 .. Len(lines) /\ Len(lines) \in Nat OBVIOUS
<1>2. \A line \in Lines : /\ Unruled(f, line) \in Lines
                          /\ Unruled(f, line).text = line.text
                          /\ Unruled(f, line).kind = "blank" <=> line.kind = "blank"
    BY DEF Unruled, Lines
<1>3. \A i \in 1 .. Len(lines) : lines[i] \in Lines OBVIOUS
<1> QED BY <1>1, <1>2, <1>3 DEF UnruledLines

LEMMA BlocksType ==
    ASSUME NEW f, NEW lines \in Seq(Lines)
    PROVE  BlocksOf(f, lines) \in Seq(Blocks(Lines))
<1> DEFINE E == UnruledLines(f, lines)
           read == FoldLeft(ReadLine, NoLines, E)
<1>1. E \in Seq(Lines) BY UnruledType
<1>2. PICK run : Reads(run, E, Lines)
    <2> HIDE DEF E
    <2> QED BY <1>1, ReadsUnfold
<1>3. Len(E) \in 0 .. Len(E) BY <1>1
<1>4. read \in Pages(Lines)
    <2> HIDE DEF E
    <2> QED BY <1>2, <1>3 DEF Reads
<1>5. BlocksOf(f, lines) = FlushText(FlushTable(read)).blocks BY BlocksAre
<1> HIDE DEF read
<1>6. FlushText(FlushTable(read)) \in Pages(Lines) BY <1>4, FlushType
<1> QED BY <1>5, <1>6 DEF Pages

LEMMA TextsOfType ==
    ASSUME NEW lines \in Seq(Lines)
    PROVE  TextsOf(lines) \in Seq(PageTexts) /\ Len(TextsOf(lines)) = Len(lines)
<1>1. DOMAIN lines = 1 .. Len(lines) /\ Len(lines) \in Nat OBVIOUS
<1>2. ASSUME NEW i \in 1 .. Len(lines) PROVE lines[i].text \in PageTexts
    <2>1. lines[i] \in Lines OBVIOUS
    <2> QED BY <2>1 DEF Lines
<1> QED BY <1>1, <1>2 DEF TextsOf

LEMMA PageSectionsType ==
    ASSUME NEW f, IsPdf(f), NEW i \in Nat
    PROVE  PageSections(f, i) \in Seq(PlainSections(PageTexts))
<1> DEFINE blocks == BlocksOf(f, PageLines(f, i))
<1>1. blocks \in Seq(Blocks(Lines)) BY PageLinesType, BlocksType
<1> HIDE DEF blocks
<1>2. DOMAIN blocks = 1 .. Len(blocks) /\ Len(blocks) \in Nat BY <1>1
<1>3. ASSUME NEW k \in 1 .. Len(blocks)
      PROVE  Plainly(TextsOf(blocks[k].lines)) \in PlainSections(PageTexts)
    <2>1. blocks[k] \in Blocks(Lines) BY <1>1
    <2>2. blocks[k].lines \in Seq(Lines) BY <2>1 DEF Blocks
    <2>3. TextsOf(blocks[k].lines) \in Seq(PageTexts) BY <2>2, TextsOfType
    <2> QED BY <2>3 DEF PlainSections
<1>4. [k \in DOMAIN blocks |-> Plainly(TextsOf(blocks[k].lines))] \in Seq(PlainSections(PageTexts))
    BY <1>2, <1>3
<1>5. PageSections(f, i) = IF i \notin PagesRead(f) THEN <<>>
                           ELSE [k \in DOMAIN blocks |-> Plainly(TextsOf(blocks[k].lines))]
    BY Zenon DEF PageSections, Plainly, blocks
<1>6. <<>> \in Seq(PlainSections(PageTexts)) OBVIOUS
<1> QED BY <1>4, <1>5, <1>6

LEMMA PageCountType ==
    ASSUME NEW f, IsPdf(f)
    PROVE  PageCount(f) \in Nat
<1>1. Len(f.pdfium) \in Nat /\ Len(f.pypdf) \in Nat BY DEF IsPdf, IsSeq
<1> QED BY <1>1 DEF PageCount

LEMMA SectionsShape ==
    ASSUME NEW f \in Files
    PROVE  Sectioned(SectionsOf(f)) /\ (f.kind = "md" => Distinct(SectionsOf(f)))
<1>1. CASE f.kind = "md" /\ IsMarkdown(f)
    <2>1. SectionsOf(f) = Merged(Loaded(f)) BY <1>1 DEF SectionsOf
    <2>2. Loaded(f) \in Seq(Elements(MarkdownWords(f))) /\ UnderTitles(Loaded(f)) BY <1>1, LoadedShape
    <2> QED BY <2>1, <2>2, MergedShape
<1>2. CASE f.kind = "pdf" /\ IsPdf(f)
    <2> DEFINE pages == [i \in 1 .. PageCount(f) |-> PageSections(f, i)]
    <2>1. SectionsOf(f) = FlattenSeq(pages) BY <1>2 DEF SectionsOf
    <2>2. PageCount(f) \in Nat BY <1>2, PageCountType
    <2>3. \A i \in 1 .. PageCount(f) : PageSections(f, i) \in Seq(PlainSections(PageTexts))
        BY <1>2, PageSectionsType
    <2>4. pages \in Seq(Seq(PlainSections(PageTexts))) BY <2>2, <2>3
    <2> HIDE DEF pages
    <2>5. FlattenSeq(pages) \in Seq(PlainSections(PageTexts)) BY <2>4, FlattenType
    <2>6. Sectioned(SectionsOf(f)) BY <2>1, <2>5, PlainShape
    <2> QED BY <1>2, <2>6
<1>3. CASE f.kind = "html" /\ IsPlain(f)
    <2>1. SectionsOf(f) = [i \in DOMAIN HtmlTexts(f) |-> Plainly(HtmlTexts(f)[i])]
        BY <1>3 DEF SectionsOf
    <2>2. SectionsOf(f) \in Seq(PlainSections(ToSet(f.elements))) BY <1>3, <2>1, HtmlType, PlainlyEach
    <2>3. Sectioned(SectionsOf(f)) BY <2>2, PlainShape
    <2> QED BY <1>3, <2>3
<1>4. CASE f.kind \in {"docx", "pptx", "txt"} /\ IsPlain(f)
    <2>1. SectionsOf(f) = [i \in DOMAIN ParagraphTexts(f) |-> Plainly(ParagraphTexts(f)[i])]
        BY <1>4 DEF SectionsOf
    <2>2. SectionsOf(f) \in Seq(PlainSections(ToSet(f.elements))) BY <1>4, <2>1, ParagraphType, PlainlyEach
    <2>3. Sectioned(SectionsOf(f)) BY <2>2, PlainShape
    <2> QED BY <1>4, <2>3
<1> QED BY <1>1, <1>2, <1>3, <1>4, ParsingAssumption

(* The spans of the pieces of a section follow one another.                  *)
Follow(spans, pieces, n) ==
    /\ spans \in Seq(Nat \ {0}) /\ Len(spans) = n
    /\ \A a, b \in 1 .. n : a < b => spans[a] + Len(pieces[a]) <= spans[b]

Behind(s, pieces, n) == \A a \in 1 .. n : s.spans[a] + Len(pieces[a]) <= s.cursor

LEMMA LocatedFollows ==
    ASSUME NEW C, NEW pieces \in Seq(Seq(C)), NEW n \in 1 .. Len(pieces),
           NEW s \in Locations, NEW new, Located(new, s, pieces[n]), new.ok,
           Follow(s.spans, pieces, n - 1), Behind(s, pieces, n - 1)
    PROVE  Follow(new.spans, pieces, n) /\ Behind(new, pieces, n)
<1>1. PICK start \in Nat \ {0} : /\ s.cursor <= start
                                 /\ new.cursor = start + Len(pieces[n])
                                 /\ new.spans = Append(s.spans, start)
    BY DEF Located
<1> DEFINE old == s.spans
           more == Append(old, start)
<1>2. old \in Seq(Nat \ {0}) /\ Len(old) = n - 1 /\ s.cursor \in Nat BY DEF Follow, Locations
<1> HIDE DEF old
<1>3. /\ more \in Seq(Nat \ {0}) /\ Len(more) = n /\ more[n] = start
      /\ \A a \in 1 .. n - 1 : more[a] = old[a]
    BY <1>2
<1>4. \A a \in 1 .. n : Len(pieces[a]) \in Nat
    <2> SUFFICES ASSUME NEW a \in 1 .. n PROVE Len(pieces[a]) \in Nat OBVIOUS
    <2>1. pieces[a] \in Seq(C) OBVIOUS
    <2> QED BY <2>1
<1> HIDE DEF more
<1>5. \A a \in 1 .. n - 1 : old[a] \in Nat /\ a \in 1 .. n /\ old[a] + Len(pieces[a]) <= s.cursor
    BY <1>2 DEF Behind, old
<1>6. \A a \in 1 .. n - 1 : more[a] + Len(pieces[a]) <= start
    <2> SUFFICES ASSUME NEW a \in 1 .. n - 1 PROVE more[a] + Len(pieces[a]) <= start OBVIOUS
    <2>1. old[a] \in Nat /\ old[a] + Len(pieces[a]) <= s.cursor /\ Len(pieces[a]) \in Nat BY <1>4, <1>5
    <2>2. more[a] = old[a] /\ s.cursor <= start /\ s.cursor \in Nat /\ start \in Nat BY <1>1, <1>2, <1>3
    <2> QED BY <2>1, <2>2
<1>7. \A a, b \in 1 .. n : a < b => more[a] + Len(pieces[a]) <= more[b]
    <2> SUFFICES ASSUME NEW a \in 1 .. n, NEW b \in 1 .. n, a < b
                 PROVE  more[a] + Len(pieces[a]) <= more[b] OBVIOUS
    <2>1. CASE b = n
        <3>1. a \in 1 .. n - 1 BY <2>1
        <3> QED BY <1>3, <1>6, <2>1, <3>1
    <2>2. CASE b # n
        <3>1. a \in 1 .. n - 1 /\ b \in 1 .. n - 1 BY <2>2
        <3>2. old[a] + Len(pieces[a]) <= old[b] BY <3>1 DEF Follow, old
        <3> QED BY <1>3, <3>1, <3>2
    <2> QED BY <2>1, <2>2
<1>8. \A a \in 1 .. n : more[a] + Len(pieces[a]) <= start + Len(pieces[n])
    <2> SUFFICES ASSUME NEW a \in 1 .. n PROVE more[a] + Len(pieces[a]) <= start + Len(pieces[n])
        OBVIOUS
    <2>0. more[a] \in Nat /\ Len(pieces[a]) \in Nat /\ Len(pieces[n]) \in Nat BY <1>3, <1>4
    <2>1. CASE a = n BY <1>3, <2>0, <2>1
    <2>2. CASE a # n
        <3>1. a \in 1 .. n - 1 BY <2>2
        <3> QED BY <1>6, <2>0, <3>1
    <2> QED BY <2>1, <2>2
<1>9. new.spans = more BY <1>1 DEF more, old
<1> QED BY <1>1, <1>3, <1>7, <1>8, <1>9 DEF Follow, Behind

LEMMA SpansFollow ==
    ASSUME NEW C, NEW pieces \in Seq(Seq(C)), NEW texts \in Seq(C), Spans(pieces, texts).ok
    PROVE  Follow(Spans(pieces, texts).spans, pieces, Len(pieces))
<1> DEFINE N == Len(pieces)
<1>1. PICK run : Locates(run, pieces, texts) BY LocatesUnfold
<1>2. LocateSteps(run, pieces, texts) BY <1>1, Zenon DEF Locates
<1>3. Spans(pieces, texts) = run[N]
    <2>1. Spans(pieces, texts) = FoldLeft(LAMBDA s, piece : Locate(s, piece, texts), Nowhere, pieces)
        BY Zenon DEF Spans, Nowhere
    <2>2. FoldLeft(LAMBDA s, piece : Locate(s, piece, texts), Nowhere, pieces) = run[N]
        BY <1>1, Zenon DEF Locates
    <2> QED BY <2>1, <2>2, Zenon
<1>4. /\ N \in Nat /\ \A k \in 0 .. N : run[k] \in Locations
      /\ run[0] = Nowhere
      /\ \A k \in 1 .. N : run[k] = Locate(run[k - 1], pieces[k], texts)
    <2>1. N \in Nat OBVIOUS
    <2> QED BY <1>2, <2>1 DEF LocateSteps
<1> HIDE DEF N
<1> DEFINE Q == {k \in 0 .. N : run[k].ok => Follow(run[k].spans, pieces, k) /\ Behind(run[k], pieces, k)}
<1>5. 0 \in Q
    <2>1. <<>> \in Seq(Nat \ {0}) /\ Len(<<>>) = 0 OBVIOUS
    <2>2. run[0].spans = <<>> /\ 0 \in 0 .. N BY <1>4 DEF Nowhere
    <2>3. Follow(run[0].spans, pieces, 0) /\ Behind(run[0], pieces, 0) BY <2>1, <2>2 DEF Follow, Behind
    <2> QED BY <2>2, <2>3
<1>6. ASSUME NEW k \in 1 .. N, k - 1 \in Q PROVE k \in Q
    <2>1. pieces[k] \in Seq(C) /\ k - 1 \in 0 .. N /\ k \in 1 .. Len(pieces) BY DEF N
    <2>2. run[k - 1] \in Locations BY <1>4, <2>1
    <2>3. Located(run[k], run[k - 1], pieces[k])
        <3>1. Located(Locate(run[k - 1], pieces[k], texts), run[k - 1], pieces[k]) BY <2>1, <2>2, LocateStep
        <3> QED BY <1>4, <3>1
    <2> SUFFICES ASSUME run[k].ok PROVE Follow(run[k].spans, pieces, k) /\ Behind(run[k], pieces, k)
        BY <1>4
    <2>4. run[k - 1].ok BY <2>3 DEF Located
    <2>5. Follow(run[k - 1].spans, pieces, k - 1) /\ Behind(run[k - 1], pieces, k - 1) BY <1>6, <2>4
    <2> QED BY <2>1, <2>2, <2>3, <2>5, LocatedFollows
<1>7. N \in Q
    <2>1. \A k \in 1 .. N : k - 1 \in Q => k \in Q BY <1>6
    <2> HIDE DEF Q
    <2>2. \A k \in 0 .. N : k \in Q BY <1>4, <1>5, <2>1, UpTo
    <2> QED BY <1>4, <2>2
<1> QED BY <1>3, <1>7 DEF N

(* What either splitter makes of a section covers it with stretches of it.  *)
Covers(pieces, texts) ==
    /\ pieces \in Seq(Seq(ToSet(texts)))
    /\ \A k \in 1 .. Len(pieces) : Found(pieces[k], texts, 1) # {}
    /\ \A t \in ToSet(texts) : \E k \in 1 .. Len(pieces) : t \in ToSet(pieces[k])

LEMMA WholeIsFound ==
    ASSUME NEW C, NEW texts \in Seq(C)
    PROVE  Found(texts, texts, 1) # {}
<1>1. SubSeq(texts, 1, 1 + Len(texts) - 1) = texts OBVIOUS
<1>2. 1 \in 1 .. (Len(texts) - Len(texts) + 1) OBVIOUS
<1> QED BY <1>1, <1>2 DEF Found

LEMMA PiecesCover ==
    ASSUME NEW texts, texts \in Seq(ToSet(texts)), Len(texts) >= LargeFrom,
           NEW pieces \in Pieces(texts)
    PROVE  Covers(pieces, texts)
<1> DEFINE C == ToSet(texts)
           n == Len(texts)
<1>1. n \in Nat \ {0, 1} /\ DOMAIN texts = 1 .. n /\ \A i \in 1 .. n : texts[i] \in C
    <2>1. LargeFrom \in Nat \ {0, 1} BY ParsingAssumption
    <2> HIDE DEF C
    <2>2. texts \in Seq(C) BY DEF C
    <2>3. n \in Nat /\ DOMAIN texts = 1 .. n /\ \A i \in 1 .. n : texts[i] \in C BY <2>2
    <2> HIDE DEF n
    <2>4. n >= LargeFrom BY DEF n
    <2> QED BY <2>1, <2>3, <2>4
<1>2. \A t \in C : \E i \in 1 .. n : texts[i] = t BY <1>1 DEF ToSet
<1> HIDE DEF C
<1>0. texts \in Seq(C) BY DEF C
<1>3. CASE pieces = SemanticPieces(texts)
    <2>1. pieces = [i \in 1 .. n |-> <<texts[i]>>] BY <1>1, <1>3 DEF SemanticPieces
    <2>2. \A i \in 1 .. n : <<texts[i]>> \in Seq(C) BY <1>1
    <2>3. pieces \in Seq(Seq(C)) /\ Len(pieces) = n BY <1>1, <2>1, <2>2
    <2>4. ASSUME NEW k \in 1 .. n PROVE Found(pieces[k], texts, 1) # {}
        <3>1. pieces[k] = <<texts[k]>> BY <2>1
        <3>2. Len(<<texts[k]>>) = 1 OBVIOUS
        <3>3. SubSeq(texts, k, k + 1 - 1) = <<texts[k]>>
            <4>1. k + 1 - 1 = k /\ k \in 1 .. n OBVIOUS
            <4>2. SubSeq(texts, k, k) = [i \in 1 .. 1 |-> texts[k + i - 1]] BY <1>0, <1>1 DEF SubSeq
            <4>3. [i \in 1 .. 1 |-> texts[k + i - 1]] = <<texts[k]>> BY <1>1
            <4> QED BY <4>1, <4>2, <4>3
        <3>4. k \in 1 .. (n - 1 + 1) BY <1>1
        <3> QED BY <3>1, <3>2, <3>3, <3>4 DEF Found
    <2>5. ASSUME NEW t \in C PROVE \E k \in 1 .. n : t \in ToSet(pieces[k])
        <3>1. PICK i \in 1 .. n : texts[i] = t BY <1>2
        <3>2. pieces[i] = <<t>> BY <2>1, <3>1
        <3>3. t \in ToSet(<<t>>) BY DEF ToSet
        <3> QED BY <3>2, <3>3
    <2> QED BY <2>3, <2>4, <2>5 DEF Covers, C
<1>4. CASE pieces = RecursivePieces(texts)
    <2>1. pieces = [i \in 1 .. (n - 1) |-> <<texts[i], texts[i + 1]>>] BY <1>4 DEF RecursivePieces
    <2>2. \A i \in 1 .. (n - 1) : <<texts[i], texts[i + 1]>> \in Seq(C)
        <3> SUFFICES ASSUME NEW i \in 1 .. (n - 1) PROVE <<texts[i], texts[i + 1]>> \in Seq(C) OBVIOUS
        <3>1. texts[i] \in C /\ texts[i + 1] \in C BY <1>1
        <3> QED BY <3>1
    <2>3. pieces \in Seq(Seq(C)) /\ Len(pieces) = n - 1
        <3>1. n - 1 \in Nat BY <1>1
        <3> QED BY <2>1, <2>2, <3>1
    <2>4. ASSUME NEW k \in 1 .. (n - 1) PROVE Found(pieces[k], texts, 1) # {}
        <3>1. pieces[k] = <<texts[k], texts[k + 1]>> BY <2>1
        <3>2. Len(<<texts[k], texts[k + 1]>>) = 2 OBVIOUS
        <3>3. SubSeq(texts, k, k + 2 - 1) = <<texts[k], texts[k + 1]>>
            <4>1. k + 2 - 1 = k + 1 /\ k \in 1 .. n /\ k + 1 \in 1 .. n BY <1>1
            <4>2. SubSeq(texts, k, k + 1) = [i \in 1 .. 2 |-> texts[k + i - 1]] BY <1>0, <4>1 DEF SubSeq
            <4>3. [i \in 1 .. 2 |-> texts[k + i - 1]] = <<texts[k], texts[k + 1]>> BY <4>1
            <4> QED BY <4>1, <4>2, <4>3
        <3>4. k \in 1 .. (n - 2 + 1) BY <1>1
        <3> QED BY <3>1, <3>2, <3>3, <3>4 DEF Found
    <2>5. ASSUME NEW t \in C PROVE \E k \in 1 .. (n - 1) : t \in ToSet(pieces[k])
        <3>1. PICK i \in 1 .. n : texts[i] = t BY <1>2
        <3>2. CASE i \in 1 .. (n - 1)
            <4>1. pieces[i] = <<t, texts[i + 1]>> BY <2>1, <3>1, <3>2
            <4>2. t \in ToSet(<<t, texts[i + 1]>>) BY DEF ToSet
            <4> QED BY <3>2, <4>1, <4>2
        <3>3. CASE i = n
            <4>1. n - 1 \in 1 .. (n - 1) /\ n - 1 + 1 = n BY <1>1
            <4>2. pieces[n - 1] = <<texts[n - 1], t>> BY <2>1, <3>1, <3>3, <4>1
            <4>3. t \in ToSet(<<texts[n - 1], t>>) BY DEF ToSet
            <4> QED BY <4>1, <4>2, <4>3
        <3>4. i \in 1 .. (n - 1) \/ i = n
            <4>1. n \in Nat \ {0, 1} BY <1>1
            <4> HIDE DEF n
            <4> QED BY <4>1
        <3> QED BY <3>2, <3>3, <3>4, Zenon
    <2> QED BY <2>3, <2>4, <2>5 DEF Covers, C
<1>5. CASE pieces = <<texts>>
    <2>1. pieces \in Seq(Seq(C)) /\ Len(pieces) = 1 /\ pieces[1] = texts BY <1>0, <1>5
    <2>2. Found(texts, texts, 1) # {} BY <1>0, WholeIsFound
    <2> QED BY <2>1, <2>2 DEF Covers, C
<1> QED BY <1>3, <1>4, <1>5 DEF Pieces

(* Whatever part of the parent rows is written, each is its section's.      *)
Owned(rows, S) == \A i \in DOMAIN S : S[i].index \in DOMAIN rows => rows[S[i].index] = S[i].texts

LEMMA StoredAreOwned ==
    ASSUME NEW S, Sectioned(S), NEW kept, kept \subseteq ToSet(S), StoreParents(kept), Owned(parents, S)
    PROVE  Owned(parents', S)
<1>1. PICK stored \in SUBSET kept :
         parents' = [s \in DOMAIN parents \union {k.index : k \in stored} |->
                       IF \E k \in stored : k.index = s THEN (CHOOSE k \in stored : k.index = s).texts
                       ELSE parents[s]]
    BY DEF StoreParents
<1> SUFFICES ASSUME NEW i \in DOMAIN S, S[i].index \in DOMAIN parents'
             PROVE  parents'[S[i].index] = S[i].texts
    BY DEF Owned
<1>2. CASE \E k \in stored : k.index = S[i].index
    <2> DEFINE row == CHOOSE k \in stored : k.index = S[i].index
    <2>1. row \in stored /\ row.index = S[i].index BY <1>2
    <2>2. parents'[S[i].index] = row.texts BY <1>1, <1>2
    <2> HIDE DEF row
    <2>3. PICK j \in DOMAIN S : S[j] = row BY <2>1 DEF ToSet
    <2> QED BY <2>1, <2>2, <2>3 DEF Sectioned
<1>3. CASE ~\E k \in stored : k.index = S[i].index
    <2>1. S[i].index \in DOMAIN parents BY <1>1, <1>3
    <2> QED BY <1>1, <1>3, <2>1 DEF Owned
<1> QED BY <1>2, <1>3

-----------------------------------------------------------------------------
(* The invariant: the sections stay those of the file, every chunk is a      *)
(* stretch of a section that is done, a section that is done is covered, and *)
(* what is left to do after the small sections is large.                     *)
SectionsKept(S) ==
    /\ sections = [i \in DOMAIN S |-> [section |-> S[i], chunked |-> sections[i].chunked]]
    /\ \A i \in DOMAIN S : sections[i].chunked \in BOOLEAN

Stretch(c, s) == c.parent = s.index /\ Found(c.texts, s.texts, 1) # {} /\ c.span \in Nat

ChunksAreOwn ==
    /\ chunks \in Seq(ToSet(chunks))
    /\ \A k \in DOMAIN chunks :
          /\ chunks[k].span > 0 => file.kind = "md"
          /\ \E i \in DOMAIN sections : sections[i].chunked /\ Stretch(chunks[k], SectionAt(i))

Covered(s) == \A t \in ToSet(s.texts) : \E k \in ChunksOf(s) : t \in ToSet(chunks[k].texts)

SectionsCovered == \A i \in DOMAIN sections : sections[i].chunked => Covered(SectionAt(i))

Unparsed == stage \in {"parse", "failed"}

Progress ==
    /\ stage \in {"parse", "failed", "chunk", "split", "done"}
    /\ Unparsed => sections = <<>>
    /\ Unparsed \/ stage = "chunk" =>
         /\ chunks = <<>> /\ DOMAIN parents = {}
         /\ \A i \in DOMAIN sections : ~sections[i].chunked
    /\ stage \in {"split", "done"} =>
         \A i \in DOMAIN sections : ~sections[i].chunked => Large(SectionAt(i))
    /\ stage = "done" => \A i \in DOMAIN sections : sections[i].chunked

ParsingInv ==
    /\ file \in Files
    /\ Progress
    /\ ~Unparsed => SectionsKept(SectionsOf(file)) /\ Owned(parents, SectionsOf(file))
    /\ ChunksAreOwn
    /\ SectionsCovered
    /\ LateSpansAreOwn

(* Nothing is chunked and no row is written before the sections are.         *)
LEMMA NothingChunked ==
    ASSUME chunks = <<>>, \A i \in DOMAIN sections : ~sections[i].chunked
    PROVE  ChunksAreOwn /\ SectionsCovered /\ LateSpansAreOwn
<1>1. DOMAIN chunks = {} OBVIOUS
<1>2. chunks \in Seq(ToSet(chunks)) OBVIOUS
<1> QED BY <1>1, <1>2 DEF ChunksAreOwn, SectionsCovered, LateSpansAreOwn

LEMMA ParsingBegins == ParsingInit => ParsingInv
<1> SUFFICES ASSUME ParsingInit PROVE ParsingInv OBVIOUS
<1>1. /\ file \in Files /\ stage = "parse" /\ sections = <<>> /\ chunks = <<>>
      /\ DOMAIN parents = {} /\ DOMAIN sections = {}
    BY DEF ParsingInit
<1>2. ChunksAreOwn /\ SectionsCovered /\ LateSpansAreOwn BY <1>1, NothingChunked
<1> QED BY <1>1, <1>2 DEF ParsingInv, Progress, Unparsed

LEMMA ParseKeeps == ParsingInv /\ Parse => ParsingInv'
<1> SUFFICES ASSUME ParsingInv, Parse PROVE ParsingInv' OBVIOUS
<1> DEFINE S == SectionsOf(file)
<1>1. /\ file' = file /\ chunks' = chunks /\ parents' = parents /\ stage = "parse" BY DEF Parse
<1>2. /\ file \in Files /\ chunks = <<>> /\ DOMAIN parents = {} /\ sections = <<>>
    BY <1>1 DEF ParsingInv, Progress, Unparsed
<1>3. /\ stage' \in {"failed", "chunk"}
      /\ stage' = "failed" => sections' = <<>>
      /\ stage' = "chunk" => sections' = [i \in DOMAIN S |-> Fresh(S[i])]
    BY <1>2 DEF Parse
<1> HIDE DEF S
<1>4. \A i \in DOMAIN sections' : ~sections'[i].chunked
    <2>1. CASE stage' = "failed"
        <3>1. DOMAIN sections' = {} BY <1>3, <2>1
        <3> QED BY <3>1
    <2>2. CASE stage' = "chunk" BY <1>3, <2>2 DEF Fresh
    <2> QED BY <1>3, <2>1, <2>2
<1>5. (ChunksAreOwn /\ SectionsCovered /\ LateSpansAreOwn)'
    <2>1. chunks' = <<>> /\ DOMAIN chunks' = {} BY <1>1, <1>2
    <2>2. chunks' \in Seq(ToSet(chunks')) BY <2>1
    <2> QED BY <1>4, <2>1, <2>2 DEF ChunksAreOwn, SectionsCovered, LateSpansAreOwn, SectionAt
<1>6. stage' = "chunk" => SectionsKept(S)'
    <2> SUFFICES ASSUME stage' = "chunk"
                 PROVE  /\ sections' = [i \in DOMAIN S |-> [section |-> S[i], chunked |-> sections'[i].chunked]]
                        /\ \A i \in DOMAIN S : sections'[i].chunked \in BOOLEAN
        BY <1>1 DEF SectionsKept, S
    <2>1. sections' = [i \in DOMAIN S |-> [section |-> S[i], chunked |-> FALSE]] BY <1>3 DEF Fresh
    <2>2. \A i \in DOMAIN S : sections'[i].chunked = FALSE BY <2>1
    <2> QED BY <2>1, <2>2
<1>7. Owned(parents, S)' BY <1>1, <1>2 DEF Owned
<1>8. Progress' BY <1>1, <1>2, <1>3, <1>4 DEF Progress, Unparsed
<1> QED BY <1>1, <1>2, <1>3, <1>5, <1>6, <1>7, <1>8 DEF ParsingInv, Unparsed, S

LEMMA ChunkedKeeps == ParsingInv /\ Chunked => ParsingInv'
<1> SUFFICES ASSUME ParsingInv, Chunked PROVE ParsingInv' OBVIOUS
<1>1. /\ stage = "split" /\ stage' = "done" /\ UNCHANGED <<file, sections, chunks, parents>>
      /\ \A i \in DOMAIN sections : sections[i].chunked
    BY DEF Chunked
<1>2. (SectionsKept(SectionsOf(file)) /\ Owned(parents, SectionsOf(file)))'
    BY <1>1 DEF ParsingInv, Unparsed, SectionsKept, Owned
<1>3. (ChunksAreOwn /\ SectionsCovered /\ LateSpansAreOwn)'
    BY <1>1 DEF ParsingInv, ChunksAreOwn, SectionsCovered, Covered, ChunksOf, SectionAt, LateSpansAreOwn
<1>4. Progress' BY <1>1 DEF Progress, Unparsed
<1> QED BY <1>1, <1>2, <1>3, <1>4 DEF ParsingInv

LEMMA KeepSmallKeeps == ParsingInv /\ KeepSmall => ParsingInv'
<1> SUFFICES ASSUME ParsingInv, KeepSmall PROVE ParsingInv' OBVIOUS
<1> DEFINE S == SectionsOf(file)
           small == {i \in DOMAIN S : ~Large(S[i])}
           kept == Sift(S, small)
           rows == {sections[i].section : i \in {j \in {i \in DOMAIN sections : ~Large(sections[i].section)} :
                                                   sections[j].section.index # NoParent}}
<1>1. file \in Files /\ stage = "chunk" /\ stage' = "split" /\ file' = file
    BY DEF ParsingInv, KeepSmall
<1>2. SectionsKept(S) /\ Owned(parents, S) BY <1>1 DEF ParsingInv, Unparsed
<1>3. Sectioned(S) BY <1>1, SectionsShape
<1> HIDE DEF S
<1>4. DOMAIN sections = DOMAIN S /\ \A i \in DOMAIN S : sections[i].section = S[i]
    BY <1>2 DEF SectionsKept
<1>5. {i \in DOMAIN sections : ~Large(sections[i].section)} = small BY <1>4
<1>6. [i \in DOMAIN sections |-> sections[i].section] = S
    <2>1. S = [i \in DOMAIN S |-> S[i]] BY <1>3 DEF Sectioned
    <2> QED BY <1>4, <2>1
<1>7. /\ StoreParents(rows)
      /\ chunks' = [k \in DOMAIN kept |-> Chunk(kept[k], kept[k].texts, 0)]
      /\ sections' = [i \in DOMAIN S |-> [sections[i] EXCEPT !.chunked = i \in small]]
    <2>1. /\ chunks' = [k \in DOMAIN kept |-> Chunk(kept[k], kept[k].texts, 0)]
          /\ sections' = [i \in DOMAIN S |-> [sections[i] EXCEPT !.chunked = i \in small]]
        <3> HIDE DEF small
        <3> QED BY <1>4, <1>5, <1>6 DEF KeepSmall
    <2>2. StoreParents(rows) BY Zenon DEF KeepSmall
    <2> QED BY <2>1, <2>2
<1> HIDE DEF rows
<1>8. Owned(parents', S)
    <2>1. rows \subseteq ToSet(S) BY <1>4 DEF rows, ToSet
    <2> QED BY <1>2, <1>3, <1>7, <2>1, StoredAreOwned
<1>9. /\ DOMAIN sections' = DOMAIN S
      /\ \A i \in DOMAIN S : sections'[i] = [section |-> S[i], chunked |-> i \in small]
    <2>1. \A i \in DOMAIN S : [sections[i] EXCEPT !.chunked = i \in small] = [section |-> S[i], chunked |-> i \in small]
        <3> HIDE DEF small
        <3> QED BY <1>2 DEF SectionsKept
    <2> HIDE DEF small
    <2> QED BY <1>7, <2>1
<1>10. /\ SectionsKept(S)' /\ \A i \in DOMAIN S : sections'[i].section = S[i] /\ sections'[i].chunked = (i \in small)
    <2> HIDE DEF small
    <2>1. sections' = [i \in DOMAIN S |-> [section |-> S[i], chunked |-> sections'[i].chunked]]
        BY <1>7, <1>9
    <2>2. S' = S BY <1>1 DEF S
    <2>3. \A i \in DOMAIN S : sections'[i].section = S[i] /\ sections'[i].chunked = (i \in small)
        BY <1>9
    <2>4. SectionsKept(S)'
        <3>1. \A i \in DOMAIN S : sections'[i].chunked \in BOOLEAN
            <4> SUFFICES ASSUME NEW i \in DOMAIN S PROVE sections'[i].chunked \in BOOLEAN OBVIOUS
            <4>1. sections'[i].chunked = (i \in small) BY <2>3
            <4> QED BY <4>1
        <3> QED BY <2>1, <2>2, <3>1 DEF SectionsKept
    <2> QED BY <2>3, <2>4
<1>11. SiftedMembers(S, small) /\ kept \in Seq(ToSet(S)) /\ DOMAIN S = 1 .. Len(S)
    <2>1. S \in Seq(ToSet(S)) BY <1>3 DEF Sectioned
    <2> HIDE DEF small
    <2> QED BY <2>1, SiftMembers, SiftType
<1>12. ASSUME NEW k \in DOMAIN kept
       PROVE  \E i \in DOMAIN S : i \in small /\ kept[k] = S[i]
    <2> HIDE DEF small
    <2> QED BY <1>11 DEF SiftedMembers
<1>13. ASSUME NEW i \in small PROVE \E k \in DOMAIN kept : kept[k] = S[i]
    <2>1. i \in DOMAIN S OBVIOUS
    <2> HIDE DEF small
    <2> QED BY <1>11, <1>13, <2>1 DEF SiftedMembers
<1>14. DOMAIN chunks' = DOMAIN kept /\ \A k \in DOMAIN kept : chunks'[k] = [texts |-> kept[k].texts, parent |-> kept[k].index, span |-> 0]
    <2> HIDE DEF kept
    <2> QED BY <1>7 DEF Chunk
<1>15. chunks' \in Seq(ToSet(chunks'))
    <2>1. DOMAIN kept = 1 .. Len(kept) /\ Len(kept) \in Nat BY <1>11
    <2> HIDE DEF kept
    <2>2. \A k \in 1 .. Len(kept) : chunks'[k] \in ToSet(chunks') BY <1>14, <2>1 DEF ToSet
    <2>3. chunks' = [k \in 1 .. Len(kept) |-> chunks'[k]] BY <1>7, <2>1
    <2> QED BY <2>1, <2>2, <2>3
<1>16. ASSUME NEW k \in DOMAIN kept
       PROVE  \E i \in DOMAIN S : sections'[i].chunked /\ Stretch(chunks'[k], S[i])
    <2>1. PICK i \in DOMAIN S : i \in small /\ kept[k] = S[i] BY <1>12
    <2>2. S[i].texts \in Seq(ToSet(S[i].texts)) BY <1>3 DEF Sectioned
    <2>3. Found(S[i].texts, S[i].texts, 1) # {} BY <2>2, WholeIsFound
    <2>4. chunks'[k] = [texts |-> S[i].texts, parent |-> S[i].index, span |-> 0] BY <1>14, <2>1
    <2>5. Stretch(chunks'[k], S[i]) BY <2>3, <2>4 DEF Stretch
    <2> QED BY <1>10, <2>1, <2>5
<1>17. ChunksAreOwn'
    <2>1. \A k \in DOMAIN kept : chunks'[k].span = 0 BY <1>14
    <2> HIDE DEF kept, small
    <2> QED BY <1>9, <1>10, <1>14, <1>15, <1>16, <2>1 DEF ChunksAreOwn, SectionAt
<1>18. SectionsCovered'
    <2> SUFFICES ASSUME NEW i \in DOMAIN S, sections'[i].chunked
                 PROVE  \A t \in ToSet(S[i].texts) : \E k \in DOMAIN chunks' :
                            chunks'[k].parent = S[i].index /\ t \in ToSet(chunks'[k].texts)
        <3> HIDE DEF small, kept
        <3> QED BY <1>9, <1>10 DEF SectionsCovered, Covered, ChunksOf, SectionAt
    <2>1. i \in small BY <1>10
    <2>2. PICK k \in DOMAIN kept : kept[k] = S[i] BY <1>13, <2>1
    <2>3. k \in DOMAIN chunks' /\ chunks'[k].parent = S[i].index /\ chunks'[k].texts = S[i].texts
        BY <1>14, <2>2
    <2> QED BY <2>3
<1>19. LateSpansAreOwn'
    <2>1. \A k \in DOMAIN chunks' : ~(chunks'[k].span > 0) BY <1>14
    <2> QED BY <2>1 DEF LateSpansAreOwn
<1>20. \A i \in DOMAIN S : ~sections'[i].chunked => Large(S[i]) BY <1>10
<1>21. Progress' BY <1>1, <1>9, <1>10, <1>20 DEF Progress, Unparsed, SectionAt
<1>22. S' = S BY <1>1 DEF S
<1> QED BY <1>1, <1>8, <1>10, <1>17, <1>18, <1>19, <1>21, <1>22 DEF ParsingInv, S

(* The pieces of one section after the chunks so far.                        *)
NewChunks(s, pieces, start) == [k \in 1 .. Len(pieces) |-> [texts |-> pieces[k], parent |-> s.index, span |-> start[k]]]

Added(old, new, all, n, m) ==
    /\ all \in Seq(ToSet(all)) /\ Len(all) = n + m
    /\ \A k \in 1 .. n : all[k] = old[k]
    /\ \A k \in 1 .. m : all[n + k] = new[k]

LEMMA AddChunks ==
    ASSUME NEW D, NEW old \in Seq(D), NEW E, NEW new \in Seq(E)
    PROVE  Added(old, new, old \o new, Len(old), Len(new))
<1> DEFINE C == D \cup E
<1>1. old \in Seq(C) /\ new \in Seq(C) BY SeqMonotonic
<1> HIDE DEF C
<1>2. old \o new \in Seq(C) BY <1>1
<1>3. Joined(old \o new, old, new) BY <1>1, ConcatAt
<1>4. old \o new \in Seq(ToSet(old \o new)) BY <1>2, OwnMembers
<1> QED BY <1>3, <1>4 DEF Joined, Added

LEMMA SplitLargeKeeps == ParsingInv /\ SplitLarge => ParsingInv'
<1> SUFFICES ASSUME ParsingInv, SplitLarge PROVE ParsingInv' OBVIOUS
<1> DEFINE S == SectionsOf(file)
<1>1. file \in Files /\ stage = "split" /\ stage' = "split" /\ file' = file
    BY DEF ParsingInv, SplitLarge
<1>2. SectionsKept(S) /\ Owned(parents, S) /\ ChunksAreOwn /\ SectionsCovered /\ LateSpansAreOwn
    BY <1>1 DEF ParsingInv, Unparsed
<1>3. Sectioned(S) /\ (file.kind = "md" => Distinct(S)) BY <1>1, SectionsShape
<1> HIDE DEF S
<1>4. DOMAIN sections = DOMAIN S /\ \A i \in DOMAIN S : sections[i].section = S[i]
    BY <1>2 DEF SectionsKept
<1>5. PICK i \in DOMAIN sections :
         LET s == sections[i].section IN
         /\ ~sections[i].chunked
         /\ StoreParents(IF s.index = NoParent THEN {} ELSE {s})
         /\ \E pieces \in Pieces(s.texts), late \in BOOLEAN :
              LET spans == Spans(pieces, s.texts)
                  Start(k) == IF late /\ file.kind = "md" /\ spans.ok THEN spans.spans[k] ELSE 0
              IN  chunks' = chunks \o [k \in DOMAIN pieces |-> Chunk(s, pieces[k], Start(k))]
         /\ sections' = [sections EXCEPT ![i].chunked = TRUE]
    BY Zenon DEF SplitLarge
<1> DEFINE s == S[i]
<1>6. /\ i \in DOMAIN S /\ sections[i].section = s /\ ~sections[i].chunked
      /\ s.texts \in Seq(ToSet(s.texts)) /\ s \in ToSet(S)
    BY <1>3, <1>4, <1>5 DEF Sectioned, ToSet
<1>7. Large(s) BY <1>1, <1>4, <1>5, <1>6 DEF ParsingInv, Progress, SectionAt
<1>8. PICK pieces \in Pieces(s.texts), late \in BOOLEAN :
         LET spans == Spans(pieces, s.texts)
             Start(k) == IF late /\ file.kind = "md" /\ spans.ok THEN spans.spans[k] ELSE 0
         IN  chunks' = chunks \o [k \in DOMAIN pieces |-> Chunk(s, pieces[k], Start(k))]
    BY <1>5, <1>6
<1>9. StoreParents(IF s.index = NoParent THEN {} ELSE {s}) BY <1>5, <1>6
<1>10. sections' = [sections EXCEPT ![i].chunked = TRUE] BY <1>5
<1> HIDE DEF s
<1>11. Covers(pieces, s.texts) BY <1>6, <1>7, PiecesCover DEF Large
<1> DEFINE n == Len(chunks)
           m == Len(pieces)
           spans == Spans(pieces, s.texts)
           start == [k \in 1 .. m |-> IF late /\ file.kind = "md" /\ spans.ok THEN spans.spans[k] ELSE 0]
           new == NewChunks(s, pieces, start)
<1>12. /\ n \in Nat /\ m \in Nat /\ DOMAIN pieces = 1 .. m /\ DOMAIN chunks = 1 .. n
       /\ pieces \in Seq(Seq(ToSet(s.texts)))
    BY <1>2, <1>11 DEF ChunksAreOwn, Covers
<1>13. /\ \A k \in 1 .. m : start[k] \in Nat /\ (start[k] > 0 => file.kind = "md")
       /\ \A k, l \in 1 .. m : k < l /\ start[k] > 0 /\ start[l] > 0
                                 => start[k] + Len(pieces[k]) <= start[l]
    <2>1. CASE late /\ file.kind = "md" /\ spans.ok
        <3>1. Follow(spans.spans, pieces, m) BY <1>6, <1>12, <2>1, SpansFollow
        <3> HIDE DEF spans, m
        <3>2. spans.spans \in Seq(Nat \ {0}) /\ Len(spans.spans) = m BY <3>1 DEF Follow
        <3>3. \A k \in 1 .. m : start[k] = spans.spans[k] /\ spans.spans[k] \in Nat BY <2>1, <3>2
        <3> HIDE DEF start
        <3> QED BY <2>1, <3>1, <3>3 DEF Follow
    <2>2. CASE ~(late /\ file.kind = "md" /\ spans.ok)
        <3> HIDE DEF spans, m
        <3>1. \A k \in 1 .. m : start[k] = 0 BY <2>2
        <3> HIDE DEF start
        <3> QED BY <3>1
    <2> QED BY <2>1, <2>2
<1>14. chunks' = chunks \o new
    <2>1. new = [k \in DOMAIN pieces |-> Chunk(s, pieces[k], start[k])] BY <1>12 DEF NewChunks, Chunk
    <2>2. \A k \in DOMAIN pieces :
             start[k] = IF late /\ file.kind = "md" /\ spans.ok THEN spans.spans[k] ELSE 0
        <3> HIDE DEF spans, m
        <3> QED BY <1>12
    <2> HIDE DEF start, new
    <2> QED BY <1>8, <2>1, <2>2 DEF spans
<1> HIDE DEF spans, start
<1>15. new \in Seq(ToSet(new)) /\ Len(new) = m
       /\ \A k \in 1 .. m : new[k].texts = pieces[k] /\ new[k].parent = s.index /\ new[k].span = start[k]
    <2> HIDE DEF m
    <2>1. DOMAIN new = 1 .. m BY DEF NewChunks, m
    <2>2. \A k \in 1 .. m : new[k] \in ToSet(new) BY <2>1 DEF ToSet
    <2>3. new = [k \in 1 .. m |-> new[k]] BY <2>1 DEF NewChunks
    <2>4. \A k \in 1 .. m : new[k].texts = pieces[k] /\ new[k].parent = s.index /\ new[k].span = start[k]
        BY DEF NewChunks, m
    <2> HIDE DEF new
    <2>5. new \in Seq(ToSet(new)) /\ Len(new) = m
        <3> DEFINE T == ToSet(new)
        <3>1. \A k \in 1 .. m : new[k] \in T BY <2>2
        <3> HIDE DEF T
        <3>2. new \in [1 .. m -> T] BY <2>3, <3>1, Zenon
        <3>3. m \in Nat BY <1>12
        <3>4. new \in Seq(T) /\ Len(new) = m BY <3>2, <3>3
        <3> QED BY <3>4 DEF T
    <2> QED BY <2>4, <2>5
<1> HIDE DEF new
<1>16. Added(chunks, new, chunks', n, m)
    <2>1. chunks \in Seq(ToSet(chunks)) BY <1>2 DEF ChunksAreOwn
    <2>2. Added(chunks, new, chunks \o new, Len(chunks), Len(new)) BY <1>15, <2>1, AddChunks
    <2> QED BY <1>14, <1>15, <2>2
<1> HIDE DEF n, m
<1>17. /\ chunks' \in Seq(ToSet(chunks')) /\ DOMAIN chunks' = 1 .. (n + m)
       /\ \A k \in 1 .. n : chunks'[k] = chunks[k]
       /\ \A k \in 1 .. m : chunks'[n + k] = new[k]
    BY <1>12, <1>16 DEF Added
<1>18. \A k \in DOMAIN chunks' : k \in 1 .. n \/ (k - n \in 1 .. m /\ chunks'[k] = new[k - n] /\ k \notin 1 .. n)
    <2> SUFFICES ASSUME NEW k \in 1 .. (n + m), k \notin 1 .. n
                 PROVE  k - n \in 1 .. m /\ chunks'[k] = new[k - n]
        BY <1>17
    <2> DEFINE l == k - n
    <2>1. l \in 1 .. m /\ n + l = k BY <1>12
    <2> HIDE DEF l
    <2>2. chunks'[k] = new[l] BY <1>17, <2>1
    <2> QED BY <2>1, <2>2 DEF l
<1>19. /\ DOMAIN sections' = DOMAIN S
       /\ \A j \in DOMAIN S : /\ sections'[j].section = S[j]
                              /\ sections'[j].chunked = (j = i \/ sections[j].chunked)
       /\ SectionsKept(S)'
    <2>1. \A j \in DOMAIN S : /\ sections[j] = [section |-> S[j], chunked |-> sections[j].chunked]
                              /\ sections[j].chunked \in BOOLEAN
        BY <1>2 DEF SectionsKept
    <2>2. DOMAIN sections' = DOMAIN S BY <1>4, <1>10
    <2>3. \A j \in DOMAIN S : sections'[j] = IF j = i THEN [sections[i] EXCEPT !.chunked = TRUE] ELSE sections[j]
        BY <1>4, <1>10
    <2>4. ASSUME NEW j \in DOMAIN S
          PROVE  /\ sections'[j] = [section |-> S[j], chunked |-> sections'[j].chunked]
                 /\ sections'[j].chunked \in BOOLEAN
                 /\ sections'[j].section = S[j]
                 /\ sections'[j].chunked = (j = i \/ sections[j].chunked)
        <3>1. CASE j = i
            <4>1. sections[i] = [section |-> S[i], chunked |-> sections[i].chunked] BY <1>6, <2>1
            <4>2. sections'[j] = [sections[i] EXCEPT !.chunked = TRUE] BY <2>3, <3>1
            <4>3. sections'[j] = [section |-> S[j], chunked |-> TRUE]
                <5> DEFINE r == sections[i]
                           x == S[i]
                           c == sections[i].chunked
                <5>1. r = [section |-> x, chunked |-> c] BY <4>1
                <5> HIDE DEF r, x, c
                <5>2. \A v \in BOOLEAN : [r EXCEPT !.chunked = v] = [section |-> x, chunked |-> v] BY <5>1
                <5> QED BY <3>1, <4>2, <5>2 DEF r, x
            <4>4. sections'[j].section = S[j] /\ sections'[j].chunked = TRUE BY <4>3
            <4> QED BY <3>1, <4>3, <4>4
        <3>2. CASE j # i
            <4>1. sections'[j] = sections[j] BY <2>3, <3>2
            <4>2. sections[j] = [section |-> S[j], chunked |-> sections[j].chunked] /\ sections[j].chunked \in BOOLEAN
                BY <2>1
            <4>3. sections'[j].chunked = (j = i \/ sections[j].chunked) BY <3>2, <4>1, <4>2
            <4> QED BY <1>4, <4>1, <4>2, <4>3
        <3> QED BY <3>1, <3>2
    <2>5. sections' = [j \in DOMAIN S |-> sections'[j]] BY <1>4, <1>10
    <2>6. sections' = [j \in DOMAIN S |-> [section |-> S[j], chunked |-> sections'[j].chunked]]
        BY <2>4, <2>5
    <2>7. S' = S BY <1>1 DEF S
    <2>8. SectionsKept(S)' BY <2>4, <2>6, <2>7 DEF SectionsKept
    <2> QED BY <2>2, <2>4, <2>8
<1>20. ChunksAreOwn'
    <2> SUFFICES ASSUME NEW k \in DOMAIN chunks'
                 PROVE  /\ chunks'[k].span > 0 => file.kind = "md"
                        /\ \E j \in DOMAIN S : sections'[j].chunked /\ Stretch(chunks'[k], S[j])
        BY <1>1, <1>17, <1>19 DEF ChunksAreOwn, SectionAt
    <2>1. CASE k \in 1 .. n
        <3>1. k \in DOMAIN chunks /\ chunks'[k] = chunks[k] BY <1>12, <1>17, <2>1
        <3>2. PICK j \in DOMAIN sections : sections[j].chunked /\ Stretch(chunks[k], SectionAt(j))
            BY <1>2, <3>1 DEF ChunksAreOwn
        <3>3. j \in DOMAIN S /\ SectionAt(j) = S[j] BY <1>4, <3>2 DEF SectionAt
        <3> QED BY <1>2, <1>19, <3>1, <3>2, <3>3 DEF ChunksAreOwn
    <2>2. CASE k - n \in 1 .. m /\ chunks'[k] = new[k - n]
        <3>1. /\ new[k - n].texts = pieces[k - n] /\ new[k - n].parent = s.index
              /\ new[k - n].span = start[k - n] /\ start[k - n] \in Nat
              /\ start[k - n] > 0 => file.kind = "md"
            BY <1>13, <1>15, <2>2
        <3>2. Found(pieces[k - n], s.texts, 1) # {} BY <1>11, <2>2 DEF Covers, m
        <3>3. Stretch(chunks'[k], S[i]) BY <2>2, <3>1, <3>2 DEF Stretch, s
        <3> QED BY <1>6, <1>19, <2>2, <3>1, <3>3
    <2> QED BY <1>18, <2>1, <2>2
<1>21. SectionsCovered'
    <2> SUFFICES ASSUME NEW j \in DOMAIN S, sections'[j].chunked, NEW t \in ToSet(S[j].texts)
                 PROVE  \E k \in DOMAIN chunks' : chunks'[k].parent = S[j].index /\ t \in ToSet(chunks'[k].texts)
        BY <1>19 DEF SectionsCovered, Covered, ChunksOf, SectionAt
    <2>1. CASE j = i
        <3>1. PICK k \in 1 .. m : t \in ToSet(pieces[k]) BY <1>11, <2>1 DEF Covers, s, m
        <3>2. chunks'[n + k] = new[k] /\ n + k \in DOMAIN chunks' BY <1>12, <1>17, <3>1
        <3>3. new[k].texts = pieces[k] /\ new[k].parent = S[j].index BY <1>15, <2>1, <3>1 DEF s
        <3> QED BY <3>1, <3>2, <3>3
    <2>2. CASE sections[j].chunked
        <3>1. Covered(S[j]) BY <1>2, <1>4, <2>2 DEF SectionsCovered, SectionAt
        <3>2. PICK k \in DOMAIN chunks : chunks[k].parent = S[j].index /\ t \in ToSet(chunks[k].texts)
            BY <3>1 DEF Covered, ChunksOf
        <3>3. k \in DOMAIN chunks' /\ chunks'[k] = chunks[k] BY <1>12, <1>17, <3>2
        <3> QED BY <3>2, <3>3
    <2> QED BY <1>19, <2>1, <2>2
<1>22. LateSpansAreOwn'
    <2> SUFFICES ASSUME NEW k \in DOMAIN chunks', NEW l \in DOMAIN chunks', k < l,
                        chunks'[k].parent = chunks'[l].parent, chunks'[k].span > 0, chunks'[l].span > 0
                 PROVE  chunks'[k].span + Len(chunks'[k].texts) <= chunks'[l].span
        BY DEF LateSpansAreOwn
    <2>0. k \in Nat /\ l \in Nat /\ n \in Nat BY <1>12, <1>17
    <2>1. CASE k \in 1 .. n /\ l \in 1 .. n
        <3>1. k \in DOMAIN chunks /\ l \in DOMAIN chunks /\ chunks'[k] = chunks[k] /\ chunks'[l] = chunks[l]
            BY <1>12, <1>17, <2>1
        <3> QED BY <1>2, <3>1 DEF LateSpansAreOwn
    <2>2. CASE k \in 1 .. n /\ l \notin 1 .. n
        <3>1. k \in DOMAIN chunks /\ chunks'[k] = chunks[k] BY <1>12, <1>17, <2>2
        <3>2. l - n \in 1 .. m /\ chunks'[l] = new[l - n] BY <1>18, <2>2
        <3>3. chunks[k].parent = s.index BY <1>15, <3>1, <3>2
        <3>4. file.kind = "md" BY <1>2, <3>1 DEF ChunksAreOwn
        <3>5. PICK j \in DOMAIN sections : sections[j].chunked /\ Stretch(chunks[k], SectionAt(j))
            BY <1>2, <3>1 DEF ChunksAreOwn
        <3>6. j \in DOMAIN S /\ S[j].index = S[i].index BY <1>4, <3>3, <3>5 DEF SectionAt, Stretch, s
        <3>7. j = i BY <1>3, <1>6, <3>4, <3>6 DEF Distinct
        <3> QED BY <1>6, <3>5, <3>7
    <2>3. CASE k \notin 1 .. n
        <3>1. l \notin 1 .. n BY <1>17, <2>0, <2>3
        <3>2. /\ k - n \in 1 .. m /\ chunks'[k] = new[k - n]
              /\ l - n \in 1 .. m /\ chunks'[l] = new[l - n]
            BY <1>18, <2>3, <3>1
        <3>3. k - n < l - n BY <2>0
        <3>4. /\ chunks'[k].span = start[k - n] /\ chunks'[k].texts = pieces[k - n]
              /\ chunks'[l].span = start[l - n]
            BY <1>15, <3>2
        <3> QED BY <1>13, <3>2, <3>3, <3>4
    <2> QED BY <2>1, <2>2, <2>3
<1>23. Owned(parents', S)
    <2>1. (IF s.index = NoParent THEN {} ELSE {s}) \subseteq ToSet(S) BY <1>6 DEF s
    <2> QED BY <1>2, <1>3, <1>9, <2>1, StoredAreOwned
<1>24. Progress'
    <2>1. \A j \in DOMAIN S : ~sections'[j].chunked => Large(S[j])
        BY <1>1, <1>4, <1>19 DEF ParsingInv, Progress, SectionAt
    <2> QED BY <1>1, <1>19, <2>1 DEF Progress, Unparsed, SectionAt
<1>25. S' = S BY <1>1 DEF S
<1> QED BY <1>1, <1>19, <1>20, <1>21, <1>22, <1>23, <1>24, <1>25 DEF ParsingInv, S

(* The inductive invariant of the way from a file to its chunks.             *)
THEOREM ParsingInvariant == ParsingSpec => []ParsingInv
<1>1. ParsingInit => ParsingInv BY ParsingBegins
<1>2. ParsingInv /\ [ParsingNext]_parsingVars => ParsingInv'
    <2> SUFFICES ASSUME ParsingInv, [ParsingNext]_parsingVars PROVE ParsingInv' OBVIOUS
    <2>1. CASE UNCHANGED parsingVars
        <3>1. UNCHANGED <<file, stage, sections, chunks, parents>> BY <2>1 DEF parsingVars
        <3>2. (ChunksAreOwn /\ SectionsCovered /\ LateSpansAreOwn)'
            BY <3>1 DEF ParsingInv, ChunksAreOwn, SectionsCovered, Covered, ChunksOf, SectionAt, LateSpansAreOwn
        <3>3. Progress' BY <3>1 DEF ParsingInv, Progress, Unparsed, SectionAt
        <3>4. ~Unparsed' => (SectionsKept(SectionsOf(file)) /\ Owned(parents, SectionsOf(file)))'
            BY <3>1 DEF ParsingInv, Unparsed, SectionsKept, Owned
        <3> QED BY <3>1, <3>2, <3>3, <3>4 DEF ParsingInv
    <2>2. CASE Parse BY <2>2, ParseKeeps
    <2>3. CASE KeepSmall BY <2>3, KeepSmallKeeps
    <2>4. CASE SplitLarge BY <2>4, SplitLargeKeeps
    <2>5. CASE Chunked BY <2>5, ChunkedKeeps
    <2> QED BY <2>1, <2>2, <2>3, <2>4, <2>5 DEF ParsingNext
<1> QED BY <1>1, <1>2, PTL DEF ParsingSpec

(* Whatever the splitters do and however much of the parent store is         *)
(* written, every text of every section is in a chunk of it, every chunk is a *)
(* stretch of its section, and the parent row it leads to is that section     *)
(* (_chunk_documents, _split_documents).                                      *)
THEOREM ChunksCover == ParsingSpec => []ChunksCoverSections
<1>1. ParsingInv => ChunksCoverSections
    <2> SUFFICES ASSUME ParsingInv, stage = "done", NEW i \in DOMAIN sections
                 PROVE  LET s == SectionAt(i) IN
                        /\ \A t \in ToSet(s.texts) : \E k \in ChunksOf(s) : t \in ToSet(chunks[k].texts)
                        /\ \A k \in ChunksOf(s) : Found(chunks[k].texts, s.texts, 1) # {}
                        /\ s.index \in DOMAIN parents => parents[s.index] = s.texts
        BY DEF ChunksCoverSections
    <2> DEFINE S == SectionsOf(file)
    <2>1. SectionsKept(S) /\ Owned(parents, S) /\ file \in Files BY DEF ParsingInv, Unparsed
    <2>2. Sectioned(S) BY <2>1, SectionsShape
    <2> HIDE DEF S
    <2>3. DOMAIN sections = DOMAIN S /\ \A j \in DOMAIN S : SectionAt(j) = S[j]
        BY <2>1 DEF SectionsKept, SectionAt
    <2>4. Covered(SectionAt(i)) BY DEF ParsingInv, Progress, SectionsCovered
    <2>5. ASSUME NEW k \in ChunksOf(SectionAt(i)) PROVE Found(chunks[k].texts, SectionAt(i).texts, 1) # {}
        <3>1. k \in DOMAIN chunks /\ chunks[k].parent = SectionAt(i).index BY DEF ChunksOf
        <3>2. PICK j \in DOMAIN sections : Stretch(chunks[k], SectionAt(j))
            BY <3>1 DEF ParsingInv, ChunksAreOwn
        <3>3. S[i].texts = S[j].texts BY <2>2, <2>3, <3>1, <3>2 DEF Sectioned, Stretch
        <3> QED BY <2>3, <3>2, <3>3 DEF Stretch
    <2> QED BY <2>1, <2>3, <2>4, <2>5 DEF Covered, Owned
<1> QED BY <1>1, ParsingInvariant, PTL

(* The pieces of a section that carry a late vector were embedded from spans  *)
(* that hold their own text and follow one another, whatever the pieces are   *)
(* and wherever the same text stands twice (_maybe_apply_late_chunking).      *)
THEOREM LateSpans == ParsingSpec => []LateSpansAreOwn
<1>1. ParsingInv => LateSpansAreOwn BY DEF ParsingInv
<1> QED BY <1>1, ParsingInvariant, PTL

-----------------------------------------------------------------------------
(* What is sifted depends on the members up to a position only.              *)
LEMMA SiftAgree ==
    ASSUME NEW C, NEW s \in Seq(C), NEW P, NEW a, Sifts(a, C, s, P),
           NEW D, NEW t \in Seq(D), NEW Q, NEW b, Sifts(b, D, t, Q),
           NEW n \in Nat, n <= Len(s), n <= Len(t),
           \A i \in 1 .. n : s[i] = t[i] /\ (i \in P <=> i \in Q)
    PROVE  a[n] = b[n]
<1> DEFINE R == {i \in 0 .. n : a[i] = b[i]}
<1>1. 0 \in R BY DEF Sifts
<1>2. ASSUME NEW i \in 1 .. n, i - 1 \in R PROVE i \in R
    <2>1. i \in 1 .. Len(s) /\ i \in 1 .. Len(t) /\ a[i - 1] = b[i - 1] BY <1>2
    <2>2. a[i] = IF i \in P THEN Append(a[i - 1], s[i]) ELSE a[i - 1] BY <2>1 DEF Sifts
    <2>3. b[i] = IF i \in Q THEN Append(b[i - 1], t[i]) ELSE b[i - 1] BY <2>1 DEF Sifts
    <2> QED BY <2>1, <2>2, <2>3
<1>3. \A i \in 1 .. n : i - 1 \in R => i \in R BY <1>2
<1> HIDE DEF R
<1>4. \A i \in 0 .. n : i \in R BY <1>1, <1>3, UpTo
<1> QED BY <1>4 DEF R

LEMMA SiftSame ==
    ASSUME NEW C, NEW s \in Seq(C), NEW P, NEW Q, \A i \in 1 .. Len(s) : i \in P <=> i \in Q
    PROVE  Sift(s, P) = Sift(s, Q)
<1>1. PICK a : Sifts(a, C, s, P) BY SiftUnfolds
<1>2. PICK b : Sifts(b, C, s, Q) BY SiftUnfolds
<1>3. Len(s) \in Nat OBVIOUS
<1>4. a[Len(s)] = b[Len(s)] BY <1>1, <1>2, <1>3, SiftAgree
<1> QED BY <1>1, <1>2, <1>4 DEF Sifts

SiftedMore(a, x, P) ==
    Sift(Append(a, x), P) = IF Len(a) + 1 \in P THEN Append(Sift(a, P), x) ELSE Sift(a, P)

LEMMA SiftAppend ==
    ASSUME NEW C, NEW a \in Seq(C), NEW x \in C, NEW P
    PROVE  SiftedMore(a, x, P)
<1> DEFINE n == Len(a)
           more == Append(a, x)
<1>1. more \in Seq(C) /\ Len(more) = n + 1 /\ n \in Nat /\ more[n + 1] = x /\ \A i \in 1 .. n : more[i] = a[i]
    OBVIOUS
<1> HIDE DEF more
<1>2. PICK old : Sifts(old, C, a, P) BY SiftUnfolds
<1>3. PICK new : Sifts(new, C, more, P) BY <1>1, SiftUnfolds
<1>4. new[n] = old[n]
    <2>1. n <= Len(a) /\ n <= Len(more) BY <1>1
    <2> HIDE DEF n
    <2> QED BY <1>1, <1>2, <1>3, <2>1, SiftAgree
<1>5. n + 1 \in 1 .. Len(more) /\ n + 1 - 1 = n BY <1>1
<1>6. new[n + 1] = IF n + 1 \in P THEN Append(new[n], x) ELSE new[n] BY <1>1, <1>3, <1>5 DEF Sifts
<1>7. Sift(more, P) = new[n + 1] /\ Sift(a, P) = old[n] BY <1>1, <1>2, <1>3 DEF Sifts
<1> QED BY <1>4, <1>6, <1>7 DEF SiftedMore, more

(* Long texts: a text more, and of what is sifted.                           *)
LongMore(a, x) == LongOf(Append(a, x)) = IF x.tiny THEN LongOf(a) ELSE Append(LongOf(a), x)

LEMMA LongAppend ==
    ASSUME NEW C, NEW a \in Seq(C), NEW x \in C
    PROVE  LongMore(a, x)
<1> DEFINE n == Len(a)
           more == Append(a, x)
           P == {i \in DOMAIN a : ~a[i].tiny}
           Q == {i \in DOMAIN more : ~more[i].tiny}
<1>1. /\ more \in Seq(C) /\ DOMAIN more = 1 .. (n + 1) /\ DOMAIN a = 1 .. n
      /\ n \in Nat /\ more[n + 1] = x /\ \A i \in 1 .. n : more[i] = a[i]
    OBVIOUS
<1>2. LongOf(more) = Sift(more, Q) /\ LongOf(a) = Sift(a, P) BY DEF LongOf
<1>3. SiftedMore(a, x, Q) BY SiftAppend
<1>4. Sift(more, Q) = IF n + 1 \in Q THEN Append(Sift(a, Q), x) ELSE Sift(a, Q) BY <1>3 DEF SiftedMore
<1> HIDE DEF more
<1>5. n + 1 \in Q <=> ~x.tiny BY <1>1
<1>6. \A i \in 1 .. n : i \in P <=> i \in Q BY <1>1
<1> HIDE DEF P, Q
<1>7. Sift(a, P) = Sift(a, Q) BY <1>6, SiftSame DEF n
<1> QED BY <1>2, <1>4, <1>5, <1>7 DEF LongMore, more

LEMMA LongSifted ==
    ASSUME NEW C, NEW s \in Seq(C), NEW P
    PROVE  LongOf(Sift(s, P)) = Sift(s, {i \in P : ~s[i].tiny})
<1> DEFINE Q == {i \in P : ~s[i].tiny}
           N == Len(s)
<1>1. PICK a : Sifts(a, C, s, P) BY SiftUnfolds
<1>2. PICK b : Sifts(b, C, s, Q) BY SiftUnfolds
<1>3. /\ N \in Nat /\ a[0] = <<>> /\ b[0] = <<>> /\ \A n \in 0 .. N : a[n] \in Seq(C)
      /\ Sift(s, P) = a[N] /\ Sift(s, Q) = b[N]
    <2>1. N \in Nat OBVIOUS
    <2> HIDE DEF Q
    <2>2. a[0] = <<>> /\ Sift(s, P) = a[N] /\ \A n \in 0 .. N : a[n] \in Seq(C) BY <1>1 DEF Sifts
    <2>3. b[0] = <<>> /\ Sift(s, Q) = b[N] BY <1>2 DEF Sifts
    <2> QED BY <2>1, <2>2, <2>3
<1>4. \A n \in 1 .. N : /\ a[n] = IF n \in P THEN Append(a[n - 1], s[n]) ELSE a[n - 1]
                        /\ b[n] = IF n \in P /\ ~s[n].tiny THEN Append(b[n - 1], s[n]) ELSE b[n - 1]
    BY <1>1, <1>2 DEF Sifts
<1> DEFINE R == {n \in 0 .. N : LongOf(a[n]) = b[n]}
<1>5. 0 \in R
    <2>1. LongOf(<<>>) = <<>>
        <3> DEFINE none == {i \in DOMAIN <<>> : ~<<>>[i].tiny}
        <3>1. LongOf(<<>>) = Sift(<<>>, none) BY DEF LongOf
        <3>2. <<>> \in Seq({}) /\ Len(<<>>) = 0 OBVIOUS
        <3> HIDE DEF none
        <3>3. Sift(<<>>, none) \in Seq({}) BY <3>2, SiftType
        <3>4. \A x \in Seq({}) : x = <<>> OBVIOUS
        <3> QED BY <3>1, <3>3, <3>4
    <2> QED BY <1>3, <2>1
<1>6. ASSUME NEW n \in 1 .. N, n - 1 \in R PROVE n \in R
    <2>1. a[n - 1] \in Seq(C) /\ s[n] \in C /\ LongOf(a[n - 1]) = b[n - 1] BY <1>3, <1>6
    <2>2. LongMore(a[n - 1], s[n]) BY <2>1, LongAppend
    <2>3. LongOf(a[n]) = b[n] BY <1>4, <2>1, <2>2 DEF LongMore
    <2> QED BY <1>3, <2>3
<1>7. \A n \in 1 .. N : n - 1 \in R => n \in R BY <1>6
<1>8. N \in R
    <2> HIDE DEF R, N
    <2>1. \A n \in 0 .. N : n \in R BY <1>3, <1>5, <1>7, UpTo
    <2> QED BY <1>3, <2>1
<1> QED BY <1>3, <1>8

(* Concatenation: a sequence more, and the members one by one.               *)
LEMMA FlattenOne ==
    ASSUME NEW C, NEW y \in Seq(C)
    PROVE  <<y>> \in Seq(Seq(C)) /\ FlattenSeq(<<y>>) = y
<1>1. <<y>> \in Seq(Seq(C)) /\ Len(<<y>>) = 1 /\ <<y>>[1] = y OBVIOUS
<1> DEFINE one == <<y>>
<1> HIDE DEF one
<1>2. one \in Seq(Seq(C)) /\ Len(one) = 1 /\ one[1] = y BY <1>1 DEF one
<1>3. PICK flat : Flattens(flat, C, one) BY <1>2, FlattenUnfolds
<1>4. FlattenSeq(one) = flat[1] /\ flat[1] = flat[0] \o one[1] /\ flat[0] = <<>> BY <1>2, <1>3 DEF Flattens
<1>5. <<>> \o y = y OBVIOUS
<1> QED BY <1>2, <1>4, <1>5 DEF one

LEMMA FlattenAppend ==
    ASSUME NEW C, NEW a \in Seq(Seq(C)), NEW y \in Seq(C)
    PROVE  FlattenSeq(Append(a, y)) = FlattenSeq(a) \o y
<1>1. <<y>> \in Seq(Seq(C)) /\ FlattenSeq(<<y>>) = y BY FlattenOne
<1>2. Append(a, y) = a \o <<y>> OBVIOUS
<1>3. FlattenSeq(a \o <<y>>) = FlattenSeq(a) \o FlattenSeq(<<y>>) BY <1>1, FlattenConcat
<1> QED BY <1>1, <1>2, <1>3

LEMMA ConcatSingle == \A C : \A a \in Seq(C), x \in C : a \o <<x>> = Append(a, x)
OBVIOUS

Singles(s) == [i \in DOMAIN s |-> <<s[i]>>]

LEMMA SinglesType ==
    ASSUME NEW C, NEW s \in Seq(C)
    PROVE  /\ Singles(s) \in Seq(Seq(C)) /\ Len(Singles(s)) = Len(s)
           /\ \A i \in 1 .. Len(s) : Singles(s)[i] = <<s[i]>>
<1>1. DOMAIN s = 1 .. Len(s) /\ Len(s) \in Nat OBVIOUS
<1>2. \A i \in 1 .. Len(s) : <<s[i]>> \in Seq(C)
    <2> SUFFICES ASSUME NEW i \in 1 .. Len(s) PROVE <<s[i]>> \in Seq(C) OBVIOUS
    <2>1. s[i] \in C OBVIOUS
    <2> QED BY <2>1
<1> QED BY <1>1, <1>2 DEF Singles

LEMMA FlattenSifted ==
    ASSUME NEW C, NEW s \in Seq(C), NEW P
    PROVE  FlattenSeq(Sift(Singles(s), P)) = Sift(s, P)
<1> DEFINE all == Singles(s)
           N == Len(s)
<1>1. all \in Seq(Seq(C)) /\ Len(all) = N /\ \A i \in 1 .. N : all[i] = <<s[i]>> BY SinglesType
<1> HIDE DEF all
<1>2. PICK a : Sifts(a, Seq(C), all, P) BY <1>1, SiftUnfolds
<1>3. PICK b : Sifts(b, C, s, P) BY SiftUnfolds
<1>4. /\ N \in Nat /\ a[0] = <<>> /\ b[0] = <<>>
      /\ \A n \in 0 .. N : a[n] \in Seq(Seq(C)) /\ b[n] \in Seq(C)
      /\ Sift(all, P) = a[N] /\ Sift(s, P) = b[N]
    <2>1. N \in Nat OBVIOUS
    <2>2. a[0] = <<>> /\ Sift(all, P) = a[N] /\ \A n \in 0 .. N : a[n] \in Seq(Seq(C))
        BY <1>1, <1>2 DEF Sifts
    <2>3. b[0] = <<>> /\ Sift(s, P) = b[N] /\ \A n \in 0 .. N : b[n] \in Seq(C) BY <1>3 DEF Sifts
    <2> QED BY <2>1, <2>2, <2>3
<1>5. \A n \in 1 .. N : /\ a[n] = IF n \in P THEN Append(a[n - 1], all[n]) ELSE a[n - 1]
                        /\ b[n] = IF n \in P THEN Append(b[n - 1], s[n]) ELSE b[n - 1]
    BY <1>1, <1>2, <1>3 DEF Sifts
<1> DEFINE R == {n \in 0 .. N : FlattenSeq(a[n]) = b[n]}
<1>6. 0 \in R BY <1>4, FlattenEmpty
<1>7. ASSUME NEW n \in 1 .. N, n - 1 \in R PROVE n \in R
    <2>1. a[n - 1] \in Seq(Seq(C)) /\ b[n - 1] \in Seq(C) /\ s[n] \in C /\ FlattenSeq(a[n - 1]) = b[n - 1]
        BY <1>4, <1>7
    <2>2. all[n] = <<s[n]>> /\ <<s[n]>> \in Seq(C) BY <1>1, <2>1
    <2>3. FlattenSeq(Append(a[n - 1], <<s[n]>>)) = FlattenSeq(a[n - 1]) \o <<s[n]>>
        <3> DEFINE x == a[n - 1]
                   y == <<s[n]>>
        <3>1. x \in Seq(Seq(C)) /\ y \in Seq(C) BY <2>1, <2>2
        <3> HIDE DEF x, y
        <3>2. FlattenSeq(Append(x, y)) = FlattenSeq(x) \o y BY <3>1, FlattenAppend
        <3> QED BY <3>2 DEF x, y
    <2>4. b[n - 1] \o <<s[n]>> = Append(b[n - 1], s[n]) BY <2>1, ConcatSingle
    <2>5. FlattenSeq(a[n]) = b[n] BY <1>5, <2>1, <2>2, <2>3, <2>4
    <2> QED BY <1>4, <2>5
<1>8. \A n \in 1 .. N : n - 1 \in R => n \in R BY <1>7
<1>9. N \in R
    <2> HIDE DEF R, N
    <2>1. \A n \in 0 .. N : n \in R BY <1>4, <1>6, <1>8, UpTo
    <2> QED BY <1>4, <2>1
<1> QED BY <1>4, <1>9 DEF all

-----------------------------------------------------------------------------
(* The texts of the sections, against what is in the file.                   *)
SectionTexts(S) == [i \in DOMAIN S |-> S[i].texts]

TextsKept(f, kept) ==
    IF f.kind \in {"pdf", "txt"} THEN kept = Reading(f) ELSE LongOf(kept) = LongOf(Reading(f))

LEMMA PlainlyTexts ==
    ASSUME NEW T, NEW texts \in Seq(Seq(T))
    PROVE  SectionTexts([i \in DOMAIN texts |-> Plainly(texts[i])]) = texts
<1> DEFINE S == [i \in DOMAIN texts |-> Plainly(texts[i])]
<1>1. \A i \in DOMAIN texts : S[i].texts = texts[i] BY DEF Plainly
<1>2. DOMAIN S = DOMAIN texts OBVIOUS
<1> HIDE DEF S
<1>3. SectionTexts(S) = [i \in DOMAIN texts |-> texts[i]] BY <1>1, <1>2 DEF SectionTexts
<1>4. texts = [i \in DOMAIN texts |-> texts[i]] OBVIOUS
<1> QED BY <1>3, <1>4 DEF S

LEMMA ParagraphsKept ==
    ASSUME NEW f, IsPlain(f), f.kind \in {"docx", "pptx", "txt"}
    PROVE  TextsKept(f, FlattenSeq(SectionTexts(SectionsOf(f))))
<1> DEFINE E == f.elements
           T == ToSet(E)
           all == Singles(E)
           P == {i \in DOMAIN all : f.kind = "txt" \/ ~Tiny(all[i])}
           Q == {i \in DOMAIN E : ~E[i].heading}
           kept == FlattenSeq(SectionTexts(SectionsOf(f)))
<1>1. E \in Seq(T) /\ DOMAIN E = 1 .. Len(E) /\ \A i \in 1 .. Len(E) : ~E[i].heading
    BY DEF IsPlain, IsSeq
<1>2. SectionsOf(f) = [i \in DOMAIN ParagraphTexts(f) |-> Plainly(ParagraphTexts(f)[i])]
    BY DEF SectionsOf
<1>3. ParagraphTexts(f) = Sift(all, P) BY DEF ParagraphTexts, Singles
<1>4. kept = FlattenSeq(Sift(all, P)) BY <1>2, <1>3, ParagraphType, PlainlyTexts
<1>5. kept = Sift(E, P)
    <2> HIDE DEF P, T, E, kept
    <2> QED BY <1>1, <1>4, FlattenSifted
<1>6. Reading(f) = Sift(E, Q) BY DEF Reading
<1>7. \A i \in 1 .. Len(E) : i \in P <=> (f.kind = "txt" \/ ~E[i].tiny)
    <2>1. DOMAIN all = 1 .. Len(E) /\ \A i \in 1 .. Len(E) : all[i] = <<E[i]>> BY <1>1 DEF Singles
    <2>2. \A x : Tiny(<<x>>) <=> x.tiny BY DEF Tiny
    <2> HIDE DEF all, E
    <2> QED BY <2>1, <2>2
<1>8. \A i \in 1 .. Len(E) : i \in Q BY <1>1
<1> HIDE DEF P, Q, E, T, kept
<1>9. CASE f.kind = "txt"
    <2>1. Sift(E, P) = Sift(E, Q) BY <1>1, <1>7, <1>8, <1>9, SiftSame
    <2> QED BY <1>5, <1>6, <1>9, <2>1 DEF TextsKept, kept
<1>10. CASE f.kind # "txt"
    <2> DEFINE LP == {i \in P : ~E[i].tiny}
               LQ == {i \in Q : ~E[i].tiny}
    <2>1. LongOf(Sift(E, P)) = Sift(E, LP) /\ LongOf(Sift(E, Q)) = Sift(E, LQ) BY <1>1, LongSifted
    <2>2. \A i \in 1 .. Len(E) : i \in LP <=> i \in LQ BY <1>7, <1>8, <1>10
    <2> HIDE DEF LP, LQ
    <2>3. Sift(E, LP) = Sift(E, LQ) BY <1>1, <2>2, SiftSame
    <2> QED BY <1>5, <1>6, <1>10, <2>1, <2>3 DEF TextsKept, kept
<1> QED BY <1>9, <1>10

(* HTML: the texts of the sections so far and of the one under construction. *)
Buffered(h) == FlattenSeq(h.docs) \o h.buffer

LEMMA ConcatAppend ==
    \A C : \A a, b \in Seq(C), x \in C : a \o Append(b, x) = Append(a \o b, x) /\ a \o <<>> = a
OBVIOUS

LEMMA BufferedType ==
    ASSUME NEW f, NEW h \in Buffers(f)
    PROVE  /\ FlattenSeq(h.docs) \in Seq(ToSet(f.elements)) /\ h.buffer \in Seq(ToSet(f.elements))
           /\ Buffered(h) \in Seq(ToSet(f.elements))
<1>1. h.docs \in Seq(Seq(ToSet(f.elements))) /\ h.buffer \in Seq(ToSet(f.elements)) BY DEF Buffers
<1>2. FlattenSeq(h.docs) \in Seq(ToSet(f.elements)) BY <1>1, FlattenType
<1> DEFINE x == FlattenSeq(h.docs)
           y == h.buffer
<1> HIDE DEF x, y
<1>3. x \in Seq(ToSet(f.elements)) /\ y \in Seq(ToSet(f.elements)) BY <1>1, <1>2 DEF x, y
<1>4. x \o y \in Seq(ToSet(f.elements)) BY <1>3
<1> QED BY <1>1, <1>2, <1>4 DEF Buffered, x, y

LEMMA FlushKeepsLong ==
    ASSUME NEW f, NEW h \in Buffers(f)
    PROVE  LongOf(Buffered(FlushBuffer(h))) = LongOf(Buffered(h)) /\ FlushBuffer(h).buffer = <<>>
<1> DEFINE T == ToSet(f.elements)
           docs == h.docs
           b == h.buffer
           F == FlattenSeq(docs)
<1>1. docs \in Seq(Seq(T)) /\ b \in Seq(T) /\ F \in Seq(T) BY BufferedType DEF Buffers
<1>2. Buffered(h) = F \o b BY DEF Buffered
<1>3. CASE b = <<>> \/ Tiny(b)
    <2>1. FlushBuffer(h).docs = docs /\ FlushBuffer(h).buffer = <<>> BY <1>3 DEF FlushBuffer, Buffers
    <2> HIDE DEF T, F, b, docs
    <2>2. Buffered(FlushBuffer(h)) = F \o <<>> BY <2>1 DEF Buffered, F
    <2>3. F \o <<>> = F BY <1>1, ConcatAppend
    <2>4. CASE b = <<>> BY <1>2, <2>1, <2>2, <2>4
    <2>5. CASE Tiny(b)
        <3> DEFINE x == b[1]
        <3>0. Len(b) = 1 /\ x.tiny BY <2>5 DEF Tiny
        <3>1. x \in T /\ b = <<x>> /\ x.tiny
            <4>1. 1 \in 1 .. Len(b) BY <3>0
            <4>2. b[1] \in T BY <1>1, <4>1
            <4>3. b = <<b[1]>> BY <1>1, <3>0
            <4> QED BY <3>0, <4>2, <4>3
        <3> HIDE DEF x
        <3>2. F \o b = Append(F, x) BY <1>1, <3>1, ConcatSingle
        <3>3. LongMore(F, x) BY <1>1, <3>1, LongAppend
        <3>4. LongOf(Append(F, x)) = LongOf(F) BY <3>1, <3>3 DEF LongMore
        <3> QED BY <1>2, <2>1, <2>2, <2>3, <3>2, <3>4
    <2> QED BY <1>3, <2>4, <2>5
<1>4. CASE ~(b = <<>> \/ Tiny(b))
    <2>1. FlushBuffer(h).docs = Append(docs, b) /\ FlushBuffer(h).buffer = <<>> BY <1>4 DEF FlushBuffer
    <2> HIDE DEF T, F, b, docs
    <2>2. Buffered(FlushBuffer(h)) = FlattenSeq(Append(docs, b)) \o <<>> BY <2>1 DEF Buffered
    <2>3. FlattenSeq(Append(docs, b)) = F \o b BY <1>1, FlattenAppend DEF F
    <2>4. Buffered(h) \in Seq(T) BY BufferedType DEF T
    <2>5. Buffered(FlushBuffer(h)) = Buffered(h) BY <1>2, <2>2, <2>3, <2>4, ConcatAppend
    <2> QED BY <2>1, <2>5
<1> QED BY <1>3, <1>4

LEMMA HtmlKept ==
    ASSUME NEW f, IsPlain(f), f.kind = "html"
    PROVE  TextsKept(f, FlattenSeq(SectionTexts(SectionsOf(f))))
<1> DEFINE E == f.elements
           T == ToSet(E)
           N == Len(E)
           Q == {i \in DOMAIN E : ~E[i].heading}
           kept == FlattenSeq(SectionTexts(SectionsOf(f)))
<1>1. E \in Seq(T) /\ DOMAIN E = 1 .. N /\ N \in Nat BY DEF IsPlain, IsSeq
<1>2. SectionsOf(f) = [i \in DOMAIN HtmlTexts(f) |-> Plainly(HtmlTexts(f)[i])] BY DEF SectionsOf
<1>3. kept = FlattenSeq(HtmlTexts(f)) BY <1>2, HtmlType, PlainlyTexts
<1>4. PICK run : Sees(run, f) BY SeesUnfold
<1>5. PICK b : Sifts(b, T, E, Q)
    <2> HIDE DEF T, E, Q
    <2> QED BY <1>1, SiftUnfolds
<1>6. Reading(f) = b[N] BY <1>5 DEF Reading, Sifts
<1>7. HtmlTexts(f) = FlushBuffer(run[N]).docs BY <1>4 DEF HtmlTexts, Sees
<1>8. /\ \A n \in 0 .. N : run[n] \in Buffers(f)
      /\ run[0] = [docs |-> <<>>, buffer |-> <<>>]
      /\ \A n \in 1 .. N : run[n] = See(run[n - 1], E[n])
    BY <1>1, <1>4 DEF Sees
<1>9. /\ \A n \in 0 .. N : b[n] \in Seq(T)
      /\ b[0] = <<>>
      /\ \A n \in 1 .. N : b[n] = IF n \in Q THEN Append(b[n - 1], E[n]) ELSE b[n - 1]
    <2> HIDE DEF T, E, Q, N
    <2> QED BY <1>1, <1>5 DEF Sifts, N
<1>10. \A n \in 1 .. N : n \in Q <=> ~E[n].heading BY <1>1
<1> DEFINE R == {n \in 0 .. N : LongOf(Buffered(run[n])) = LongOf(b[n])}
<1> HIDE DEF T, E, Q, N, kept
<1>11. 0 \in R
    <2>1. Buffered(run[0]) = <<>>
        <3>1. <<>> \o <<>> = <<>> OBVIOUS
        <3> QED BY <1>8, <3>1, FlattenEmpty DEF Buffered
    <2> QED BY <1>1, <1>9, <2>1
<1>12. ASSUME NEW n \in 1 .. N, n - 1 \in R PROVE n \in R
    <2> DEFINE h == run[n - 1]
               x == E[n]
               d == b[n - 1]
    <2>1. h \in Buffers(f) /\ x \in T /\ d \in Seq(T) /\ LongOf(Buffered(h)) = LongOf(d)
        BY <1>1, <1>8, <1>9, <1>12 DEF N
    <2>2. run[n] = See(h, x) /\ b[n] = IF n \in Q THEN Append(d, x) ELSE d BY <1>8, <1>9
    <2> HIDE DEF h, x, d
    <2>3. CASE x.heading
        <3>1. run[n] = FlushBuffer(h) /\ b[n] = d BY <1>10, <2>2, <2>3 DEF See, x
        <3>2. LongOf(Buffered(FlushBuffer(h))) = LongOf(Buffered(h)) BY <2>1, FlushKeepsLong
        <3> QED BY <1>1, <2>1, <3>1, <3>2
    <2>4. CASE ~x.heading
        <3>1. run[n] = [h EXCEPT !.buffer = Append(@, x)] /\ b[n] = Append(d, x)
            BY <1>10, <2>2, <2>4 DEF See, x
        <3>2. run[n].docs = h.docs /\ run[n].buffer = Append(h.buffer, x) BY <2>1, <3>1 DEF Buffers
        <3>3. FlattenSeq(h.docs) \in Seq(T) /\ h.buffer \in Seq(T) /\ Buffered(h) \in Seq(T)
            BY <2>1, BufferedType DEF T, E
        <3>4. Buffered(run[n]) = Append(Buffered(h), x)
            <4> DEFINE u == FlattenSeq(h.docs)
                       v == h.buffer
            <4>1. u \in Seq(T) /\ v \in Seq(T) BY <3>3
            <4>2. Buffered(run[n]) = u \o Append(v, x) /\ Buffered(h) = u \o v BY <3>2 DEF Buffered
            <4> HIDE DEF u, v
            <4>3. u \o Append(v, x) = Append(u \o v, x) BY <2>1, <4>1, ConcatAppend
            <4> QED BY <4>2, <4>3
        <3>5. LongMore(Buffered(h), x) /\ LongMore(d, x) BY <2>1, <3>3, LongAppend
        <3>6. LongOf(Buffered(run[n])) = LongOf(b[n]) BY <2>1, <3>1, <3>4, <3>5 DEF LongMore
        <3> QED BY <1>1, <3>6
    <2> QED BY <2>3, <2>4
<1>13. \A n \in 1 .. N : n - 1 \in R => n \in R BY <1>12
<1>14. N \in R
    <2> HIDE DEF R
    <2>1. \A n \in 0 .. N : n \in R BY <1>1, <1>11, <1>13, UpTo
    <2> QED BY <1>1, <2>1
<1>15. run[N] \in Buffers(f) /\ LongOf(Buffered(run[N])) = LongOf(Reading(f)) BY <1>1, <1>6, <1>8, <1>14
<1>16. LongOf(Buffered(FlushBuffer(run[N]))) = LongOf(Reading(f)) /\ FlushBuffer(run[N]).buffer = <<>>
    BY <1>15, FlushKeepsLong
<1>17. FlattenSeq(HtmlTexts(f)) \in Seq(T) BY HtmlType, FlattenType DEF T, E
<1>18. Buffered(FlushBuffer(run[N])) = FlattenSeq(HtmlTexts(f))
    BY <1>7, <1>16, <1>17, ConcatAppend DEF Buffered
<1> QED BY <1>3, <1>16, <1>18 DEF TextsKept, kept

(* PDF: the lines of the blocks so far and of the one under construction.    *)
LinesOf(blocks) == [k \in DOMAIN blocks |-> blocks[k].lines]

Held(b) == (FlattenSeq(LinesOf(b.blocks)) \o b.text) \o b.table

\* A row that is waiting to become a table is behind the text before it.
InOrder(b) == b.table # <<>> => b.text = <<>>

LEMMA LinesOfType ==
    ASSUME NEW L, NEW blocks \in Seq(Blocks(L))
    PROVE  LinesOf(blocks) \in Seq(Seq(L)) /\ FlattenSeq(LinesOf(blocks)) \in Seq(L)
<1>1. DOMAIN blocks = 1 .. Len(blocks) /\ Len(blocks) \in Nat OBVIOUS
<1>2. \A k \in 1 .. Len(blocks) : blocks[k].lines \in Seq(L)
    <2> SUFFICES ASSUME NEW k \in 1 .. Len(blocks) PROVE blocks[k].lines \in Seq(L) OBVIOUS
    <2>1. blocks[k] \in Blocks(L) OBVIOUS
    <2> QED BY <2>1 DEF Blocks
<1>3. LinesOf(blocks) \in Seq(Seq(L)) BY <1>1, <1>2 DEF LinesOf
<1> QED BY <1>3, FlattenType

LEMMA LinesOfMore ==
    ASSUME NEW L, NEW blocks \in Seq(Blocks(L)), NEW block \in Blocks(L)
    PROVE  FlattenSeq(LinesOf(Append(blocks, block))) = FlattenSeq(LinesOf(blocks)) \o block.lines
<1> DEFINE more == Append(blocks, block)
<1>1. /\ more \in Seq(Blocks(L)) /\ DOMAIN more = 1 .. (Len(blocks) + 1) /\ DOMAIN blocks = 1 .. Len(blocks)
      /\ Len(blocks) \in Nat /\ more[Len(blocks) + 1] = block
      /\ \A k \in 1 .. Len(blocks) : more[k] = blocks[k]
    OBVIOUS
<1>2. LinesOf(blocks) \in Seq(Seq(L)) /\ Len(LinesOf(blocks)) = Len(blocks) BY LinesOfType DEF LinesOf
<1>3. block.lines \in Seq(L) BY DEF Blocks
<1> HIDE DEF more
<1> DEFINE line == block.lines
           old == LinesOf(blocks)
<1>4. LinesOf(more) = Append(old, line)
    <2>1. DOMAIN LinesOf(more) = 1 .. (Len(blocks) + 1) BY <1>1 DEF LinesOf
    <2>2. LinesOf(more)[Len(blocks) + 1] = line BY <1>1 DEF LinesOf
    <2>3. \A k \in 1 .. Len(blocks) : LinesOf(more)[k] = old[k] BY <1>1 DEF LinesOf
    <2>4. LinesOf(more) \in Seq(Seq(L)) /\ Len(LinesOf(more)) = Len(blocks) + 1
        <3>1. LinesOf(more) \in Seq(Seq(L)) BY <1>1, LinesOfType
        <3> QED BY <1>1, <2>1, <3>1
    <2> HIDE DEF old, line
    <2>5. /\ Append(old, line) \in Seq(Seq(L)) /\ Len(Append(old, line)) = Len(blocks) + 1
          /\ Append(old, line)[Len(blocks) + 1] = line
          /\ \A k \in 1 .. Len(blocks) : Append(old, line)[k] = old[k]
        BY <1>1, <1>2, <1>3 DEF old, line
    <2> DEFINE x == LinesOf(more)
               y == Append(old, line)
               n == Len(blocks)
    <2>6. \A k \in 1 .. n + 1 : x[k] = y[k]
        <3> SUFFICES ASSUME NEW k \in 1 .. n + 1 PROVE x[k] = y[k] OBVIOUS
        <3>1. k \in 1 .. n \/ k = n + 1 BY <1>1
        <3> QED BY <2>2, <2>3, <2>5, <3>1
    <2> HIDE DEF x, y, n
    <2>7. x \in Seq(Seq(L)) /\ y \in Seq(Seq(L)) /\ Len(x) = n + 1 /\ Len(y) = n + 1
        BY <2>4, <2>5 DEF x, y, n
    <2>8. x = y BY <2>6, <2>7, SeqEqual
    <2> QED BY <2>8 DEF x, y
<1>5. FlattenSeq(Append(old, line)) = FlattenSeq(old) \o line
    <2>1. old \in Seq(Seq(L)) /\ line \in Seq(L) BY <1>2, <1>3
    <2> HIDE DEF old, line
    <2> QED BY <2>1, FlattenAppend
<1> QED BY <1>4, <1>5 DEF more

LEMMA HeldType ==
    ASSUME NEW L, NEW b \in Pages(L)
    PROVE  /\ FlattenSeq(LinesOf(b.blocks)) \in Seq(L) /\ b.text \in Seq(L) /\ b.table \in Seq(L)
           /\ b.blocks \in Seq(Blocks(L)) /\ Held(b) \in Seq(L)
<1> DEFINE x == FlattenSeq(LinesOf(b.blocks))
           y == b.text
           z == b.table
<1>1. x \in Seq(L) /\ y \in Seq(L) /\ z \in Seq(L) /\ b.blocks \in Seq(Blocks(L))
    BY LinesOfType DEF Pages
<1> HIDE DEF x, y, z
<1>2. x \o y \in Seq(L) BY <1>1
<1> DEFINE xy == x \o y
<1>3. Held(b) = xy \o z BY DEF Held, x, y, z
<1> HIDE DEF xy
<1>4. xy \o z \in Seq(L) BY <1>1, <1>2 DEF xy
<1> QED BY <1>1, <1>3, <1>4 DEF x, y, z

LEMMA ConcatNone == \A C : \A x \in Seq(C) : x \o <<>> = x /\ <<>> \o x = x
OBVIOUS

HeldAs(new, b, L) == new \in Pages(L) /\ InOrder(new) /\ Held(new) = Held(b)

LEMMA FlushTextHolds ==
    ASSUME NEW L, NEW b \in Pages(L), InOrder(b)
    PROVE  HeldAs(FlushText(b), b, L) /\ FlushText(b).text = <<>> /\ FlushText(b).table = b.table
<1> DEFINE x == FlattenSeq(LinesOf(b.blocks))
           new == FlushText(b)
<1>1. /\ x \in Seq(L) /\ b.text \in Seq(L) /\ b.table \in Seq(L) /\ b.blocks \in Seq(Blocks(L))
      /\ new \in Pages(L)
    BY HeldType, FlushType
<1>2. CASE b.text = <<>>
    <2>1. new = b BY <1>2 DEF FlushText
    <2> QED BY <1>1, <1>2, <2>1 DEF HeldAs
<1>3. CASE b.text # <<>>
    <2> DEFINE block == [type |-> "text", lines |-> b.text]
    <2>1. new = [b EXCEPT !.text = <<>>, !.blocks = Append(@, block)] BY <1>3 DEF FlushText
    <2>2. block \in Blocks(L) /\ block.lines = b.text BY <1>1 DEF Blocks
    <2> HIDE DEF block
    <2>3. new.text = <<>> /\ new.table = b.table /\ new.blocks = Append(b.blocks, block) BY <2>1 DEF Pages
    <2>4. FlattenSeq(LinesOf(new.blocks)) = x \o b.text BY <1>1, <2>2, <2>3, LinesOfMore
    <2>5. b.table = <<>> BY <1>3 DEF InOrder
    <2> HIDE DEF new, x
    <2>6. Held(new) = ((x \o b.text) \o <<>>) \o <<>> BY <2>3, <2>4, <2>5 DEF Held
    <2>7. x \o b.text \in Seq(L) BY <1>1
    <2>8. (x \o b.text) \o <<>> = x \o b.text BY <2>7, ConcatNone
    <2>9. Held(b) = (x \o b.text) \o <<>> BY <2>5 DEF Held, x
    <2>10. InOrder(new) BY <2>3 DEF InOrder
    <2> QED BY <1>1, <2>3, <2>6, <2>8, <2>9, <2>10 DEF HeldAs, new
<1> QED BY <1>2, <1>3

LEMMA FlushTableHolds ==
    ASSUME NEW L, NEW b \in Pages(L), InOrder(b)
    PROVE  HeldAs(FlushTable(b), b, L) /\ FlushTable(b).table = <<>>
<1> DEFINE x == FlattenSeq(LinesOf(b.blocks))
           new == FlushTable(b)
<1>1. /\ x \in Seq(L) /\ b.text \in Seq(L) /\ b.table \in Seq(L) /\ b.blocks \in Seq(Blocks(L))
      /\ new \in Pages(L)
    BY HeldType, FlushType
<1>2. CASE Len(b.table) < 2
    <2>1. new = [b EXCEPT !.table = <<>>, !.text = @ \o b.table] BY <1>2 DEF FlushTable
    <2>2. new.table = <<>> /\ new.blocks = b.blocks /\ new.text = b.text \o b.table BY <2>1 DEF Pages
    <2> DEFINE y == b.text
               z == b.table
    <2> HIDE DEF new, x, y, z
    <2>3. Held(new) = (x \o (y \o z)) \o <<>> BY <2>2 DEF Held, x, y, z
    <2>4. x \in Seq(L) /\ y \in Seq(L) /\ z \in Seq(L) BY <1>1 DEF y, z
    <2>5. (x \o y) \o z = x \o (y \o z) BY <2>4, ConcatOnce, SMTT(90)
    <2>6. Held(b) = (x \o y) \o z BY DEF Held, x, y, z
    <2>7. Held(b) \in Seq(L) BY HeldType
    <2>8. Held(b) \o <<>> = Held(b) BY <2>7, ConcatNone
    <2>9. Held(new) = Held(b) BY <2>3, <2>5, <2>6, <2>8
    <2>10. InOrder(new) BY <2>2 DEF InOrder
    <2> QED BY <1>1, <2>2, <2>9, <2>10 DEF HeldAs, new
<1>3. CASE ~(Len(b.table) < 2)
    <2> DEFINE block == [type |-> "table", lines |-> b.table]
    <2>1. new = [b EXCEPT !.table = <<>>, !.blocks = Append(@, block)] BY <1>3 DEF FlushTable
    <2>2. block \in Blocks(L) /\ block.lines = b.table BY <1>1 DEF Blocks
    <2> HIDE DEF block
    <2>3. new.text = b.text /\ new.table = <<>> /\ new.blocks = Append(b.blocks, block) BY <2>1 DEF Pages
    <2>4. FlattenSeq(LinesOf(new.blocks)) = x \o b.table BY <1>1, <2>2, <2>3, LinesOfMore
    <2>5. b.text = <<>>
        <3>1. b.table # <<>> BY <1>3
        <3> QED BY <3>1 DEF InOrder
    <2> DEFINE z == b.table
    <2> HIDE DEF new, x, z
    <2>6. Held(new) = ((x \o z) \o <<>>) \o <<>> BY <2>3, <2>4, <2>5 DEF Held, z
    <2>7. x \in Seq(L) /\ z \in Seq(L) /\ x \o z \in Seq(L) BY <1>1 DEF z
    <2>8. (x \o z) \o <<>> = x \o z /\ x \o <<>> = x BY <2>7, ConcatNone
    <2>9. Held(b) = (x \o <<>>) \o z BY <2>5 DEF Held, x, z
    <2>10. InOrder(new) BY <2>3 DEF InOrder
    <2> QED BY <1>1, <2>3, <2>6, <2>8, <2>9, <2>10 DEF HeldAs, new
<1> QED BY <1>2, <1>3

(* One line more is held behind the others, unless it is blank.              *)
ReadMore(new, b, line, L) ==
    /\ new \in Pages(L) /\ InOrder(new)
    /\ Held(new) = IF line.kind = "blank" THEN Held(b) ELSE Append(Held(b), line)

LEMMA ReadLineHolds ==
    ASSUME NEW L, NEW b \in Pages(L), InOrder(b), NEW line \in L
    PROVE  ReadMore(ReadLine(b, line), b, line, L)
<1> DEFINE new == ReadLine(b, line)
<1>1. CASE line.kind = "blank"
    <2> DEFINE c == FlushTable(b)
    <2>1. HeldAs(c, b, L) BY FlushTableHolds
    <2>2. new = FlushText(c) BY <1>1 DEF ReadLine
    <2> HIDE DEF c, new
    <2>3. HeldAs(FlushText(c), c, L) BY <2>1, FlushTextHolds DEF HeldAs
    <2> QED BY <1>1, <2>1, <2>2, <2>3 DEF HeldAs, ReadMore, new
<1>2. CASE line.kind = "row"
    <2> DEFINE c == FlushText(b)
    <2>1. HeldAs(c, b, L) /\ c.text = <<>> BY FlushTextHolds
    <2>2. new = [c EXCEPT !.table = Append(@, line)] BY <1>2 DEF ReadLine
    <2> HIDE DEF c
    <2>3. c \in Pages(L) BY <2>1 DEF HeldAs
    <2>4. new \in Pages(L) BY <2>2, <2>3, AppendedType
    <2>5. new.text = <<>> /\ new.blocks = c.blocks /\ new.table = Append(c.table, line)
        BY <2>1, <2>2, <2>3 DEF Pages
    <2> HIDE DEF new
    <2> DEFINE xy == FlattenSeq(LinesOf(c.blocks)) \o c.text
               z == c.table
    <2>6. Held(new) = xy \o Append(z, line) /\ Held(c) = xy \o z BY <2>1, <2>5 DEF Held
    <2>7. xy \in Seq(L) /\ z \in Seq(L)
        <3> DEFINE x == FlattenSeq(LinesOf(c.blocks))
                   y == c.text
        <3>1. x \in Seq(L) /\ y \in Seq(L) /\ z \in Seq(L) BY <2>3, HeldType
        <3> HIDE DEF x, y
        <3>2. x \o y \in Seq(L) BY <3>1
        <3> QED BY <3>1, <3>2 DEF x, y
    <2> HIDE DEF xy, z
    <2>8. xy \o Append(z, line) = Append(xy \o z, line) BY <2>7, ConcatAppend
    <2>9. Held(new) = Append(Held(b), line) BY <2>1, <2>6, <2>8 DEF HeldAs
    <2>10. InOrder(new) BY <2>5 DEF InOrder
    <2> QED BY <1>2, <2>4, <2>9, <2>10 DEF ReadMore, new
<1>3. CASE line.kind \notin {"blank", "row"}
    <2> DEFINE c == FlushTable(b)
    <2>1. HeldAs(c, b, L) /\ c.table = <<>> BY FlushTableHolds
    <2>2. new = [c EXCEPT !.text = Append(@, line)] BY <1>3 DEF ReadLine
    <2> HIDE DEF c
    <2>3. c \in Pages(L) BY <2>1 DEF HeldAs
    <2>4. new \in Pages(L) BY <2>2, <2>3, AppendedType
    <2>5. new.table = <<>> /\ new.blocks = c.blocks /\ new.text = Append(c.text, line)
        BY <2>1, <2>2, <2>3 DEF Pages
    <2> HIDE DEF new
    <2> DEFINE x == FlattenSeq(LinesOf(c.blocks))
               y == c.text
    <2>6. Held(new) = (x \o Append(y, line)) \o <<>> /\ Held(c) = (x \o y) \o <<>> BY <2>1, <2>5 DEF Held
    <2>7. x \in Seq(L) /\ y \in Seq(L) BY <2>3, HeldType
    <2> HIDE DEF x, y
    <2>8. x \o Append(y, line) = Append(x \o y, line) BY <2>7, ConcatAppend
    <2>9. x \o y \in Seq(L) /\ Append(x \o y, line) \in Seq(L)
        <3>1. x \o y \in Seq(L) BY <2>7
        <3> DEFINE xy == x \o y
        <3> HIDE DEF xy
        <3>2. xy \in Seq(L) BY <3>1 DEF xy
        <3>3. Append(xy, line) \in Seq(L) BY <3>2
        <3> QED BY <3>2, <3>3 DEF xy
    <2>10. (x \o y) \o <<>> = x \o y /\ Append(x \o y, line) \o <<>> = Append(x \o y, line)
        BY <2>9, ConcatNone
    <2>11. Held(new) = Append(Held(b), line) BY <2>1, <2>6, <2>8, <2>10 DEF HeldAs
    <2>12. InOrder(new) BY <2>5 DEF InOrder
    <2> QED BY <1>3, <2>4, <2>11, <2>12 DEF ReadMore, new
<1> QED BY <1>1, <1>2, <1>3

LEMMA LinesRead ==
    ASSUME NEW f, NEW lines \in Seq(Lines)
    PROVE  FlattenSeq(LinesOf(BlocksOf(f, lines)))
             = Sift(UnruledLines(f, lines), {k \in 1 .. Len(lines) : lines[k].kind # "blank"})
<1> DEFINE E == UnruledLines(f, lines)
           N == Len(E)
           Q == {k \in 1 .. Len(lines) : lines[k].kind # "blank"}
           read == FoldLeft(ReadLine, NoLines, E)
<1>1. /\ E \in Seq(Lines) /\ N = Len(lines) /\ N \in Nat
      /\ \A k \in 1 .. N : E[k].kind = "blank" <=> lines[k].kind = "blank"
    BY UnruledType
<1>2. \A k \in 1 .. N : k \in Q <=> E[k].kind # "blank" BY <1>1
<1> HIDE DEF E, Q
<1>3. PICK run : Reads(run, E, Lines) BY <1>1, ReadsUnfold
<1>4. PICK b : Sifts(b, Lines, E, Q) BY <1>1, SiftUnfolds
<1>5. /\ \A n \in 0 .. N : run[n] \in Pages(Lines)
      /\ run[0] = NoLines /\ read = run[N]
      /\ \A n \in 1 .. N : run[n] = ReadLine(run[n - 1], E[n])
    BY <1>1, <1>3 DEF Reads
<1>6. /\ \A n \in 0 .. N : b[n] \in Seq(Lines)
      /\ b[0] = <<>> /\ Sift(E, Q) = b[N]
      /\ \A n \in 1 .. N : b[n] = IF n \in Q THEN Append(b[n - 1], E[n]) ELSE b[n - 1]
    BY <1>1, <1>4 DEF Sifts
<1> HIDE DEF N, read
<1> DEFINE R == {n \in 0 .. N : InOrder(run[n]) /\ Held(run[n]) = b[n]}
<1>7. 0 \in R
    <2>1. LinesOf(<<>>) = <<>> BY DEF LinesOf
    <2>2. (<<>> \o <<>>) \o <<>> = <<>> OBVIOUS
    <2>3. Held(NoLines) = <<>> BY <2>1, <2>2, FlattenEmpty DEF Held, NoLines
    <2>4. InOrder(NoLines) BY DEF InOrder, NoLines
    <2> QED BY <1>1, <1>5, <1>6, <2>3, <2>4
<1>8. ASSUME NEW n \in 1 .. N, n - 1 \in R PROVE n \in R
    <2>1. /\ run[n - 1] \in Pages(Lines) /\ InOrder(run[n - 1]) /\ Held(run[n - 1]) = b[n - 1]
          /\ E[n] \in Lines
        BY <1>1, <1>5, <1>8 DEF N
    <2>2. ReadMore(run[n], run[n - 1], E[n], Lines) BY <1>5, <2>1, ReadLineHolds
    <2> QED BY <1>1, <1>2, <1>6, <2>1, <2>2 DEF ReadMore
<1>9. \A n \in 1 .. N : n - 1 \in R => n \in R BY <1>8
<1>10. N \in R
    <2> HIDE DEF R
    <2>1. \A n \in 0 .. N : n \in R BY <1>1, <1>7, <1>9, UpTo
    <2> QED BY <1>1, <2>1
<1>11. read \in Pages(Lines) /\ InOrder(read) /\ Held(read) = Sift(E, Q)
    BY <1>1, <1>5, <1>6, <1>10
<1> DEFINE c == FlushTable(read)
           d == FlushText(c)
<1>12. HeldAs(c, read, Lines) /\ c.table = <<>> BY <1>11, FlushTableHolds
<1> HIDE DEF c
<1>13. HeldAs(d, c, Lines) /\ d.text = <<>> /\ d.table = <<>> BY <1>12, FlushTextHolds DEF HeldAs
<1>14. BlocksOf(f, lines) = d.blocks BY BlocksAre DEF E, read, c
<1> HIDE DEF d
<1>15. Held(d) = (FlattenSeq(LinesOf(d.blocks)) \o <<>>) \o <<>> BY <1>13 DEF Held
<1>16. FlattenSeq(LinesOf(d.blocks)) \in Seq(Lines) BY <1>13, HeldType DEF HeldAs
<1>17. Held(d) = FlattenSeq(LinesOf(d.blocks))
    <2> DEFINE x == FlattenSeq(LinesOf(d.blocks))
    <2> HIDE DEF x
    <2>1. x \o <<>> = x BY <1>16, ConcatNone DEF x
    <2> QED BY <1>15, <2>1 DEF x
<1> QED BY <1>11, <1>12, <1>13, <1>14, <1>17 DEF HeldAs, E, Q

(* The texts of lines, in their order.                                       *)
LEMMA TextsMore ==
    ASSUME NEW x \in Seq(Lines), NEW line \in Lines
    PROVE  TextsOf(Append(x, line)) = Append(TextsOf(x), line.text)
<1> DEFINE more == Append(x, line)
<1>1. /\ more \in Seq(Lines) /\ DOMAIN more = 1 .. (Len(x) + 1) /\ DOMAIN x = 1 .. Len(x)
      /\ Len(x) \in Nat /\ more[Len(x) + 1] = line /\ \A k \in 1 .. Len(x) : more[k] = x[k]
    OBVIOUS
<1>2. line.text \in PageTexts BY DEF Lines
<1> DEFINE old == TextsOf(x)
           t == line.text
           n == Len(x)
<1>3. old \in Seq(PageTexts) /\ Len(old) = n BY TextsOfType
<1>4. TextsOf(more) \in Seq(PageTexts) /\ Len(TextsOf(more)) = n + 1
    <2> HIDE DEF more
    <2>1. Len(more) = n + 1 BY <1>1
    <2> QED BY <1>1, <2>1, TextsOfType
<1>5. TextsOf(more)[n + 1] = t /\ \A k \in 1 .. n : TextsOf(more)[k] = old[k]
    <2> HIDE DEF more
    <2> QED BY <1>1 DEF TextsOf
<1> HIDE DEF more, old, t, n
<1>6. /\ Append(old, t) \in Seq(PageTexts) /\ Len(Append(old, t)) = n + 1
      /\ Append(old, t)[n + 1] = t /\ \A k \in 1 .. n : Append(old, t)[k] = old[k]
    BY <1>2, <1>3 DEF t
<1> DEFINE u == TextsOf(more)
           v == Append(old, t)
<1> HIDE DEF u, v
<1>7. u \in Seq(PageTexts) /\ v \in Seq(PageTexts) /\ Len(u) = n + 1 /\ Len(v) = n + 1
      /\ u[n + 1] = v[n + 1] /\ \A k \in 1 .. n : u[k] = v[k]
    BY <1>4, <1>5, <1>6 DEF u, v
<1>8. \A k \in 1 .. Len(u) : u[k] = v[k]
    <2>1. n \in Nat BY <1>1 DEF n
    <2>2. \A k \in 1 .. n + 1 : k \in 1 .. n \/ k = n + 1 BY <2>1
    <2> QED BY <1>7, <2>2
<1>9. u = v BY <1>7, <1>8, SeqEqual
<1> QED BY <1>9 DEF u, v, more, old, t

LEMMA TextsConcat ==
    ASSUME NEW x \in Seq(Lines), NEW y \in Seq(Lines)
    PROVE  TextsOf(x \o y) = TextsOf(x) \o TextsOf(y)
<1> DEFINE xy == x \o y
           u == TextsOf(xy)
           v == TextsOf(x) \o TextsOf(y)
           n == Len(x)
           m == Len(y)
<1>1. xy \in Seq(Lines) /\ Joined(xy, x, y) BY ConcatAt
<1>2. TextsOf(x) \in Seq(PageTexts) /\ Len(TextsOf(x)) = n /\ TextsOf(y) \in Seq(PageTexts) /\ Len(TextsOf(y)) = m
    BY TextsOfType
<1>3. n \in Nat /\ m \in Nat /\ DOMAIN x = 1 .. n /\ DOMAIN y = 1 .. m OBVIOUS
<1> HIDE DEF xy
<1>4. Len(xy) = n + m /\ DOMAIN xy = 1 .. (n + m) BY <1>1 DEF Joined
<1>5. u \in Seq(PageTexts) /\ Len(u) = n + m BY <1>1, <1>4, TextsOfType
<1>6. v \in Seq(PageTexts) /\ Joined(v, TextsOf(x), TextsOf(y)) BY <1>2, ConcatAt
<1>7. \A k \in 1 .. n : u[k] = v[k]
    <2> SUFFICES ASSUME NEW k \in 1 .. n PROVE u[k] = v[k] OBVIOUS
    <2>1. xy[k] = x[k] BY <1>1 DEF Joined
    <2>2. u[k] = x[k].text BY <1>3, <1>4, <2>1 DEF TextsOf
    <2>3. TextsOf(x)[k] = x[k].text BY <1>3 DEF TextsOf
    <2> HIDE DEF u, v
    <2> QED BY <1>2, <1>6, <2>2, <2>3 DEF Joined
<1>8. \A k \in 1 .. m : u[n + k] = v[n + k]
    <2> SUFFICES ASSUME NEW k \in 1 .. m PROVE u[n + k] = v[n + k] OBVIOUS
    <2>1. xy[n + k] = y[k] BY <1>1 DEF Joined
    <2>2. u[n + k] = y[k].text BY <1>3, <1>4, <2>1 DEF TextsOf
    <2>3. TextsOf(y)[k] = y[k].text BY <1>3 DEF TextsOf
    <2> HIDE DEF u, v
    <2> QED BY <1>2, <1>6, <2>2, <2>3 DEF Joined
<1>9. Len(v) = n + m BY <1>2, <1>6 DEF Joined
<1> HIDE DEF u, v
<1>10. \A k \in 1 .. Len(u) : u[k] = v[k]
    <2> SUFFICES ASSUME NEW k \in 1 .. n + m, k \notin 1 .. n PROVE u[k] = v[k] BY <1>5, <1>7
    <2>1. k - n \in 1 .. m /\ n + (k - n) = k BY <1>3
    <2> QED BY <1>8, <2>1
<1>11. u = v BY <1>5, <1>6, <1>9, <1>10, SeqEqual
<1> QED BY <1>11 DEF u, v, xy

LEMMA TextsFlatten ==
    ASSUME NEW ss \in Seq(Seq(Lines))
    PROVE  TextsOf(FlattenSeq(ss)) = FlattenSeq([k \in DOMAIN ss |-> TextsOf(ss[k])])
<1> DEFINE tt == [k \in DOMAIN ss |-> TextsOf(ss[k])]
           N == Len(ss)
<1>1. N \in Nat /\ DOMAIN ss = 1 .. N /\ \A k \in 1 .. N : ss[k] \in Seq(Lines) OBVIOUS
<1>2. \A k \in 1 .. N : TextsOf(ss[k]) \in Seq(PageTexts) BY <1>1, TextsOfType
<1>3. tt \in Seq(Seq(PageTexts)) /\ Len(tt) = N /\ \A k \in 1 .. N : tt[k] = TextsOf(ss[k]) BY <1>1, <1>2
<1> HIDE DEF tt
<1>4. PICK a : Flattens(a, Lines, ss) BY FlattenUnfolds
<1>5. PICK b : Flattens(b, PageTexts, tt) BY <1>3, FlattenUnfolds
<1>6. /\ a[0] = <<>> /\ FlattenSeq(ss) = a[N] /\ \A n \in 0 .. N : a[n] \in Seq(Lines)
      /\ \A n \in 1 .. N : a[n] = a[n - 1] \o ss[n]
    BY <1>1, <1>4 DEF Flattens
<1>7. /\ b[0] = <<>> /\ FlattenSeq(tt) = b[N] /\ \A n \in 0 .. N : b[n] \in Seq(PageTexts)
      /\ \A n \in 1 .. N : b[n] = b[n - 1] \o tt[n]
    BY <1>3, <1>5 DEF Flattens
<1> HIDE DEF N
<1> DEFINE R == {n \in 0 .. N : TextsOf(a[n]) = b[n]}
<1>8. 0 \in R
    <2>1. TextsOf(<<>>) = <<>> BY DEF TextsOf
    <2> QED BY <1>1, <1>6, <1>7, <2>1
<1>9. ASSUME NEW n \in 1 .. N, n - 1 \in R PROVE n \in R
    <2>1. a[n - 1] \in Seq(Lines) /\ ss[n] \in Seq(Lines) /\ TextsOf(a[n - 1]) = b[n - 1]
        BY <1>1, <1>6, <1>9
    <2>2. TextsOf(a[n - 1] \o ss[n]) = TextsOf(a[n - 1]) \o TextsOf(ss[n]) BY <2>1, TextsConcat
    <2>3. TextsOf(a[n]) = b[n] BY <1>3, <1>6, <1>7, <2>1, <2>2
    <2> QED BY <1>1, <2>3
<1>10. \A n \in 1 .. N : n - 1 \in R => n \in R BY <1>9
<1>11. N \in R
    <2> HIDE DEF R
    <2>1. \A n \in 0 .. N : n \in R BY <1>1, <1>8, <1>10, UpTo
    <2> QED BY <1>1, <2>1
<1> QED BY <1>6, <1>7, <1>11 DEF tt

LEMMA TextsSifted ==
    ASSUME NEW s \in Seq(Lines), NEW t \in Seq(Lines), Len(s) = Len(t),
           \A i \in 1 .. Len(s) : s[i].text = t[i].text, NEW P
    PROVE  TextsOf(Sift(s, P)) = TextsOf(Sift(t, P))
<1> DEFINE N == Len(s)
<1>1. PICK a : Sifts(a, Lines, s, P) BY SiftUnfolds
<1>2. PICK b : Sifts(b, Lines, t, P) BY SiftUnfolds
<1>3. N \in Nat OBVIOUS
<1>4. /\ a[0] = <<>> /\ Sift(s, P) = a[N] /\ \A n \in 0 .. N : a[n] \in Seq(Lines)
      /\ \A n \in 1 .. N : a[n] = IF n \in P THEN Append(a[n - 1], s[n]) ELSE a[n - 1]
    BY <1>1 DEF Sifts
<1>5. /\ b[0] = <<>> /\ Sift(t, P) = b[N] /\ \A n \in 0 .. N : b[n] \in Seq(Lines)
      /\ \A n \in 1 .. N : b[n] = IF n \in P THEN Append(b[n - 1], t[n]) ELSE b[n - 1]
    BY <1>2 DEF Sifts
<1> DEFINE R == {n \in 0 .. N : TextsOf(a[n]) = TextsOf(b[n])}
<1>6. 0 \in R BY <1>3, <1>4, <1>5
<1>7. ASSUME NEW n \in 1 .. N, n - 1 \in R PROVE n \in R
    <2>1. /\ a[n - 1] \in Seq(Lines) /\ b[n - 1] \in Seq(Lines) /\ s[n] \in Lines /\ t[n] \in Lines
          /\ TextsOf(a[n - 1]) = TextsOf(b[n - 1]) /\ s[n].text = t[n].text
        BY <1>4, <1>5, <1>7
    <2>2. /\ TextsOf(Append(a[n - 1], s[n])) = Append(TextsOf(a[n - 1]), s[n].text)
          /\ TextsOf(Append(b[n - 1], t[n])) = Append(TextsOf(b[n - 1]), t[n].text)
        BY <2>1, TextsMore
    <2>3. TextsOf(a[n]) = TextsOf(b[n]) BY <1>4, <1>5, <2>1, <2>2
    <2> QED BY <1>3, <2>3
<1>8. \A n \in 1 .. N : n - 1 \in R => n \in R BY <1>7
<1>9. N \in R
    <2> HIDE DEF R, N
    <2>1. \A n \in 0 .. N : n \in R BY <1>3, <1>6, <1>8, UpTo
    <2> QED BY <1>3, <2>1
<1> QED BY <1>4, <1>5, <1>9

(* The texts of the sections of a PDF, page after page.                      *)
LEMMA SectionTextsType ==
    ASSUME NEW T, NEW S \in Seq(PlainSections(T))
    PROVE  SectionTexts(S) \in Seq(Seq(T)) /\ Len(SectionTexts(S)) = Len(S)
<1>1. DOMAIN S = 1 .. Len(S) /\ Len(S) \in Nat OBVIOUS
<1>2. ASSUME NEW i \in 1 .. Len(S) PROVE S[i].texts \in Seq(T)
    <2>1. S[i] \in PlainSections(T) OBVIOUS
    <2>2. PICK t \in Seq(T) : S[i] = Plainly(t) BY <2>1 DEF PlainSections
    <2> QED BY <2>2 DEF Plainly
<1> QED BY <1>1, <1>2 DEF SectionTexts

LEMMA SectionTextsConcat ==
    ASSUME NEW T, NEW x \in Seq(PlainSections(T)), NEW y \in Seq(PlainSections(T))
    PROVE  SectionTexts(x \o y) = SectionTexts(x) \o SectionTexts(y)
<1> DEFINE C == PlainSections(T)
           xy == x \o y
           a == SectionTexts(x)
           b == SectionTexts(y)
           u == SectionTexts(xy)
           v == a \o b
           n == Len(x)
           m == Len(y)
<1> HIDE DEF C
<1>0. x \in Seq(C) /\ y \in Seq(C) BY DEF C
<1>1. xy \in Seq(C) /\ Joined(xy, x, y) BY <1>0, ConcatAt
<1>2. a \in Seq(Seq(T)) /\ Len(a) = n /\ b \in Seq(Seq(T)) /\ Len(b) = m
    BY SectionTextsType
<1>3. n \in Nat /\ m \in Nat /\ DOMAIN x = 1 .. n /\ DOMAIN y = 1 .. m BY <1>0
<1> HIDE DEF xy
<1>4. Len(xy) = n + m /\ DOMAIN xy = 1 .. (n + m) BY <1>1 DEF Joined
<1>5. u \in Seq(Seq(T)) /\ Len(u) = n + m BY <1>1, <1>4, SectionTextsType DEF C
<1>6. \A k \in 1 .. n : a[k] = x[k].texts BY <1>3 DEF SectionTexts
<1>7. \A k \in 1 .. m : b[k] = y[k].texts BY <1>3 DEF SectionTexts
<1>8. \A k \in 1 .. n + m : u[k] = xy[k].texts BY <1>4 DEF SectionTexts
<1> HIDE DEF a, b, u
<1>9. v \in Seq(Seq(T)) /\ Joined(v, a, b) BY <1>2, ConcatAt
<1> HIDE DEF v
<1>10. \A k \in 1 .. n : u[k] = v[k]
    <2> SUFFICES ASSUME NEW k \in 1 .. n PROVE u[k] = v[k] OBVIOUS
    <2>1. xy[k] = x[k] /\ v[k] = a[k] BY <1>1, <1>2, <1>9 DEF Joined
    <2>2. k \in 1 .. n + m BY <1>3
    <2> QED BY <1>6, <1>8, <2>1, <2>2
<1>11. \A k \in 1 .. m : u[n + k] = v[n + k]
    <2> SUFFICES ASSUME NEW k \in 1 .. m PROVE u[n + k] = v[n + k] OBVIOUS
    <2>1. xy[n + k] = y[k] /\ v[n + k] = b[k] BY <1>1, <1>2, <1>9 DEF Joined
    <2>2. n + k \in 1 .. n + m BY <1>3
    <2> QED BY <1>7, <1>8, <2>1, <2>2
<1>12. Len(v) = n + m BY <1>2, <1>9 DEF Joined
<1>13. \A k \in 1 .. Len(u) : u[k] = v[k]
    <2> SUFFICES ASSUME NEW k \in 1 .. n + m, k \notin 1 .. n PROVE u[k] = v[k] BY <1>5, <1>10
    <2>1. k - n \in 1 .. m /\ n + (k - n) = k BY <1>3
    <2> QED BY <1>11, <2>1
<1>14. u = v BY <1>5, <1>9, <1>12, <1>13, SeqEqual
<1> QED BY <1>14 DEF u, v, xy, a, b

LEMMA SectionTextsFlatten ==
    ASSUME NEW T, NEW ss \in Seq(Seq(PlainSections(T)))
    PROVE  FlattenSeq(SectionTexts(FlattenSeq(ss)))
             = FlattenSeq([k \in DOMAIN ss |-> FlattenSeq(SectionTexts(ss[k]))])
<1> DEFINE C == PlainSections(T)
           tt == [k \in DOMAIN ss |-> FlattenSeq(SectionTexts(ss[k]))]
           N == Len(ss)
<1> HIDE DEF C
<1>0. ss \in Seq(Seq(C)) BY DEF C
<1>1. N \in Nat /\ DOMAIN ss = 1 .. N /\ \A k \in 1 .. N : ss[k] \in Seq(C) BY <1>0
<1>2. \A s \in Seq(C) : SectionTexts(s) \in Seq(Seq(T)) /\ FlattenSeq(SectionTexts(s)) \in Seq(T)
    BY SectionTextsType, FlattenType DEF C
<1>3. tt \in Seq(Seq(T)) /\ Len(tt) = N /\ \A k \in 1 .. N : tt[k] = FlattenSeq(SectionTexts(ss[k]))
    <2>1. \A k \in 1 .. N : FlattenSeq(SectionTexts(ss[k])) \in Seq(T) BY <1>1, <1>2
    <2> HIDE DEF N
    <2> QED BY <1>1, <2>1
<1> HIDE DEF tt
<1>4. PICK a : Flattens(a, C, ss) BY <1>0, FlattenUnfolds
<1>5. PICK b : Flattens(b, T, tt) BY <1>3, FlattenUnfolds
<1>6. /\ a[0] = <<>> /\ FlattenSeq(ss) = a[N] /\ \A n \in 0 .. N : a[n] \in Seq(C)
      /\ \A n \in 1 .. N : a[n] = a[n - 1] \o ss[n]
    BY <1>1, <1>4 DEF Flattens
<1>7. /\ b[0] = <<>> /\ FlattenSeq(tt) = b[N]
      /\ \A n \in 1 .. N : b[n] = b[n - 1] \o tt[n]
    BY <1>3, <1>5 DEF Flattens
<1> HIDE DEF N
<1> DEFINE R == {n \in 0 .. N : FlattenSeq(SectionTexts(a[n])) = b[n]}
<1>8. 0 \in R
    <2>1. SectionTexts(<<>>) = <<>> BY DEF SectionTexts
    <2> QED BY <1>1, <1>6, <1>7, <2>1, FlattenEmpty
<1>9. ASSUME NEW n \in 1 .. N, n - 1 \in R PROVE n \in R
    <2> DEFINE x == a[n - 1]
               y == ss[n]
    <2>1. x \in Seq(C) /\ y \in Seq(C) /\ FlattenSeq(SectionTexts(x)) = b[n - 1]
        BY <1>1, <1>6, <1>9
    <2>2. a[n] = x \o y /\ b[n] = b[n - 1] \o FlattenSeq(SectionTexts(y)) BY <1>3, <1>6, <1>7
    <2> HIDE DEF x, y
    <2>3. SectionTexts(x \o y) = SectionTexts(x) \o SectionTexts(y) BY <2>1, SectionTextsConcat DEF C
    <2>4. FlattenSeq(SectionTexts(x) \o SectionTexts(y))
            = FlattenSeq(SectionTexts(x)) \o FlattenSeq(SectionTexts(y))
        BY <1>2, <2>1, FlattenConcat
    <2>5. FlattenSeq(SectionTexts(a[n])) = b[n] BY <2>1, <2>2, <2>3, <2>4
    <2> QED BY <1>1, <2>5
<1>10. \A n \in 1 .. N : n - 1 \in R => n \in R BY <1>9
<1>11. N \in R
    <2> HIDE DEF R
    <2>1. \A n \in 0 .. N : n \in R BY <1>1, <1>8, <1>10, UpTo
    <2> QED BY <1>1, <2>1
<1> QED BY <1>6, <1>7, <1>11 DEF tt

Visible(f, i) == Sift(PageLines(f, i), {k \in DOMAIN f.layout : f.layout[k] # "blank"})

LEMMA PageRead ==
    ASSUME NEW f, IsPdf(f), NEW i \in Nat, i \in PagesRead(f)
    PROVE  FlattenSeq(SectionTexts(PageSections(f, i))) = TextsOf(Visible(f, i))
<1> DEFINE lines == PageLines(f, i)
           blocks == BlocksOf(f, lines)
           E == UnruledLines(f, lines)
           N == Len(lines)
           P == {k \in 1 .. N : lines[k].kind # "blank"}
           Q == {k \in DOMAIN f.layout : f.layout[k] # "blank"}
<1>1. lines \in Seq(Lines) /\ N = Len(f.layout) BY PageLinesType
<1>2. /\ E \in Seq(Lines) /\ Len(E) = N
      /\ \A k \in 1 .. N : E[k].text = lines[k].text
    <2> HIDE DEF lines
    <2> QED BY <1>1, UnruledType
<1>3. blocks \in Seq(Blocks(Lines))
    <2> HIDE DEF lines
    <2> QED BY <1>1, BlocksType
<1>4. \A k \in 1 .. N : k \in P <=> k \in Q
    <2>1. DOMAIN f.layout = 1 .. N BY <1>1 DEF IsPdf
    <2>2. \A k \in 1 .. N : lines[k].kind = f.layout[k] BY <2>1 DEF PageLines
    <2> HIDE DEF lines
    <2> QED BY <2>1, <2>2
<1>5. FlattenSeq(LinesOf(blocks)) = Sift(E, P)
    <2> HIDE DEF lines
    <2> QED BY <1>1, LinesRead
<1>6. PageSections(f, i) = [k \in DOMAIN blocks |-> Plainly(TextsOf(blocks[k].lines))]
    BY Zenon DEF PageSections, Plainly
<1> HIDE DEF lines, E, P, Q, N, blocks
<1> DEFINE texts == [k \in DOMAIN blocks |-> TextsOf(blocks[k].lines)]
           ll == LinesOf(blocks)
<1>7. ll \in Seq(Seq(Lines)) /\ DOMAIN ll = DOMAIN blocks /\ \A k \in DOMAIN blocks : ll[k] = blocks[k].lines
    BY <1>3, LinesOfType DEF LinesOf
<1> HIDE DEF ll
<1>8. texts = [k \in DOMAIN ll |-> TextsOf(ll[k])] BY <1>7
<1>9. texts \in Seq(Seq(PageTexts))
    <2>1. DOMAIN ll = 1 .. Len(ll) /\ Len(ll) \in Nat /\ \A k \in 1 .. Len(ll) : ll[k] \in Seq(Lines) BY <1>7
    <2>2. \A k \in 1 .. Len(ll) : TextsOf(ll[k]) \in Seq(PageTexts) BY <2>1, TextsOfType
    <2> QED BY <1>8, <2>1, <2>2
<1>10. SectionTexts(PageSections(f, i)) = texts
    <2>1. PageSections(f, i) = [k \in DOMAIN texts |-> Plainly(texts[k])] BY <1>6
    <2> HIDE DEF texts
    <2> QED BY <1>9, <2>1, PlainlyTexts
<1>11. FlattenSeq(texts) = TextsOf(FlattenSeq(ll)) BY <1>7, <1>8, TextsFlatten
<1>12. TextsOf(Sift(E, P)) = TextsOf(Sift(lines, P)) BY <1>1, <1>2, TextsSifted DEF N
<1>13. Sift(lines, P) = Sift(lines, Q) BY <1>1, <1>4, SiftSame DEF N
<1>14. Sift(lines, Q) = Visible(f, i) BY DEF Visible, lines, Q
<1> QED BY <1>5, <1>10, <1>11, <1>12, <1>13, <1>14 DEF ll

LEMMA PdfKept ==
    ASSUME NEW f, IsPdf(f), f.kind = "pdf"
    PROVE  TextsKept(f, FlattenSeq(SectionTexts(SectionsOf(f))))
<1> DEFINE N == PageCount(f)
           pages == [i \in 1 .. N |-> PageSections(f, i)]
           read == [i \in 1 .. N |-> IF i \in PagesRead(f) THEN TextsOf(Visible(f, i)) ELSE <<>>]
<1>1. N \in Nat BY PageCountType
<1>2. SectionsOf(f) = FlattenSeq(pages) BY DEF SectionsOf
<1>3. Reading(f) = FlattenSeq(read) BY Zenon DEF Reading, Visible
<1>4. \A i \in 1 .. N : PageSections(f, i) \in Seq(PlainSections(PageTexts)) BY <1>1, PageSectionsType
<1>5. \A i \in 1 .. N : FlattenSeq(SectionTexts(PageSections(f, i)))
                          = IF i \in PagesRead(f) THEN TextsOf(Visible(f, i)) ELSE <<>>
    <2> SUFFICES ASSUME NEW i \in 1 .. N
                 PROVE  FlattenSeq(SectionTexts(PageSections(f, i)))
                          = IF i \in PagesRead(f) THEN TextsOf(Visible(f, i)) ELSE <<>> OBVIOUS
    <2>1. CASE i \in PagesRead(f)
        <3>1. i \in Nat BY <1>1
        <3> QED BY <2>1, <3>1, PageRead
    <2>2. CASE i \notin PagesRead(f)
        <3>1. PageSections(f, i) = <<>> BY <2>2 DEF PageSections
        <3>2. SectionTexts(<<>>) = <<>> BY DEF SectionTexts
        <3> QED BY <2>2, <3>1, <3>2, FlattenEmpty
    <2> QED BY <2>1, <2>2
<1> HIDE DEF N
<1>6. pages \in Seq(Seq(PlainSections(PageTexts))) /\ DOMAIN pages = 1 .. N
      /\ \A i \in 1 .. N : pages[i] = PageSections(f, i)
    <2> DEFINE C == PlainSections(PageTexts)
    <2> HIDE DEF C
    <2>1. \A i \in 1 .. N : PageSections(f, i) \in Seq(C) BY <1>4 DEF C
    <2>2. pages \in Seq(Seq(C)) BY <1>1, <2>1
    <2> QED BY <2>2 DEF C
<1> HIDE DEF pages
<1>7. [i \in DOMAIN pages |-> FlattenSeq(SectionTexts(pages[i]))] = read BY <1>5, <1>6
<1> HIDE DEF read
<1>8. FlattenSeq(SectionTexts(FlattenSeq(pages))) = FlattenSeq(read)
    BY <1>6, <1>7, SectionTextsFlatten
<1> QED BY <1>2, <1>3, <1>8 DEF TextsKept

LEMMA ReadingKept ==
    ASSUME NEW f \in Files, f.kind # "md"
    PROVE  TextsKept(f, FlattenSeq(SectionTexts(SectionsOf(f))))
<1>1. CASE f.kind = "pdf" /\ IsPdf(f) BY <1>1, PdfKept
<1>2. CASE f.kind = "html" /\ IsPlain(f) BY <1>2, HtmlKept
<1>3. CASE f.kind \in {"docx", "pptx", "txt"} /\ IsPlain(f) BY <1>3, ParagraphsKept
<1> QED BY <1>1, <1>2, <1>3, ParsingAssumption

(* Once a file that is not Markdown is parsed, the texts of its sections are  *)
(* the texts of the file in their order: every line of every page that some   *)
(* extractor read, and every paragraph; in the formats that drop what is      *)
(* shorter than four characters, every text that is not                       *)
(* (_blocks_from_page_text, parse_html, the paragraph formats).               *)
THEOREM TextsSurvive == ParsingSpec => []TextIsKept
<1>1. ParsingInv => TextIsKept
    <2> SUFFICES ASSUME ParsingInv, file.kind # "md", stage \notin {"parse", "failed"}
                 PROVE  LET kept == FlattenSeq([i \in DOMAIN sections |-> SectionAt(i).texts])
                            all == Reading(file)
                        IN  IF file.kind \in {"pdf", "txt"} THEN kept = all
                            ELSE LongOf(kept) = LongOf(all)
        BY DEF TextIsKept
    <2> DEFINE S == SectionsOf(file)
    <2>1. SectionsKept(S) /\ file \in Files BY DEF ParsingInv, Unparsed
    <2>2. TextsKept(file, FlattenSeq(SectionTexts(S))) BY <2>1, ReadingKept
    <2> HIDE DEF S
    <2>3. DOMAIN sections = DOMAIN S /\ \A j \in DOMAIN S : SectionAt(j) = S[j]
        BY <2>1 DEF SectionsKept, SectionAt
    <2>4. [i \in DOMAIN sections |-> SectionAt(i).texts] = SectionTexts(S) BY <2>3 DEF SectionTexts
    <2> QED BY <2>2, <2>4 DEF TextsKept
<1> QED BY <1>1, ParsingInvariant, PTL

-----------------------------------------------------------------------------
(* A recursion that looks back to any earlier position has a solution too.   *)
SolvesBack(f, n, T, base, ref, step) ==
    /\ f \in [0 .. n -> T] /\ f[0] = base
    /\ \A i \in 1 .. n : f[i] = step[<<i, f[ref[i]]>>]

LEMMA RecursionBack ==
    ASSUME NEW n \in Nat, NEW T, NEW base \in T, NEW ref, \A i \in 1 .. n : ref[i] \in 0 .. i - 1,
           NEW step \in [(1 .. n) \X T -> T]
    PROVE  \E f : SolvesBack(f, n, T, base, ref, step)
<1> DEFINE Good(f, k) ==
             /\ f \in [0 .. k -> T] /\ f[0] = base
             /\ \A i \in 1 .. k : f[i] = step[<<i, f[ref[i]]>>]
           P == {k \in 0 .. n : \E f : Good(f, k)}
<1>1. 0 \in P
    <2>1. Good([i \in 0 .. 0 |-> base], 0) OBVIOUS
    <2>2. 0 \in 0 .. n OBVIOUS
    <2> HIDE DEF Good
    <2> QED BY <2>1, <2>2
<1>2. ASSUME NEW k \in 1 .. n, k - 1 \in P PROVE k \in P
    <2>1. PICK f : Good(f, k - 1) BY <1>2
    <2>0. ref[k] \in 0 .. k - 1 OBVIOUS
    <2> DEFINE last == step[<<k, f[ref[k]]>>]
               more == [i \in 0 .. k |-> IF i = k THEN last ELSE f[i]]
    <2>2. f[ref[k]] \in T BY <2>0, <2>1
    <2>3. last \in T BY <2>2
    <2> HIDE DEF last
    <2>4. more \in [0 .. k -> T] BY <2>1, <2>3
    <2>5. more[0] = base BY <2>1
    <2>6. \A i \in 0 .. k - 1 : more[i] = f[i] OBVIOUS
    <2>7. more[k] = last OBVIOUS
    <2> HIDE DEF more
    <2>8. ASSUME NEW i \in 1 .. k PROVE more[i] = step[<<i, more[ref[i]]>>]
        <3>0. ref[i] \in 0 .. k - 1
            <4>1. i \in 1 .. n /\ ref[i] \in 0 .. i - 1 OBVIOUS
            <4> QED BY <4>1
        <3>1. more[ref[i]] = f[ref[i]] BY <2>6, <3>0
        <3>2. CASE i = k BY <2>7, <3>1, <3>2 DEF last
        <3>3. CASE i # k
            <4>1. i \in 1 .. k - 1 BY <3>3
            <4> QED BY <2>1, <2>6, <3>1, <4>1
        <3> QED BY <3>2, <3>3
    <2>9. Good(more, k) BY <2>4, <2>5, <2>8
    <2> HIDE DEF Good
    <2> QED BY <2>9
<1>3. \A k \in 1 .. n : k - 1 \in P => k \in P BY <1>2
<1>4. n \in P
    <2> HIDE DEF P
    <2> QED BY <1>1, <1>3, UpTo
<1>5. PICK f : Good(f, n) BY <1>4
<1> QED BY <1>5 DEF SolvesBack

(* The path of a title, and of a heading: its parent's and itself.           *)
TitlesLead(path, E, W) ==
    /\ path \in [0 .. Len(E) -> Seq(W)] /\ path[0] = <<>>
    /\ \A i \in 1 .. Len(E) : path[i] = IF E[i].title THEN path[E[i].up] \o E[i].texts ELSE path[E[i].up]

LEMMA TitlePathUnfolds ==
    ASSUME NEW W, NEW E \in Seq(Elements(W)), UnderTitles(E)
    PROVE  TitlesLead(TitlePath(E), E, W)
<1> DEFINE N == Len(E)
           T == Seq(W)
           Rhs(path, i) == IF i = 0 THEN <<>>
                           ELSE IF E[i].title THEN path[E[i].up] \o E[i].texts ELSE path[E[i].up]
           Follows(path) == path = [i \in 0 .. N |-> Rhs(path, i)]
           path == CHOOSE p : Follows(p)
           ref == [i \in 1 .. N |-> E[i].up]
           step == [x \in (1 .. N) \X T |-> IF E[x[1]].title THEN x[2] \o E[x[1]].texts ELSE x[2]]
<1>1. TitlePath(E) = path BY DEF TitlePath
<1>2. N \in Nat /\ <<>> \in T OBVIOUS
<1>3. \A i \in 1 .. N : E[i].up \in 0 .. i - 1 /\ E[i].texts \in Seq(W) /\ E[i].title \in BOOLEAN
    <2> SUFFICES ASSUME NEW i \in 1 .. N
                 PROVE  E[i].up \in 0 .. i - 1 /\ E[i].texts \in Seq(W) /\ E[i].title \in BOOLEAN OBVIOUS
    <2>1. E[i] \in Elements(W) OBVIOUS
    <2>2. E[i].up < i BY DEF UnderTitles
    <2> QED BY <2>1, <2>2 DEF Elements
<1> HIDE DEF N
<1>4. step \in [(1 .. N) \X T -> T]
    <2> SUFFICES ASSUME NEW x \in (1 .. N) \X T
                 PROVE  (IF E[x[1]].title THEN x[2] \o E[x[1]].texts ELSE x[2]) \in T OBVIOUS
    <2>1. x[1] \in 1 .. N /\ x[2] \in Seq(W) OBVIOUS
    <2>2. E[x[1]].texts \in Seq(W) BY <1>3, <2>1
    <2> DEFINE a == x[2]
               b == E[x[1]].texts
    <2>3. a \in Seq(W) /\ b \in Seq(W) BY <2>1, <2>2
    <2> HIDE DEF a, b
    <2>4. a \o b \in Seq(W) BY <2>3
    <2> QED BY <2>3, <2>4 DEF a, b
<1>5. PICK f : SolvesBack(f, N, T, <<>>, ref, step)
    <2>1. \A i \in 1 .. N : ref[i] \in 0 .. i - 1 BY <1>3
    <2> HIDE DEF step, ref, T
    <2> QED BY <1>2, <1>4, <2>1, RecursionBack
<1>6. \A i \in 0 .. N : f[i] = Rhs(f, i)
    <2>1. f[0] = <<>> /\ f \in [0 .. N -> T] BY <1>5 DEF SolvesBack
    <2>2. ASSUME NEW i \in 1 .. N PROVE f[i] = Rhs(f, i)
        <3>1. f[i] = step[<<i, f[ref[i]]>>] BY <1>5 DEF SolvesBack
        <3>2. ref[i] = E[i].up /\ ref[i] \in 0 .. N BY <1>3, <1>2
        <3>3. f[ref[i]] \in T BY <2>1, <3>2
        <3>4. step[<<i, f[ref[i]]>>] = IF E[i].title THEN f[ref[i]] \o E[i].texts ELSE f[ref[i]]
            <4> HIDE DEF ref, T
            <4> QED BY <3>3
        <3>5. i # 0 OBVIOUS
        <3> HIDE DEF step, ref
        <3> QED BY <3>1, <3>2, <3>4, <3>5
    <2>3. \A i \in 0 .. N : i = 0 \/ i \in 1 .. N BY <1>2
    <2>4. f[0] = Rhs(f, 0) BY <2>1
    <2> HIDE DEF Rhs
    <2> QED BY <2>2, <2>3, <2>4
<1>7. Follows(f)
    <2> HIDE DEF Rhs
    <2> QED BY <1>5, <1>6 DEF SolvesBack
<1>8. Follows(path)
    <2> HIDE DEF Follows
    <2> QED BY <1>7
<1> HIDE DEF path
<1>9. DOMAIN path = 0 .. N /\ \A i \in 0 .. N : path[i] = Rhs(path, i)
    <2> HIDE DEF Rhs
    <2> QED BY <1>8
<1>10. path[0] = <<>> /\ \A i \in 1 .. N : path[i] = IF E[i].title THEN path[E[i].up] \o E[i].texts
                                                     ELSE path[E[i].up]
    <2>1. path[0] = <<>> BY <1>2, <1>9
    <2>2. ASSUME NEW i \in 1 .. N
          PROVE  path[i] = IF E[i].title THEN path[E[i].up] \o E[i].texts ELSE path[E[i].up]
        <3>1. i \in 0 .. N /\ i # 0 BY <1>2
        <3> QED BY <1>9, <3>1
    <2> QED BY <2>1, <2>2
<1> DEFINE Q == {i \in 0 .. N : path[i] \notin Seq(W)}
<1>11. Q = {}
    <2> SUFFICES ASSUME Q # {} PROVE FALSE OBVIOUS
    <2>1. PICK i \in Q : \A j \in Q : i <= j
        <3>1. Q \subseteq Nat BY <1>2
        <3> HIDE DEF Q
        <3> QED BY <3>1, LeastOf
    <2>2. i # 0
        <3>1. <<>> \in Seq(W) OBVIOUS
        <3>2. path[i] \notin Seq(W) BY <2>1
        <3> QED BY <1>10, <3>1, <3>2
    <2>3. i \in 1 .. N /\ path[i] \notin Seq(W) BY <1>2, <2>1, <2>2
    <2>4. E[i].up \in 0 .. i - 1 /\ E[i].texts \in Seq(W) BY <1>3, <2>3
    <2>5. E[i].up \in 0 .. N /\ ~(i <= E[i].up) BY <1>2, <2>3, <2>4
    <2>6. path[E[i].up] \in Seq(W) BY <2>1, <2>5
    <2> DEFINE a == path[E[i].up]
               b == E[i].texts
    <2>7. a \in Seq(W) /\ b \in Seq(W) BY <2>4, <2>6
    <2>8. path[i] = IF E[i].title THEN a \o b ELSE a BY <1>10, <2>3
    <2> HIDE DEF a, b, Q
    <2>9. a \o b \in Seq(W) BY <2>7
    <2> QED BY <2>3, <2>7, <2>8, <2>9
<1>12. path \in [0 .. N -> Seq(W)]
    <2>1. \A i \in 0 .. N : path[i] \in Seq(W) BY <1>11
    <2>2. path = [i \in 0 .. N |-> path[i]]
        <3> HIDE DEF Rhs
        <3> QED BY <1>8, <1>9
    <2> QED BY <2>1, <2>2
<1> QED BY <1>1, <1>10, <1>12 DEF TitlesLead, N

Nearest(f, i) == CHOOSE j \in Above(f, i) : \A k \in Above(f, i) : k <= j

LEMMA NearestIs ==
    ASSUME NEW f, NEW i \in Nat, Above(f, i) # {}
    PROVE  Nearest(f, i) \in Above(f, i) /\ \A k \in Above(f, i) : k <= Nearest(f, i)
<1> DEFINE back == {i - k : k \in Above(f, i)}
<1>1. Above(f, i) \subseteq 1 .. i - 1 BY DEF Above
<1>2. back \subseteq Nat /\ back # {} BY <1>1
<1>3. PICK b \in back : \A c \in back : b <= c
    <2> HIDE DEF back
    <2> QED BY <1>2, LeastOf
<1>4. PICK j \in Above(f, i) : b = i - j OBVIOUS
<1>5. \A k \in Above(f, i) : k <= j
    <2> SUFFICES ASSUME NEW k \in Above(f, i) PROVE k <= j OBVIOUS
    <2>1. i - j <= i - k BY <1>3, <1>4
    <2>2. k \in 1 .. i - 1 /\ j \in 1 .. i - 1 BY <1>1
    <2> QED BY <2>1, <2>2
<1> QED BY <1>5 DEF Nearest

HeadingsLead(path, f) ==
    path[0] = <<>> /\ \A i \in 1 .. Len(f.parts) :
        path[i] = Append(IF Above(f, i) = {} THEN <<>> ELSE path[Nearest(f, i)], f.parts[i].title)

LEMMA HeadingPathUnfolds ==
    ASSUME NEW f, IsMarkdown(f)
    PROVE  HeadingsLead(HeadingPath(f), f)
<1> DEFINE N == Len(f.parts)
           W == MarkdownWords(f)
           T == Seq(W)
           Rhs(path, i) == IF i = 0 THEN <<>>
                           ELSE Append(IF Above(f, i) = {} THEN <<>> ELSE path[Nearest(f, i)], f.parts[i].title)
           Follows(path) == path = [i \in 0 .. N |-> Rhs(path, i)]
           path == CHOOSE p : Follows(p)
           ref == [i \in 1 .. N |-> IF Above(f, i) = {} THEN 0 ELSE Nearest(f, i)]
           step == [x \in (1 .. N) \X T |->
                      Append(IF Above(f, x[1]) = {} THEN <<>> ELSE x[2], f.parts[x[1]].title)]
<1>1. HeadingPath(f) = path BY DEF HeadingPath, Nearest
<1>2. N \in Nat /\ DOMAIN f.parts = 1 .. N BY DEF IsMarkdown, IsSeq
<1>3. \A i \in 1 .. N : ref[i] \in 0 .. i - 1
    <2> SUFFICES ASSUME NEW i \in 1 .. N PROVE ref[i] \in 0 .. i - 1 OBVIOUS
    <2>1. i \in Nat BY <1>2
    <2>2. CASE Above(f, i) = {} BY <2>1, <2>2
    <2>3. CASE Above(f, i) # {}
        <3>1. Nearest(f, i) \in Above(f, i) BY <2>1, <2>3, NearestIs
        <3> QED BY <2>1, <2>3, <3>1 DEF Above
    <2> QED BY <2>2, <2>3
<1>4. step \in [(1 .. N) \X T -> T]
    <2> SUFFICES ASSUME NEW x \in (1 .. N) \X T
                 PROVE  Append(IF Above(f, x[1]) = {} THEN <<>> ELSE x[2], f.parts[x[1]].title) \in T
        OBVIOUS
    <2>1. f.parts[x[1]].title \in W BY <1>2 DEF MarkdownWords
    <2>2. (IF Above(f, x[1]) = {} THEN <<>> ELSE x[2]) \in T OBVIOUS
    <2> HIDE DEF W
    <2> QED BY <2>1, <2>2
<1>5. PICK g : SolvesBack(g, N, T, <<>>, ref, step)
    <2>1. <<>> \in T OBVIOUS
    <2> HIDE DEF step, ref, T, N
    <2> QED BY <1>2, <1>3, <1>4, <2>1, RecursionBack
<1>6. \A i \in 0 .. N : g[i] = Rhs(g, i)
    <2> HIDE DEF N
    <2>1. g[0] = <<>> /\ g \in [0 .. N -> T] BY <1>5 DEF SolvesBack
    <2>2. ASSUME NEW i \in 1 .. N PROVE g[i] = Rhs(g, i)
        <3>1. g[i] = step[<<i, g[ref[i]]>>] BY <1>5 DEF SolvesBack
        <3>2. ref[i] \in 0 .. N /\ i # 0 BY <1>2, <1>3
        <3>3. g[ref[i]] \in T BY <2>1, <3>2
        <3>4. step[<<i, g[ref[i]]>>] = Append(IF Above(f, i) = {} THEN <<>> ELSE g[ref[i]], f.parts[i].title)
            <4> HIDE DEF ref, T
            <4> QED BY <3>3
        <3>5. ref[i] = IF Above(f, i) = {} THEN 0 ELSE Nearest(f, i) OBVIOUS
        <3> HIDE DEF step, ref
        <3> QED BY <3>1, <3>2, <3>4, <3>5
    <2>3. \A i \in 0 .. N : i = 0 \/ i \in 1 .. N BY <1>2
    <2>4. g[0] = Rhs(g, 0) BY <2>1
    <2> HIDE DEF Rhs
    <2> QED BY <2>2, <2>3, <2>4
<1>7. Follows(g)
    <2> HIDE DEF Rhs, N
    <2> QED BY <1>5, <1>6 DEF SolvesBack
<1>8. Follows(path)
    <2> HIDE DEF Follows
    <2> QED BY <1>7
<1> HIDE DEF path, N
<1>9. \A i \in 0 .. N : path[i] = Rhs(path, i)
    <2> HIDE DEF Rhs
    <2> QED BY <1>8
<1>10. path[0] = <<>> BY <1>2, <1>9
<1>11. ASSUME NEW i \in 1 .. N
       PROVE  path[i] = Append(IF Above(f, i) = {} THEN <<>> ELSE path[Nearest(f, i)], f.parts[i].title)
    <2>1. i \in 0 .. N /\ i # 0 BY <1>2
    <2> QED BY <1>9, <2>1
<1> QED BY <1>1, <1>10, <1>11 DEF HeadingsLead, N

(* Without the first cell the cells come in pairs.                           *)
Paired(z, two, n) == Len(z) = 2 * n /\ \A i \in 1 .. n : z[2 * i - 1] = two[i][1] /\ z[2 * i] = two[i][2]

LEMMA FlattenPairs ==
    ASSUME NEW C, NEW two \in Seq(Seq(C)), \A i \in 1 .. Len(two) : Len(two[i]) = 2
    PROVE  Paired(FlattenSeq(two), two, Len(two))
<1> DEFINE N == Len(two)
<1>1. N \in Nat /\ \A n \in 1 .. N : two[n] \in Seq(C) OBVIOUS
<1>2. PICK flat : Flattens(flat, C, two) BY FlattenUnfolds
<1>3. /\ flat[0] = <<>> /\ FlattenSeq(two) = flat[N] /\ \A n \in 0 .. N : flat[n] \in Seq(C)
      /\ \A n \in 1 .. N : flat[n] = flat[n - 1] \o two[n]
    BY <1>1, <1>2 DEF Flattens
<1> HIDE DEF N
<1> DEFINE R == {n \in 0 .. N : Paired(flat[n], two, n)}
<1>4. 0 \in R
    <2>1. Len(<<>>) = 2 * 0 OBVIOUS
    <2> QED BY <1>1, <1>3, <2>1 DEF Paired
<1>5. ASSUME NEW n \in 1 .. N, n - 1 \in R PROVE n \in R
    <2> DEFINE x == flat[n - 1]
               y == two[n]
               z == flat[n]
    <2>1. x \in Seq(C) /\ y \in Seq(C) /\ Len(y) = 2 /\ Paired(x, two, n - 1) BY <1>1, <1>3, <1>5 DEF N
    <2>2. z = x \o y BY <1>3
    <2> HIDE DEF x, y, z
    <2>3. Joined(z, x, y) BY <2>1, <2>2, ConcatAt
    <2>4. n \in Nat /\ Len(x) = 2 * (n - 1) BY <1>1, <2>1 DEF Paired
    <2>5. Len(z) = 2 * n BY <2>1, <2>3, <2>4 DEF Joined
    <2>6. ASSUME NEW i \in 1 .. n PROVE z[2 * i - 1] = two[i][1] /\ z[2 * i] = two[i][2]
        <3>1. CASE i \in 1 .. n - 1
            <4>1. x[2 * i - 1] = two[i][1] /\ x[2 * i] = two[i][2] BY <2>1, <3>1 DEF Paired
            <4>2. 2 * i - 1 \in 1 .. Len(x) /\ 2 * i \in 1 .. Len(x) BY <2>4, <3>1
            <4>3. \A j \in 1 .. Len(x) : z[j] = x[j] BY <2>3 DEF Joined
            <4>4. z[2 * i - 1] = x[2 * i - 1] /\ z[2 * i] = x[2 * i] BY <4>2, <4>3
            <4> QED BY <4>1, <4>4
        <3>2. CASE i = n
            <4>1. z[Len(x) + 1] = y[1] /\ z[Len(x) + 2] = y[2] BY <2>1, <2>3 DEF Joined
            <4>2. Len(x) + 1 = 2 * i - 1 /\ Len(x) + 2 = 2 * i BY <2>4, <3>2
            <4>3. z[2 * i - 1] = y[1] /\ z[2 * i] = y[2] BY <4>1, <4>2
            <4> QED BY <3>2, <4>3 DEF y
        <3> QED BY <2>4, <3>1, <3>2
    <2>7. Paired(z, two, n) BY <2>5, <2>6 DEF Paired
    <2> QED BY <1>1, <2>7 DEF z
<1>6. \A n \in 1 .. N : n - 1 \in R => n \in R BY <1>5
<1>7. N \in R
    <2> HIDE DEF R
    <2>1. \A n \in 0 .. N : n \in R BY <1>1, <1>4, <1>6, UpTo
    <2> QED BY <1>1, <2>1
<1> QED BY <1>3, <1>7 DEF N

LEMMA TailOfOne ==
    ASSUME NEW C, NEW x \in C, NEW s \in Seq(C)
    PROVE  Tail(<<x>> \o s) = s
OBVIOUS

LEMMA MarkdownPairsAre ==
    ASSUME NEW f, IsMarkdown(f), f.preamble.marks = 0
    PROVE  /\ Len(MarkdownPairs(f)) = Len(f.parts)
           /\ \A i \in 1 .. Len(f.parts) :
                MarkdownPairs(f)[i] = [heading |-> Heading(f.parts[i]), body |-> Body(f.parts[i])]
<1> DEFINE C == CellsOf(MarkdownWords(f))
           N == Len(f.parts)
           two == [i \in DOMAIN f.parts |-> <<Heading(f.parts[i]), Body(f.parts[i])>>]
           rest == FlattenSeq(two)
<1>1. N \in Nat /\ DOMAIN f.parts = 1 .. N BY DEF IsMarkdown, IsSeq
<1>2. ASSUME NEW i \in 1 .. N PROVE Heading(f.parts[i]) \in C /\ Body(f.parts[i]) \in C
    <2> DEFINE W == MarkdownWords(f)
    <2>1. f.parts[i].title \in W /\ ToSet(f.parts[i].paras) \subseteq W BY <1>1 DEF MarkdownWords
    <2>2. f.parts[i].level \in Nat /\ f.parts[i].paras \in Seq(ToSet(f.parts[i].paras))
        BY <1>1 DEF IsMarkdown, IsSeq
    <2>3. f.parts[i].paras \in Seq(W) BY <2>1, <2>2, SeqMonotonic
    <2>4. <<f.parts[i].title>> \in Seq(W) BY <2>1
    <2> QED BY <2>2, <2>3, <2>4 DEF Heading, Body, CellsOf
<1> HIDE DEF C, N
<1>3. two \in Seq(Seq(C)) /\ Len(two) = N
      /\ \A i \in 1 .. N : two[i] = <<Heading(f.parts[i]), Body(f.parts[i])>> /\ Len(two[i]) = 2
    <2>1. \A i \in 1 .. N : <<Heading(f.parts[i]), Body(f.parts[i])>> \in Seq(C)
        <3> SUFFICES ASSUME NEW i \in 1 .. N
                     PROVE  <<Heading(f.parts[i]), Body(f.parts[i])>> \in Seq(C) OBVIOUS
        <3>1. Heading(f.parts[i]) \in C /\ Body(f.parts[i]) \in C BY <1>2
        <3> QED BY <3>1
    <2>2. two \in Seq(Seq(C)) /\ Len(two) = N BY <1>1, <2>1
    <2>3. \A i \in 1 .. N : two[i] = <<Heading(f.parts[i]), Body(f.parts[i])>> BY <1>1
    <2>4. \A h, b : Len(<<h, b>>) = 2 OBVIOUS
    <2> HIDE DEF two
    <2>5. \A i \in 1 .. N : Len(two[i]) = 2 BY <2>3, <2>4
    <2> QED BY <2>2, <2>3, <2>5
<1> HIDE DEF two
<1>4. rest \in Seq(C) /\ Paired(rest, two, N)
    <2>1. rest \in Seq(C) BY <1>3, FlattenType
    <2>2. Paired(rest, two, N) BY <1>3, FlattenPairs
    <2> QED BY <2>1, <2>2
<1>5. Cells(f) = <<f.preamble>> \o rest BY DEF Cells, two
<1>6. f.preamble \in C
    <2>1. /\ Cells(f) \in Seq(C) /\ Cells(f) # <<>> /\ Cells(f)[1] = f.preamble BY CellsType DEF C
    <2>2. 1 \in 1 .. Len(Cells(f)) BY <2>1
    <2> QED BY <2>1, <2>2
<1>7. Tail(Cells(f)) = rest
    <2> HIDE DEF rest
    <2> QED BY <1>4, <1>5, <1>6, TailOfOne
<1>8. Cells(f)[1] = f.preamble BY CellsType
<1>9. MarkdownPairs(f)
        = [i \in 1 .. (Len(rest) \div 2) |-> [heading |-> rest[2 * i - 1], body |-> rest[2 * i]]]
    <2> HIDE DEF rest
    <2>1. ~(Cells(f)[1].marks > 0) BY <1>8
    <2> QED BY <1>7, <2>1 DEF MarkdownPairs
<1> HIDE DEF rest
<1>10. Len(rest) \div 2 = N BY <1>1, <1>4 DEF Paired
<1>11. Len(MarkdownPairs(f)) = N BY <1>1, <1>9, <1>10
<1>12. ASSUME NEW i \in 1 .. N
       PROVE  MarkdownPairs(f)[i] = [heading |-> Heading(f.parts[i]), body |-> Body(f.parts[i])]
    <2>1. MarkdownPairs(f)[i] = [heading |-> rest[2 * i - 1], body |-> rest[2 * i]] BY <1>9, <1>10
    <2>2. rest[2 * i - 1] = two[i][1] /\ rest[2 * i] = two[i][2] BY <1>4 DEF Paired
    <2>3. two[i][1] = Heading(f.parts[i]) /\ two[i][2] = Body(f.parts[i]) BY <1>3
    <2> QED BY <2>1, <2>2, <2>3
<1> QED BY <1>11, <1>12 DEF N

(* Where the headings come to stand, and what is under them.                 *)
Fronted(f) == IF f.preamble.texts = <<>> THEN 0 ELSE 1

Placed(at, f) ==
    /\ at \in [1 .. Len(f.parts) + 1 -> Nat \ {0}] /\ at[1] = Fronted(f) + 1
    /\ \A i \in 1 .. Len(f.parts) : at[i + 1] = at[i] + 1 + Len(f.parts[i].paras)

Hung(at, f, i) == IF Above(f, i) = {} THEN 0 ELSE at[Nearest(f, i)]

Laid(E, at, f, k) ==
    /\ Len(E) = at[k + 1] - 1
    /\ f.preamble.texts # <<>> => E[1] = Element(FALSE, 0, f.preamble.texts, 0)
    /\ \A i \in 1 .. k : E[at[i]] = Element(TRUE, f.parts[i].level, <<f.parts[i].title>>, Hung(at, f, i))
    /\ \A i \in 1 .. k : \A j \in 1 .. Len(f.parts[i].paras) :
          E[at[i] + j] = Element(FALSE, 0, <<f.parts[i].paras[j]>>, at[i])

PartSizes(f) ==
    /\ Len(f.parts) \in Nat /\ DOMAIN f.parts = 1 .. Len(f.parts)
    /\ \A i \in 1 .. Len(f.parts) : Len(f.parts[i].paras) \in Nat /\ f.parts[i].level \in Nat

LEMMA PartsAre ==
    ASSUME NEW f, IsMarkdown(f)
    PROVE  PartSizes(f)
BY DEF PartSizes, IsMarkdown, IsSeq

LEMMA PlacedApart ==
    ASSUME NEW f, IsMarkdown(f), NEW at, Placed(at, f)
    PROVE  \A i, j \in 1 .. Len(f.parts) + 1 : i < j => at[i] + 1 + Len(f.parts[i].paras) <= at[j]
<1> DEFINE N == Len(f.parts)
           Size(i) == Len(f.parts[i].paras)
           Q == {k \in 0 .. N : \A i \in 1 .. k : at[i] + 1 + Size(i) <= at[k + 1]}
<1>1. N \in Nat /\ \A i \in 1 .. N : Size(i) \in Nat BY PartsAre DEF PartSizes
<1>2. /\ \A i \in 1 .. N + 1 : at[i] \in Nat
      /\ \A i \in 1 .. N : at[i + 1] = at[i] + 1 + Size(i)
    BY DEF Placed
<1> HIDE DEF N, Size
<1>3. 0 \in Q BY <1>1
<1>4. ASSUME NEW k \in 1 .. N, k - 1 \in Q PROVE k \in Q
    <2>1. \A i \in 1 .. k - 1 : at[i] + 1 + Size(i) <= at[k]
        <3>1. k - 1 + 1 = k BY <1>1
        <3> QED BY <1>4, <3>1
    <2>2. k \in 1 .. N + 1 /\ k + 1 \in 1 .. N + 1 BY <1>1
    <2>3. at[k + 1] = at[k] + 1 + Size(k) /\ at[k] \in Nat /\ at[k + 1] \in Nat /\ Size(k) \in Nat
        BY <1>1, <1>2, <2>2
    <2>4. ASSUME NEW i \in 1 .. k PROVE at[i] + 1 + Size(i) <= at[k + 1]
        <3>1. CASE i = k BY <2>3, <3>1
        <3>2. CASE i \in 1 .. k - 1
            <4>1. at[i] \in Nat /\ Size(i) \in Nat BY <1>1, <1>2, <3>2
            <4> QED BY <2>1, <2>3, <3>2, <4>1
        <3> QED BY <1>1, <3>1, <3>2
    <2> QED BY <1>1, <2>4
<1>5. \A k \in 0 .. N : k \in Q
    <2>1. \A k \in 1 .. N : k - 1 \in Q => k \in Q BY <1>4
    <2> HIDE DEF Q
    <2> QED BY <1>1, <1>3, <2>1, UpTo
<1> SUFFICES ASSUME NEW i \in 1 .. N + 1, NEW j \in 1 .. N + 1, i < j
             PROVE  at[i] + 1 + Size(i) <= at[j]
    BY DEF N, Size
<1>6. j - 1 \in 0 .. N /\ i \in 1 .. j - 1 /\ (j - 1) + 1 = j BY <1>1
<1>7. j - 1 \in Q BY <1>5, <1>6
<1> QED BY <1>6, <1>7

(* Every position is that of the preface, of a heading or of one of its texts. *)
LEMMA PlacedAll ==
    ASSUME NEW f, IsMarkdown(f), NEW at, Placed(at, f), NEW p \in 1 .. at[Len(f.parts) + 1] - 1
    PROVE  \/ f.preamble.texts # <<>> /\ p = 1
           \/ \E i \in 1 .. Len(f.parts) : p \in at[i] .. at[i] + Len(f.parts[i].paras)
<1> DEFINE N == Len(f.parts)
           Size(i) == Len(f.parts[i].paras)
           Q == {i \in 1 .. N + 1 : p < at[i]}
<1>1. N \in Nat /\ \A i \in 1 .. N : Size(i) \in Nat BY PartsAre DEF PartSizes
<1>2. /\ \A i \in 1 .. N + 1 : at[i] \in Nat
      /\ at[1] = Fronted(f) + 1
      /\ \A i \in 1 .. N : at[i + 1] = at[i] + 1 + Size(i)
    BY DEF Placed
<1>3. p \in Nat /\ p < at[N + 1] /\ 1 <= p BY <1>1, <1>2
<1> HIDE DEF N, Size
<1>4. N + 1 \in Q BY <1>1, <1>3
<1>5. PICK i \in Q : \A j \in Q : i <= j
    <2>1. Q \subseteq Nat BY <1>1
    <2> HIDE DEF Q
    <2> QED BY <1>4, <2>1, LeastOf
<1>6. CASE i = 1
    <2>1. p < Fronted(f) + 1 BY <1>2, <1>5, <1>6
    <2> QED BY <1>3, <2>1 DEF Fronted
<1>7. CASE i # 1
    <2>1. i - 1 \in 1 .. N /\ i - 1 \in 1 .. N + 1 /\ ~(i <= i - 1) /\ (i - 1) + 1 = i BY <1>1, <1>5, <1>7
    <2>2. ~(p < at[i - 1]) BY <1>5, <2>1
    <2>3. p < at[i] /\ at[i] = at[i - 1] + 1 + Size(i - 1) BY <1>2, <1>5, <2>1
    <2>4. at[i - 1] \in Nat /\ Size(i - 1) \in Nat BY <1>1, <1>2, <2>1
    <2>5. p \in at[i - 1] .. at[i - 1] + Size(i - 1) BY <1>3, <2>2, <2>3, <2>4
    <2> QED BY <2>1, <2>5 DEF N, Size
<1> QED BY <1>6, <1>7

(* The stack: every heading that is open stands on it, in the order of the   *)
(* file, and what is on it is a heading.                                     *)
Entry(at, f, j) == [at |-> at[j], level |-> f.parts[j].level]

Open(f, k) == {j \in 1 .. k : \A m \in j + 1 .. k : f.parts[j].level < f.parts[m].level}

Ascending(stack) == \A a, b \in DOMAIN stack : a < b => stack[a].at < stack[b].at

Stacked(stack, at, f, k) ==
    /\ \A m \in DOMAIN stack : \E j \in 1 .. k : stack[m] = Entry(at, f, j)
    /\ \A j \in Open(f, k) : \E m \in DOMAIN stack : stack[m] = Entry(at, f, j)
    /\ Ascending(stack)

\* Only the headings that are shallower than the level are left.
Shallow(stack, at, f, k, level) ==
    /\ \A m \in DOMAIN stack : \E j \in 1 .. k : f.parts[j].level < level /\ stack[m] = Entry(at, f, j)
    /\ \A j \in Open(f, k) : f.parts[j].level < level => \E m \in DOMAIN stack : stack[m] = Entry(at, f, j)
    /\ Ascending(stack)

LEMMA PoppedShallow ==
    ASSUME NEW f, NEW at, NEW k, NEW stack \in Stacks, Stacked(stack, at, f, k), NEW level
    PROVE  Shallow(Popped(stack, level), at, f, k, level)
<1> DEFINE P == {i \in DOMAIN stack : stack[i].level < level}
           popped == Popped(stack, level)
<1>1. stack \in Seq(Headings) /\ DOMAIN stack = 1 .. Len(stack) BY DEF Stacks
<1>2. popped = Sift(stack, P) BY DEF Popped
<1>3. \A i \in 1 .. Len(stack) : i \in P <=> stack[i].level < level BY <1>1
<1> HIDE DEF P, popped
<1>4. PICK pos : Marks(pos, stack, P) BY <1>1, SiftPositions
<1>5. /\ pos \in Seq(1 .. Len(stack)) /\ Increasing(pos)
      /\ \A i \in 1 .. Len(stack) : i \in P <=> \E m \in DOMAIN pos : pos[m] = i
      /\ popped = [m \in 1 .. Len(pos) |-> stack[pos[m]]]
    BY <1>2, <1>4 DEF Marks
<1>6. /\ DOMAIN popped = 1 .. Len(pos) /\ DOMAIN pos = 1 .. Len(pos)
      /\ \A m \in 1 .. Len(pos) : popped[m] = stack[pos[m]] /\ pos[m] \in 1 .. Len(stack) /\ pos[m] \in P
    BY <1>5
<1>7. ASSUME NEW m \in DOMAIN popped
      PROVE  \E j \in 1 .. k : f.parts[j].level < level /\ popped[m] = Entry(at, f, j)
    <2>1. popped[m] = stack[pos[m]] /\ pos[m] \in 1 .. Len(stack) /\ pos[m] \in P BY <1>6
    <2>2. PICK j \in 1 .. k : stack[pos[m]] = Entry(at, f, j) BY <1>1, <2>1 DEF Stacked
    <2>3. stack[pos[m]].level < level BY <1>3, <2>1
    <2>4. f.parts[j].level < level BY <2>2, <2>3 DEF Entry
    <2> QED BY <2>1, <2>2, <2>4
<1>8. ASSUME NEW j \in Open(f, k), f.parts[j].level < level
      PROVE  \E m \in DOMAIN popped : popped[m] = Entry(at, f, j)
    <2>1. PICK i \in DOMAIN stack : stack[i] = Entry(at, f, j) BY DEF Stacked
    <2>2. i \in P BY <1>1, <1>3, <1>8, <2>1 DEF Entry
    <2>3. PICK m \in DOMAIN pos : pos[m] = i BY <1>1, <1>5, <2>2
    <2> QED BY <1>6, <2>1, <2>3
<1>9. Ascending(popped)
    <2> SUFFICES ASSUME NEW a \in DOMAIN popped, NEW b \in DOMAIN popped, a < b
                 PROVE  popped[a].at < popped[b].at
        BY DEF Ascending
    <2>1. pos[a] < pos[b] BY <1>5, <1>6 DEF Increasing
    <2>2. pos[a] \in DOMAIN stack /\ pos[b] \in DOMAIN stack BY <1>1, <1>6
    <2>3. stack[pos[a]].at < stack[pos[b]].at BY <2>1, <2>2 DEF Stacked, Ascending
    <2> QED BY <1>6, <2>3
<1>10. Shallow(popped, at, f, k, level) BY <1>7, <1>8, <1>9 DEF Shallow
<1> QED BY <1>10 DEF popped

LEMMA TopIsNearest ==
    ASSUME NEW f, IsMarkdown(f), NEW at, Placed(at, f), NEW k \in 1 .. Len(f.parts),
           NEW stack \in Stacks, Shallow(stack, at, f, k - 1, f.parts[k].level)
    PROVE  TopOf(stack) = Hung(at, f, k)
<1> DEFINE level == f.parts[k].level
           N == Len(f.parts)
           Depth(i) == f.parts[i].level
<1>1. N \in Nat /\ \A i \in 1 .. N : Depth(i) \in Nat BY PartsAre DEF PartSizes
<1>2. stack \in Seq(Headings) /\ DOMAIN stack = 1 .. Len(stack) /\ Len(stack) \in Nat BY DEF Stacks
<1>3. Above(f, k) = {j \in 1 .. k - 1 : Depth(j) < level} BY DEF Above
<1>4. \A i, j \in 1 .. N : i < j => at[i] < at[j]
    <2> SUFFICES ASSUME NEW i \in 1 .. N, NEW j \in 1 .. N, i < j PROVE at[i] < at[j] OBVIOUS
    <2>1. i \in 1 .. N + 1 /\ j \in 1 .. N + 1 BY <1>1
    <2>2. at[i] + 1 + Len(f.parts[i].paras) <= at[j] BY <2>1, PlacedApart
    <2>3. at[i] \in Nat /\ at[j] \in Nat BY <2>1 DEF Placed
    <2>4. Len(f.parts[i].paras) \in Nat BY PartsAre DEF PartSizes
    <2> QED BY <2>2, <2>3, <2>4
<1>5. \A i \in 1 .. N : at[i] \in Nat BY <1>1 DEF Placed
<1>6. CASE Above(f, k) = {}
    <2>1. stack = <<>>
        <3> SUFFICES ASSUME stack # <<>> PROVE FALSE OBVIOUS
        <3>1. 1 \in DOMAIN stack BY <1>2
        <3>2. PICK j \in 1 .. k - 1 : Depth(j) < level BY <3>1 DEF Shallow
        <3> QED BY <1>3, <1>6, <3>2
    <2> QED BY <1>6, <2>1 DEF TopOf, Hung
<1>7. CASE Above(f, k) # {}
    <2> DEFINE g == Nearest(f, k)
    <2>1. g \in Above(f, k) /\ \A j \in Above(f, k) : j <= g
        <3>1. k \in Nat BY <1>1
        <3> QED BY <1>7, <3>1, NearestIs
    <2> HIDE DEF g
    <2>2. g \in 1 .. k - 1 /\ Depth(g) < level /\ g \in 1 .. N BY <1>1, <1>3, <2>1
    <2>3. g \in Open(f, k - 1)
        <3> SUFFICES ASSUME NEW m \in g + 1 .. k - 1 PROVE Depth(g) < Depth(m) BY <2>2 DEF Open
        <3>1. m \in 1 .. k - 1 /\ m \in 1 .. N /\ ~(m <= g) BY <1>1, <2>2
        <3>2. m \notin Above(f, k) BY <2>1, <3>1
        <3>3. ~(Depth(m) < level) BY <1>3, <3>1, <3>2
        <3>4. Depth(m) \in Nat /\ Depth(g) \in Nat /\ level \in Nat BY <1>1, <2>2, <3>1
        <3> QED BY <2>2, <3>3, <3>4
    <2>4. PICK a \in DOMAIN stack : stack[a] = Entry(at, f, g) BY <2>2, <2>3 DEF Shallow
    <2> DEFINE last == Len(stack)
    <2>5. last \in DOMAIN stack /\ a <= last /\ a \in Nat /\ last \in Nat /\ stack # <<>> BY <1>2, <2>4
    <2>6. PICK j \in 1 .. k - 1 : Depth(j) < level /\ stack[last] = Entry(at, f, j) BY <2>5 DEF Shallow
    <2>7. j \in Above(f, k) /\ j <= g /\ j \in 1 .. N BY <1>1, <1>3, <2>1, <2>6
    <2>8. j = g
        <3> SUFFICES ASSUME j < g PROVE FALSE BY <1>1, <2>2, <2>7
        <3>1. at[j] < at[g] BY <1>4, <2>2, <2>7
        <3>2. at[j] \in Nat /\ at[g] \in Nat BY <1>5, <2>2, <2>7
        <3>3. stack[a].at = at[g] /\ stack[last].at = at[j] BY <2>4, <2>6 DEF Entry
        <3>4. CASE a = last BY <3>1, <3>2, <3>3, <3>4
        <3>5. CASE a < last
            <4>1. stack[a].at < stack[last].at BY <2>5, <3>5 DEF Shallow, Ascending
            <4> QED BY <3>1, <3>2, <3>3, <4>1
        <3> QED BY <2>5, <3>4, <3>5
    <2>9. TopOf(stack) = stack[last].at BY <2>5 DEF TopOf, Last
    <2>10. stack[last].at = at[g] BY <2>6, <2>8 DEF Entry
    <2>11. Hung(at, f, k) = at[g] BY <1>7 DEF Hung, g
    <2> QED BY <2>9, <2>10, <2>11
<1> QED BY <1>6, <1>7

LEMMA StackedMore ==
    ASSUME NEW f, IsMarkdown(f), NEW at, Placed(at, f), NEW k \in 1 .. Len(f.parts),
           NEW stack \in Stacks, Shallow(stack, at, f, k - 1, f.parts[k].level)
    PROVE  Stacked(Append(stack, Entry(at, f, k)), at, f, k)
<1> DEFINE N == Len(f.parts)
           Depth(i) == f.parts[i].level
           new == Append(stack, Entry(at, f, k))
           n == Len(stack)
<1>0. N \in Nat /\ k \in 1 .. N /\ \A i \in 1 .. N : Depth(i) \in Nat BY PartsAre DEF PartSizes
<1>1. N \in Nat /\ (\A i \in 1 .. N : Depth(i) \in Nat /\ at[i] \in Nat \ {0}) /\ k \in 1 .. N
    <2>1. ASSUME NEW i \in 1 .. N PROVE at[i] \in Nat \ {0}
        <3>1. i \in 1 .. N + 1 BY <1>0
        <3> QED BY <3>1 DEF Placed
    <2> QED BY <1>0, <2>1
<1>2. stack \in Seq(Headings) /\ DOMAIN stack = 1 .. n /\ n \in Nat BY DEF Stacks
<1>3. Entry(at, f, k) \in Headings BY <1>1 DEF Entry, Headings
<1>4. /\ new \in Seq(Headings) /\ DOMAIN new = 1 .. n + 1 /\ new[n + 1] = Entry(at, f, k)
      /\ \A m \in 1 .. n : new[m] = stack[m]
    <2> DEFINE e == Entry(at, f, k)
    <2> HIDE DEF e, n
    <2>1. e \in Headings BY <1>3 DEF e
    <2>2. /\ Append(stack, e) \in Seq(Headings) /\ DOMAIN Append(stack, e) = 1 .. n + 1
          /\ Append(stack, e)[n + 1] = e /\ \A m \in 1 .. n : Append(stack, e)[m] = stack[m]
        BY <1>2, <2>1 DEF n
    <2> QED BY <2>2 DEF e
<1> HIDE DEF new, n, N
<1>5. \A m \in 1 .. n + 1 : m \in 1 .. n \/ m = n + 1 BY <1>2
<1>6. ASSUME NEW m \in DOMAIN new PROVE \E j \in 1 .. k : new[m] = Entry(at, f, j)
    <2>1. CASE m \in 1 .. n
        <3>1. PICK j \in 1 .. k - 1 : stack[m] = Entry(at, f, j) BY <1>2, <2>1 DEF Shallow
        <3>2. j \in 1 .. k BY <1>1, <3>1
        <3> QED BY <1>4, <2>1, <3>1, <3>2
    <2>2. CASE m = n + 1
        <3>1. k \in 1 .. k BY <1>1
        <3> QED BY <1>4, <2>2, <3>1
    <2> QED BY <1>4, <1>5, <2>1, <2>2
<1>7. ASSUME NEW j \in Open(f, k) PROVE \E m \in DOMAIN new : new[m] = Entry(at, f, j)
    <2>0. j \in 1 .. k /\ \A m \in j + 1 .. k : Depth(j) < Depth(m) BY DEF Open
    <2>1. CASE j = k
        <3>1. n + 1 \in DOMAIN new BY <1>2, <1>4
        <3> QED BY <1>4, <2>1, <3>1
    <2>2. CASE j # k
        <3>1. j \in 1 .. k - 1 /\ k \in j + 1 .. k /\ \A m \in j + 1 .. k - 1 : m \in j + 1 .. k
            BY <1>1, <2>0, <2>2
        <3>2. j \in Open(f, k - 1) BY <2>0, <3>1 DEF Open
        <3>3. Depth(j) < Depth(k) BY <2>0, <3>1
        <3>4. PICK m \in DOMAIN stack : stack[m] = Entry(at, f, j) BY <3>2, <3>3 DEF Shallow
        <3>5. m \in DOMAIN new /\ new[m] = stack[m] BY <1>2, <1>4, <3>4
        <3> QED BY <3>4, <3>5
    <2> QED BY <2>1, <2>2
<1>8. Ascending(new)
    <2> SUFFICES ASSUME NEW a \in DOMAIN new, NEW b \in DOMAIN new, a < b
                 PROVE  new[a].at < new[b].at
        BY DEF Ascending
    <2>1. a \in 1 .. n
        BY <1>2, <1>4
    <2>2. CASE b \in 1 .. n
        <3>1. stack[a].at < stack[b].at BY <1>2, <2>1, <2>2 DEF Shallow, Ascending
        <3> QED BY <1>4, <2>1, <2>2, <3>1
    <2>3. CASE b = n + 1
        <3>1. PICK j \in 1 .. k - 1 : stack[a] = Entry(at, f, j) BY <1>2, <2>1 DEF Shallow
        <3>2. j \in 1 .. N + 1 /\ k \in 1 .. N + 1 /\ j < k /\ j \in 1 .. N BY <1>1, <3>1
        <3>3. at[j] + 1 + Len(f.parts[j].paras) <= at[k] BY <3>2, PlacedApart DEF N
        <3>4. at[j] \in Nat /\ at[k] \in Nat BY <1>1, <3>2
        <3>5. Len(f.parts[j].paras) \in Nat BY <3>2, PartsAre DEF PartSizes, N
        <3>6. at[j] < at[k] BY <3>3, <3>4, <3>5
        <3>7. new[a].at = at[j] /\ new[b].at = at[k] BY <1>4, <2>1, <2>3, <3>1 DEF Entry
        <3> QED BY <3>6, <3>7
    <2> QED BY <1>4, <1>5, <2>2, <2>3
<1>9. Stacked(new, at, f, k) BY <1>6, <1>7, <1>8 DEF Stacked
<1> QED BY <1>9 DEF new
(* One heading more with its body.                                           *)
LEMMA LaidMore ==
    ASSUME NEW f, IsMarkdown(f), NEW at, Placed(at, f), NEW k \in 1 .. Len(f.parts),
           NEW l, l.stack \in Stacks, Laid(l.elements, at, f, k - 1), Stacked(l.stack, at, f, k - 1),
           NEW new,
           PairLoaded(new, l, Heading(f.parts[k]), Body(f.parts[k]), at[k] - 1, Len(f.parts[k].paras),
                      Popped(l.stack, f.parts[k].level))
    PROVE  Laid(new.elements, at, f, k) /\ Stacked(new.stack, at, f, k)
<1> DEFINE N == Len(f.parts)
           Size(i) == Len(f.parts[i].paras)
           popped == Popped(l.stack, f.parts[k].level)
           old == l.elements
           E == new.elements
<1>0. N \in Nat /\ k \in 1 .. N /\ (\A i \in 1 .. N : Size(i) \in Nat) /\ f.parts[k].level \in Nat
    BY PartsAre DEF PartSizes
<1>1. /\ \A i \in 1 .. N + 1 : at[i] \in Nat \ {0}
      /\ \A i \in 1 .. N : at[i + 1] = at[i] + 1 + Size(i)
    BY DEF Placed
<1>2. \A i \in 1 .. N + 1 : i < k => at[i] + 1 + Size(i) <= at[k]
    <2>1. k \in 1 .. N + 1 BY <1>0
    <2> QED BY <2>1, PlacedApart
<1>3. popped \in Stacks BY <1>0, PoppedType
<1>4. TopOf(popped) = Hung(at, f, k)
    <2>1. Shallow(popped, at, f, k - 1, f.parts[k].level) BY PoppedShallow
    <2> QED BY <1>3, <2>1, TopIsNearest
<1>5. /\ Len(E) = at[k] - 1 + 1 + Size(k)
      /\ \A i \in 1 .. at[k] - 1 : E[i] = old[i]
      /\ E[at[k] - 1 + 1] = Element(TRUE, f.parts[k].level, <<f.parts[k].title>>, TopOf(popped))
      /\ \A i \in 1 .. Size(k) : E[at[k] - 1 + 1 + i] = Element(FALSE, 0, <<f.parts[k].paras[i]>>, at[k] - 1 + 1)
      /\ new.stack = Append(popped, [at |-> at[k] - 1 + 1, level |-> f.parts[k].level])
    BY DEF PairLoaded, Heading, Body, Element
<1>6. at[k] \in Nat \ {0} /\ at[k] - 1 + 1 = at[k]
    <2>1. k \in 1 .. N + 1 BY <1>0
    <2>2. at[k] \in Nat \ {0} BY <1>1, <2>1
    <2> QED BY <2>2
<1>7. /\ Len(old) = at[k] - 1
      /\ f.preamble.texts # <<>> => old[1] = Element(FALSE, 0, f.preamble.texts, 0)
      /\ \A i \in 1 .. k - 1 : old[at[i]] = Element(TRUE, f.parts[i].level, <<f.parts[i].title>>, Hung(at, f, i))
      /\ \A i \in 1 .. k - 1 : \A j \in 1 .. Size(i) :
            old[at[i] + j] = Element(FALSE, 0, <<f.parts[i].paras[j]>>, at[i])
    <2>1. k - 1 + 1 = k BY <1>0
    <2> QED BY <2>1 DEF Laid
<1>8. Stacked(new.stack, at, f, k)
    <2>1. Shallow(popped, at, f, k - 1, f.parts[k].level) BY PoppedShallow
    <2>2. Stacked(Append(popped, Entry(at, f, k)), at, f, k) BY <1>3, <2>1, StackedMore
    <2>3. new.stack = Append(popped, Entry(at, f, k)) BY <1>5, <1>6 DEF Entry
    <2> QED BY <2>2, <2>3
<1> HIDE DEF N, Size, popped, old, E
<1>9. Len(E) = at[k + 1] - 1
    <2>1. at[k + 1] = at[k] + 1 + Size(k) /\ Size(k) \in Nat BY <1>0, <1>1
    <2> QED BY <1>5, <1>6, <2>1
<1>10. f.preamble.texts # <<>> => E[1] = Element(FALSE, 0, f.preamble.texts, 0)
    <2> SUFFICES ASSUME f.preamble.texts # <<>> PROVE E[1] = old[1] BY <1>7
    <2>1. at[1] = 2 BY DEF Placed, Fronted
    <2>2. 1 \in 1 .. N + 1 /\ (k = 1 \/ 1 < k) BY <1>0
    <2>3. 1 < at[k]
        <3>1. CASE k = 1 BY <2>1, <3>1
        <3>2. CASE 1 < k
            <4>1. at[1] + 1 + Size(1) <= at[k] /\ Size(1) \in Nat BY <1>0, <1>2, <2>2, <3>2
            <4> QED BY <1>6, <2>1, <4>1
        <3> QED BY <2>2, <3>1, <3>2
    <2>4. 1 \in 1 .. at[k] - 1 BY <1>6, <2>3
    <2> QED BY <1>5, <2>4
<1>11. ASSUME NEW i \in 1 .. k
       PROVE  /\ E[at[i]] = Element(TRUE, f.parts[i].level, <<f.parts[i].title>>, Hung(at, f, i))
              /\ \A j \in 1 .. Size(i) : E[at[i] + j] = Element(FALSE, 0, <<f.parts[i].paras[j]>>, at[i])
    <2>1. CASE i = k BY <1>4, <1>5, <1>6, <2>1
    <2>2. CASE i # k
        <3>1. i \in 1 .. k - 1 /\ i \in 1 .. N + 1 /\ i \in 1 .. N /\ i < k BY <1>0, <2>2
        <3>2. at[i] + 1 + Size(i) <= at[k] /\ at[i] \in Nat \ {0} /\ Size(i) \in Nat BY <1>0, <1>1, <1>2, <3>1
        <3>3. at[i] \in 1 .. at[k] - 1 BY <1>6, <3>2
        <3>4. \A j \in 1 .. Size(i) : at[i] + j \in 1 .. at[k] - 1 BY <1>6, <3>2
        <3>5. E[at[i]] = old[at[i]] BY <1>5, <3>3
        <3>6. \A j \in 1 .. Size(i) : E[at[i] + j] = old[at[i] + j] BY <1>5, <3>4
        <3> QED BY <1>7, <3>1, <3>5, <3>6
    <2> QED BY <2>1, <2>2
<1>12. Laid(E, at, f, k) BY <1>9, <1>10, <1>11 DEF Laid, Size
<1> QED BY <1>8, <1>12 DEF E

LEMMA LaidOut ==
    ASSUME NEW f, IsMarkdown(f), f.preamble.marks = 0
    PROVE  \E at : Placed(at, f) /\ Laid(Loaded(f), at, f, Len(f.parts))
<1> DEFINE W == MarkdownWords(f)
           pairs == MarkdownPairs(f)
           pre == Preface(f)
           N == Len(f.parts)
           Size(i) == Len(f.parts[i].paras)
<1>1. pairs \in Seq(Pairs(W)) /\ pre \in Seq(Elements(W)) BY PairsType
<1>2. /\ Len(pairs) = N
      /\ \A i \in 1 .. N : pairs[i] = [heading |-> Heading(f.parts[i]), body |-> Body(f.parts[i])]
    BY MarkdownPairsAre
<1>3. N \in Nat /\ \A i \in 1 .. N : Size(i) \in Nat BY PartsAre DEF PartSizes
<1>4. PICK run : Loads(run, pairs, W, pre)
    <2> HIDE DEF W, pairs, pre
    <2> QED BY <1>1, LoadsUnfold
<1>5. Loaded(f) = run[N].elements
    <2>1. Cells(f)[1] = f.preamble BY CellsType
    <2>2. Loaded(f) = FoldLeft(LAMBDA l, p : LoadPair(l, p.heading, p.body),
                               [elements |-> pre, stack |-> <<>>], pairs).elements
        BY <2>1 DEF Loaded, MarkdownPairs, Preface
    <2> HIDE DEF W, pairs, pre
    <2>3. FoldLeft(LAMBDA l, p : LoadPair(l, p.heading, p.body),
                   [elements |-> pre, stack |-> <<>>], pairs) = run[Len(pairs)]
        BY <1>4, Zenon DEF Loads
    <2> QED BY <1>2, <2>2, <2>3, Zenon
<1> HIDE DEF W, pairs, pre
<1>6. LoadSteps(run, pairs, W, pre) BY <1>4, Zenon DEF Loads
<1>7. /\ run[0] = [elements |-> pre, stack |-> <<>>]
      /\ \A k \in 0 .. N : run[k] \in Loadings(W)
      /\ \A i \in 1 .. N : run[i] = LoadPair(run[i - 1], pairs[i].heading, pairs[i].body)
    BY <1>2, <1>6 DEF LoadSteps
<1>8. \A k \in 0 .. N : Len(run[k].elements) \in Nat /\ run[k].stack \in Stacks BY <1>7 DEF Loadings
<1>9. ASSUME NEW i \in 1 .. N
      PROVE  PairLoaded(run[i], run[i - 1], Heading(f.parts[i]), Body(f.parts[i]), Len(run[i - 1].elements),
                        Size(i), Popped(run[i - 1].stack, f.parts[i].level))
    <2>1. pairs[i] \in Pairs(W) BY <1>1, <1>2
    <2>2. pairs[i].heading \in CellsOf(W) /\ pairs[i].body \in CellsOf(W) BY <2>1 DEF Pairs
    <2>3. pairs[i].heading = Heading(f.parts[i]) /\ pairs[i].body = Body(f.parts[i])
        <3>1. pairs[i] = [heading |-> Heading(f.parts[i]), body |-> Body(f.parts[i])] BY <1>2
        <3>2. \A h, b : [heading |-> h, body |-> b].heading = h /\ [heading |-> h, body |-> b].body = b OBVIOUS
        <3> QED BY <3>1, <3>2
    <2>4. i - 1 \in 0 .. N /\ run[i - 1] \in Loadings(W) BY <1>3, <1>7
    <2>5. Heading(f.parts[i]).texts # <<>> BY DEF Heading
    <2>6. run[i] = LoadPair(run[i - 1], Heading(f.parts[i]), Body(f.parts[i])) BY <1>7, <2>3
    <2> DEFINE h == Heading(f.parts[i])
               b == Body(f.parts[i])
    <2>7. h.marks = f.parts[i].level /\ b.texts = f.parts[i].paras BY DEF Heading, Body
    <2> HIDE DEF h, b
    <2>8. h \in CellsOf(W) /\ b \in CellsOf(W) /\ h.texts # <<>> /\ run[i] = LoadPair(run[i - 1], h, b)
        BY <2>2, <2>3, <2>5, <2>6 DEF h, b
    <2>9. PairLoaded(LoadPair(run[i - 1], h, b), run[i - 1], h, b, Len(run[i - 1].elements), Len(b.texts),
                     Popped(run[i - 1].stack, h.marks))
        BY <2>4, <2>8, LoadPairEffect
    <2> QED BY <2>7, <2>8, <2>9 DEF h, b
<1> DEFINE at == [i \in 1 .. N + 1 |-> Len(run[i - 1].elements) + 1]
<1>10. \A i \in 1 .. N + 1 : at[i] = Len(run[i - 1].elements) + 1 /\ i - 1 \in 0 .. N BY <1>3
<1>11. Len(run[0].elements) = Fronted(f)
    <2>1. pre = IF f.preamble.texts = <<>> THEN <<>> ELSE <<Element(FALSE, 0, f.preamble.texts, 0)>>
        BY DEF pre, Preface
    <2>2. Len(<<>>) = 0 /\ \A x : Len(<<x>>) = 1 OBVIOUS
    <2>3. run[0].elements = pre BY <1>7
    <2> QED BY <2>1, <2>2, <2>3 DEF Fronted
<1>12. Placed(at, f)
    <2>1. at \in [1 .. N + 1 -> Nat \ {0}] BY <1>8, <1>10
    <2>2. 1 \in 1 .. N + 1 BY <1>3
    <2>3. at[1] = Fronted(f) + 1 BY <1>10, <1>11, <2>2
    <2>4. ASSUME NEW i \in 1 .. N PROVE at[i + 1] = at[i] + 1 + Size(i)
        <3>1. i \in 1 .. N + 1 /\ i + 1 \in 1 .. N + 1 /\ i + 1 - 1 = i /\ i \in 0 .. N /\ i - 1 \in 0 .. N BY <1>3
        <3>2. Len(run[i].elements) = Len(run[i - 1].elements) + 1 + Size(i) BY <1>9 DEF PairLoaded
        <3>3. at[i + 1] = Len(run[i].elements) + 1 /\ at[i] = Len(run[i - 1].elements) + 1 BY <1>10, <3>1
        <3>4. Len(run[i - 1].elements) \in Nat /\ Size(i) \in Nat BY <1>3, <1>8, <3>1
        <3> HIDE DEF at, Size
        <3> QED BY <3>2, <3>3, <3>4
    <2> HIDE DEF at
    <2> QED BY <2>1, <2>3, <2>4 DEF Placed
<1> HIDE DEF at, N, Size
<1> DEFINE Q == {k \in 0 .. N : Laid(run[k].elements, at, f, k) /\ Stacked(run[k].stack, at, f, k)}
<1>13. 0 \in Q
    <2>1. run[0].stack = <<>> /\ run[0].elements = pre BY <1>7
    <2>2. Len(run[0].elements) = at[0 + 1] - 1
        <3>1. at[0 + 1] = Fronted(f) + 1 BY <1>12 DEF Placed
        <3>2. Fronted(f) \in Nat BY DEF Fronted
        <3> QED BY <1>11, <3>1, <3>2
    <2>3. f.preamble.texts # <<>> => pre[1] = Element(FALSE, 0, f.preamble.texts, 0) BY DEF pre, Preface
    <2>4. Laid(run[0].elements, at, f, 0)
        <3>1. \A i \in 1 .. 0 : FALSE OBVIOUS
        <3> QED BY <2>1, <2>2, <2>3, <3>1 DEF Laid
    <2>5. Stacked(<<>>, at, f, 0)
        <3>1. DOMAIN <<>> = {} /\ Open(f, 0) = {} BY DEF Open
        <3> QED BY <3>1 DEF Stacked, Ascending
    <2>6. 0 \in 0 .. N BY <1>3
    <2> QED BY <2>1, <2>4, <2>5, <2>6
<1>14. ASSUME NEW k \in 1 .. N, k - 1 \in Q PROVE k \in Q
    <2>1. k \in 1 .. Len(f.parts) BY DEF N
    <2>2. Laid(run[k - 1].elements, at, f, k - 1) /\ Stacked(run[k - 1].stack, at, f, k - 1) BY <1>14
    <2>3. k - 1 \in 0 .. N /\ k \in 0 .. N /\ k \in 1 .. N + 1 BY <1>3
    <2>4. run[k - 1].stack \in Stacks /\ Len(run[k - 1].elements) \in Nat BY <1>8, <2>3
    <2>5. Len(run[k - 1].elements) = at[k] - 1 BY <1>10, <2>3, <2>4
    <2>6. PairLoaded(run[k], run[k - 1], Heading(f.parts[k]), Body(f.parts[k]), at[k] - 1, Len(f.parts[k].paras),
                     Popped(run[k - 1].stack, f.parts[k].level))
        BY <1>9, <2>5 DEF Size
    <2>7. Laid(run[k].elements, at, f, k) /\ Stacked(run[k].stack, at, f, k)
        BY <1>12, <2>1, <2>2, <2>4, <2>6, LaidMore
    <2> QED BY <2>3, <2>7
<1>15. N \in Q
    <2>1. \A k \in 1 .. N : k - 1 \in Q => k \in Q BY <1>14
    <2> HIDE DEF Q
    <2>2. \A k \in 0 .. N : k \in Q BY <1>3, <1>13, <2>1, UpTo
    <2> QED BY <1>3, <2>2
<1>16. Laid(Loaded(f), at, f, N) BY <1>5, <1>15
<1> QED BY <1>12, <1>16 DEF N

(* Which positions hold a title, what stands before the first, and what is   *)
(* under the i-th.                                                           *)
Within(at, f, n) ==
    /\ n = at[Len(f.parts) + 1] - 1 /\ n \in Nat
    /\ \A i \in 1 .. Len(f.parts) : at[i] \in 1 .. n /\ at[i] + Len(f.parts[i].paras) \in 1 .. n
    /\ \A i, j \in 1 .. Len(f.parts) : i < j => at[i] + Len(f.parts[i].paras) < at[j]
    /\ f.preamble.texts # <<>> => 1 \in 1 .. n /\ \A i \in 1 .. Len(f.parts) : 1 < at[i]

LEMMA PlacedWithin ==
    ASSUME NEW f, IsMarkdown(f), NEW at, Placed(at, f), NEW E, Len(E) = at[Len(f.parts) + 1] - 1
    PROVE  Within(at, f, Len(E))
<1> DEFINE N == Len(f.parts)
           Size(i) == Len(f.parts[i].paras)
           n == Len(E)
<1>1. N \in Nat /\ \A i \in 1 .. N : Size(i) \in Nat BY PartsAre DEF PartSizes
<1>2. (\A i \in 1 .. N + 1 : at[i] \in Nat \ {0}) /\ at[1] = Fronted(f) + 1 BY DEF Placed
<1>3. \A i, j \in 1 .. N + 1 : i < j => at[i] + 1 + Size(i) <= at[j] BY PlacedApart
<1>4. n = at[N + 1] - 1 OBVIOUS
<1> HIDE DEF N, Size, n
<1>5. N + 1 \in 1 .. N + 1 /\ 1 \in 1 .. N + 1 /\ \A i \in 1 .. N : i \in 1 .. N + 1 /\ i < N + 1 BY <1>1
<1>6. n \in Nat BY <1>2, <1>4, <1>5
<1>7. ASSUME NEW i \in 1 .. N PROVE at[i] \in 1 .. n /\ at[i] + Size(i) \in 1 .. n
    <2>1. at[i] + 1 + Size(i) <= at[N + 1] BY <1>3, <1>5
    <2>2. at[i] \in Nat \ {0} /\ at[N + 1] \in Nat \ {0} /\ Size(i) \in Nat BY <1>1, <1>2, <1>5
    <2> QED BY <1>4, <2>1, <2>2
<1>8. ASSUME NEW i \in 1 .. N, NEW j \in 1 .. N, i < j PROVE at[i] + Size(i) < at[j]
    <2>1. at[i] + 1 + Size(i) <= at[j] BY <1>3, <1>5, <1>8
    <2>2. at[i] \in Nat \ {0} /\ at[j] \in Nat \ {0} /\ Size(i) \in Nat BY <1>1, <1>2, <1>5
    <2> QED BY <2>1, <2>2
<1>9. ASSUME f.preamble.texts # <<>> PROVE 1 \in 1 .. n /\ \A i \in 1 .. N : 1 < at[i]
    <2>1. at[1] = 2 BY <1>2, <1>9 DEF Fronted
    <2>2. ASSUME NEW i \in 1 .. N + 1 PROVE 1 < at[i]
        <3>1. CASE i = 1 BY <2>1, <3>1
        <3>2. CASE i # 1
            <4>1. 1 < i /\ 1 \in 1 .. N BY <1>1, <3>2
            <4>2. at[1] + 1 + Size(1) <= at[i] /\ Size(1) \in Nat /\ at[i] \in Nat BY <1>1, <1>2, <1>3, <1>5, <4>1
            <4> QED BY <2>1, <4>2
        <3> QED BY <3>1, <3>2
    <2>3. 1 < at[N + 1] /\ at[N + 1] \in Nat BY <1>2, <1>5, <2>2
    <2>4. 1 \in 1 .. n BY <1>4, <2>3
    <2> QED BY <1>5, <2>2, <2>4
<1> QED BY <1>4, <1>6, <1>7, <1>8, <1>9 DEF Within, N, Size, n

Grouped(E, at, f) ==
    /\ \A p \in 1 .. Len(E) : E[p].title <=> \E i \in 1 .. Len(f.parts) : p = at[i]
    /\ \A p \in 1 .. Len(E) : ~E[p].title /\ E[p].up = 0 <=> f.preamble.texts # <<>> /\ p = 1
    /\ \A p \in 1 .. Len(E), i \in 1 .. Len(f.parts) :
          ~E[p].title /\ E[p].up = at[i] <=> p \in at[i] + 1 .. at[i] + Len(f.parts[i].paras)

LEMMA LaidGroups ==
    ASSUME NEW f, IsMarkdown(f), NEW at, Placed(at, f), NEW E, Laid(E, at, f, Len(f.parts))
    PROVE  Grouped(E, at, f)
<1> DEFINE N == Len(f.parts)
           Size(i) == Len(f.parts[i].paras)
           n == Len(E)
           Part(p, i) == p \in at[i] + 1 .. at[i] + Size(i)
           First(p) == f.preamble.texts # <<>> /\ p = 1
<1>1. N \in Nat /\ \A i \in 1 .. N : Size(i) \in Nat BY PartsAre DEF PartSizes
<1>2. Len(E) = at[N + 1] - 1 BY DEF Laid
<1>3. /\ n \in Nat
      /\ \A i \in 1 .. N : at[i] \in 1 .. n /\ at[i] + Size(i) \in 1 .. n
      /\ \A i, j \in 1 .. N : i < j => at[i] + Size(i) < at[j]
      /\ f.preamble.texts # <<>> => 1 \in 1 .. n /\ \A i \in 1 .. N : 1 < at[i]
    <2>1. Within(at, f, n) BY <1>2, PlacedWithin
    <2> QED BY <2>1 DEF Within
<1>4. \A p \in 1 .. n : First(p) \/ \E i \in 1 .. N : p = at[i] \/ Part(p, i)
    <2> SUFFICES ASSUME NEW p \in 1 .. n PROVE First(p) \/ \E i \in 1 .. N : p = at[i] \/ Part(p, i) OBVIOUS
    <2>1. First(p) \/ \E i \in 1 .. N : p \in at[i] .. at[i] + Size(i) BY <1>2, PlacedAll
    <2>2. ASSUME NEW i \in 1 .. N, p \in at[i] .. at[i] + Size(i) PROVE p = at[i] \/ Part(p, i)
        <3>1. at[i] \in Nat /\ Size(i) \in Nat BY <1>1, <1>3
        <3> HIDE DEF Size
        <3> QED BY <2>2, <3>1
    <2> HIDE DEF Part, First, N
    <2> QED BY <2>1, <2>2
<1>5. \A p : First(p) => E[p].title = FALSE /\ E[p].up = 0 BY DEF Laid, Element
<1>6. ASSUME NEW i \in 1 .. N PROVE E[at[i]].title = TRUE
    <2>1. E[at[i]] = Element(TRUE, f.parts[i].level, <<f.parts[i].title>>, Hung(at, f, i)) BY DEF Laid
    <2> DEFINE t == <<f.parts[i].title>>
    <2>2. E[at[i]] = Element(TRUE, f.parts[i].level, t, Hung(at, f, i)) BY <2>1
    <2> HIDE DEF t
    <2> QED BY <2>2 DEF Element
<1>7. ASSUME NEW i \in 1 .. N, NEW p, Part(p, i) PROVE E[p].title = FALSE /\ E[p].up = at[i]
    <2> DEFINE j == p - at[i]
    <2>1. j \in 1 .. Size(i) /\ p = at[i] + j
        <3>1. at[i] \in Nat /\ Size(i) \in Nat BY <1>1, <1>3
        <3> HIDE DEF Size
        <3> QED BY <1>7, <3>1
    <2> HIDE DEF j
    <2>2. E[p] = Element(FALSE, 0, <<f.parts[i].paras[j]>>, at[i]) BY <2>1 DEF Laid
    <2> QED BY <2>2 DEF Element
<1> HIDE DEF N, Size, n, First
<1>8. \A i, j \in 1 .. N : at[i] = at[j] => i = j
    <2> SUFFICES ASSUME NEW i \in 1 .. N, NEW j \in 1 .. N, i # j PROVE at[i] # at[j] OBVIOUS
    <2>1. at[i] \in Nat /\ at[j] \in Nat /\ Size(i) \in Nat /\ Size(j) \in Nat BY <1>1, <1>3
    <2>2. i < j \/ j < i BY <1>1
    <2> QED BY <1>3, <2>1, <2>2
<1>9. \A i \in 1 .. N : at[i] # 0 BY <1>3
<1> HIDE DEF Part
<1>10. ASSUME NEW p \in 1 .. n
       PROVE  /\ E[p].title <=> \E i \in 1 .. N : p = at[i]
              /\ ~E[p].title /\ E[p].up = 0 <=> First(p)
    <2>1. CASE First(p)
        <3>1. E[p].title = FALSE /\ E[p].up = 0 BY <1>5, <2>1
        <3>2. ~(\E i \in 1 .. N : p = at[i]) BY <1>6, <3>1
        <3> QED BY <2>1, <3>1, <3>2
    <2>2. CASE \E i \in 1 .. N : p = at[i]
        <3>1. E[p].title = TRUE BY <1>6, <2>2
        <3>2. ~First(p) BY <1>5, <3>1
        <3> QED BY <2>2, <3>1, <3>2
    <2>3. CASE \E i \in 1 .. N : Part(p, i)
        <3>1. PICK i \in 1 .. N : Part(p, i) BY <2>3
        <3>2. E[p].title = FALSE /\ E[p].up = at[i] BY <1>7, <3>1
        <3>3. E[p].up # 0 /\ ~First(p) BY <1>5, <1>9, <3>2
        <3>4. ~(\E j \in 1 .. N : p = at[j]) BY <1>6, <3>2
        <3> QED BY <3>2, <3>3, <3>4
    <2> QED BY <1>4, <2>1, <2>2, <2>3
<1>12. ASSUME NEW p \in 1 .. n, NEW i \in 1 .. N PROVE ~E[p].title /\ E[p].up = at[i] <=> Part(p, i)
    <2>1. CASE First(p)
        <3>1. ~Part(p, i)
            <4>1. E[p].up # at[i] BY <1>5, <1>9, <2>1
            <4> QED BY <1>7, <4>1
        <3> QED BY <1>5, <1>9, <2>1, <3>1
    <2>2. CASE \E j \in 1 .. N : p = at[j]
        <3>1. E[p].title = TRUE BY <1>6, <2>2
        <3> QED BY <1>7, <3>1
    <2>3. CASE \E j \in 1 .. N : Part(p, j)
        <3>1. PICK j \in 1 .. N : Part(p, j) BY <2>3
        <3>2. E[p].title = FALSE /\ E[p].up = at[j] BY <1>7, <3>1
        <3> QED BY <1>7, <1>8, <3>1, <3>2
    <2> QED BY <1>4, <2>1, <2>2, <2>3
<1> QED BY <1>10, <1>12 DEF Grouped, N, Size, n, First, Part

(* The path of a title is the path of its heading.                           *)
LEMMA PathsAgree ==
    ASSUME NEW f, IsMarkdown(f), NEW at, Placed(at, f), Laid(Loaded(f), at, f, Len(f.parts)),
           NEW k \in 1 .. Len(f.parts)
    PROVE  TitlePath(Loaded(f))[at[k]] = HeadingPath(f)[k]
<1> DEFINE W == MarkdownWords(f)
           E == Loaded(f)
           N == Len(f.parts)
           path == TitlePath(E)
           own == HeadingPath(f)
           Q == {i \in 1 .. N : path[at[i]] # own[i]}
<1>1. N \in Nat BY PartsAre DEF PartSizes
<1>2. E \in Seq(Elements(W)) /\ UnderTitles(E) BY LoadedShape
<1>3. TitlesLead(path, E, W)
    <2> HIDE DEF W, E
    <2> QED BY <1>2, TitlePathUnfolds
<1>4. HeadingsLead(own, f) BY HeadingPathUnfolds
<1>5. ASSUME NEW i \in 1 .. N
      PROVE  /\ E[at[i]] = Element(TRUE, f.parts[i].level, <<f.parts[i].title>>, Hung(at, f, i))
             /\ at[i] \in 1 .. Len(E) /\ f.parts[i].title \in W
    <2>1. Len(E) = at[N + 1] - 1 BY DEF Laid
    <2>2. Within(at, f, Len(E)) BY <2>1, PlacedWithin
    <2>3. DOMAIN f.parts = 1 .. N BY PartsAre DEF PartSizes
    <2> QED BY <2>2, <2>3 DEF Laid, Within, MarkdownWords
<1> HIDE DEF W, E, path, own, N
<1>6. Q = {}
    <2> SUFFICES ASSUME Q # {} PROVE FALSE OBVIOUS
    <2>1. PICK i \in Q : \A j \in Q : i <= j
        <3>1. Q \subseteq Nat OBVIOUS
        <3> HIDE DEF Q
        <3> QED BY <3>1, LeastOf
    <2>2. i \in 1 .. N /\ path[at[i]] # own[i] /\ \A j \in 1 .. N : j < i => path[at[j]] = own[j] BY <2>1
    <2> DEFINE up == Hung(at, f, i)
               title == f.parts[i].title
    <2>3. at[i] \in 1 .. Len(E) /\ title \in W BY <1>5, <2>2
    <2>4. E[at[i]] = Element(TRUE, f.parts[i].level, <<title>>, up) BY <1>5, <2>2
    <2>5. path[at[i]] = path[up] \o <<title>>
        <3>1. E[at[i]].title = TRUE /\ E[at[i]].texts = <<title>> /\ E[at[i]].up = up
            <4> HIDE DEF title, up
            <4> QED BY <2>4 DEF Element
        <3> QED BY <1>3, <2>3, <3>1 DEF TitlesLead
    <2>6. own[i] = Append(IF Above(f, i) = {} THEN <<>> ELSE own[Nearest(f, i)], title)
        BY <1>4, <2>2 DEF HeadingsLead, N
    <2>7. path[up] = (IF Above(f, i) = {} THEN <<>> ELSE own[Nearest(f, i)]) /\ path[up] \in Seq(W)
        <3>1. CASE Above(f, i) = {}
            <4>1. up = 0 BY <3>1 DEF Hung
            <4>2. path[0] = <<>> BY <1>3 DEF TitlesLead
            <4> QED BY <3>1, <4>1, <4>2
        <3>2. CASE Above(f, i) # {}
            <4> DEFINE g == Nearest(f, i)
            <4>1. g \in Above(f, i) BY <2>2, <3>2, NearestIs
            <4> HIDE DEF g
            <4>2. g \in 1 .. N /\ g < i BY <1>1, <2>2, <4>1 DEF Above
            <4>3. up = at[g] BY <3>2 DEF Hung, g
            <4>4. path[at[g]] = own[g] BY <2>2, <4>2
            <4>5. at[g] \in 0 .. Len(E)
                <5>1. at[g] \in 1 .. Len(E) BY <1>5, <4>2
                <5> QED BY <5>1
            <4>6. path[at[g]] \in Seq(W) BY <1>3, <4>5 DEF TitlesLead
            <4> QED BY <3>2, <4>3, <4>4, <4>6 DEF g
        <3> QED BY <3>1, <3>2
    <2> HIDE DEF up, title
    <2>8. path[up] \o <<title>> = Append(path[up], title) BY <2>3, <2>7, ConcatSingle
    <2> QED BY <2>2, <2>5, <2>6, <2>7, <2>8
<1> QED BY <1>6 DEF path, own, E, N

(* What is sifted is what was there when nothing is left out.                *)
Run(base, n) == [j \in 1 .. n |-> base + j]

LEMMA RunIs ==
    ASSUME NEW base \in Nat, NEW n \in Nat
    PROVE  /\ Run(base, n) \in Seq(Nat) /\ Len(Run(base, n)) = n /\ Increasing(Run(base, n))
           /\ \A j \in 1 .. n : Run(base, n)[j] = base + j
           /\ ToSet(Run(base, n)) = base + 1 .. base + n
<1> DEFINE r == Run(base, n)
<1>1. r \in Seq(Nat) /\ Len(r) = n /\ DOMAIN r = 1 .. n /\ \A j \in 1 .. n : r[j] = base + j BY DEF Run
<1> HIDE DEF r
<1>2. Increasing(r) BY <1>1 DEF Increasing
<1>3. ToSet(r) = base + 1 .. base + n
    <2>1. ASSUME NEW p \in base + 1 .. base + n PROVE p \in ToSet(r)
        <3>1. p - base \in 1 .. n /\ base + (p - base) = p OBVIOUS
        <3>2. r[p - base] = p BY <1>1, <3>1
        <3> QED BY <1>1, <3>1, <3>2 DEF ToSet
    <2>2. ASSUME NEW p \in ToSet(r) PROVE p \in base + 1 .. base + n
        <3>1. PICK j \in 1 .. n : r[j] = p BY <1>1 DEF ToSet
        <3> QED BY <1>1, <3>1
    <2> QED BY <2>1, <2>2
<1> QED BY <1>1, <1>2, <1>3 DEF r

LEMMA SiftAll ==
    ASSUME NEW C, NEW s \in Seq(C)
    PROVE  Sift(s, 1 .. Len(s)) = s
<1> DEFINE n == Len(s)
           P == 1 .. n
<1>1. n \in Nat OBVIOUS
<1>2. PICK at : Marks(at, s, P) BY SiftPositions
<1>3. /\ at \in Seq(1 .. n) /\ Increasing(at)
      /\ \A i \in 1 .. n : \E k \in DOMAIN at : at[k] = i
      /\ Sift(s, P) = [k \in 1 .. Len(at) |-> s[at[k]]]
    BY <1>2 DEF Marks
<1>4. DOMAIN at = 1 .. Len(at) /\ at \in Seq(Nat) /\ \A k \in DOMAIN at : at[k] \in 1 .. n BY <1>1, <1>3
<1>5. ToSet(at) = 0 + 1 .. 0 + n
    <2>1. 0 + 1 .. 0 + n = 1 .. n BY <1>1
    <2> QED BY <1>3, <1>4, <2>1 DEF ToSet
<1> HIDE DEF n
<1>6. at = Run(0, n)
    <2>1. 0 \in Nat OBVIOUS
    <2>2. Run(0, n) \in Seq(Nat) /\ Increasing(Run(0, n)) /\ ToSet(Run(0, n)) = 0 + 1 .. 0 + n
        BY <1>1, <2>1, RunIs
    <2> DEFINE r == Run(0, n)
    <2> HIDE DEF r
    <2>3. r \in Seq(Nat) /\ Increasing(r) /\ ToSet(r) = ToSet(at) BY <1>5, <2>2 DEF r
    <2>4. at = r BY <1>3, <1>4, <2>3, SameIncreasing
    <2> QED BY <2>4 DEF r
<1>7. Len(at) = n /\ \A k \in 1 .. n : at[k] = k
    <2>1. 0 \in Nat OBVIOUS
    <2>2. Len(Run(0, n)) = n /\ \A j \in 1 .. n : Run(0, n)[j] = 0 + j BY <1>1, <2>1, RunIs
    <2> QED BY <1>1, <1>6, <2>2
<1>8. Sift(s, P) = [k \in 1 .. n |-> s[k]] BY <1>3, <1>7
<1>9. s = [k \in 1 .. n |-> s[k]] BY DEF n
<1> QED BY <1>8, <1>9 DEF n

LEMMA FlattenSingles ==
    ASSUME NEW C, NEW s \in Seq(C)
    PROVE  FlattenSeq(Singles(s)) = s
<1>1. Singles(s) \in Seq(Seq(C)) /\ Len(Singles(s)) = Len(s) BY SinglesType
<1> DEFINE all == Singles(s)
<1> HIDE DEF all
<1>2. Sift(all, 1 .. Len(s)) = all BY <1>1, SiftAll DEF all
<1>3. FlattenSeq(Sift(all, 1 .. Len(s))) = Sift(s, 1 .. Len(s)) BY FlattenSifted DEF all
<1>4. Sift(s, 1 .. Len(s)) = s BY SiftAll
<1> QED BY <1>2, <1>3, <1>4 DEF all

(* The texts a heading gathers are those under it.                           *)
LEMMA BucketIs ==
    ASSUME NEW f, IsMarkdown(f), NEW at, Placed(at, f), NEW W, NEW E \in Seq(Elements(W)),
           Laid(E, at, f, Len(f.parts)), NEW k \in 1 .. Len(f.parts)
    PROVE  Bucket(E, at[k]) = Run(at[k], Len(f.parts[k].paras))
<1> DEFINE N == Len(f.parts)
           n == Len(f.parts[k].paras)
           P == {i \in DOMAIN E : ~E[i].title /\ E[i].up = at[k]}
           bucket == Bucket(E, at[k])
<1>1. n \in Nat BY PartsAre DEF PartSizes
<1>2. at[k] \in 1 .. Len(E) /\ at[k] + n \in 1 .. Len(E)
    <2>1. Len(E) = at[N + 1] - 1 BY DEF Laid
    <2>2. Within(at, f, Len(E)) BY <2>1, PlacedWithin
    <2> QED BY <2>2 DEF Within
<1>3. Len(E) \in Nat /\ DOMAIN E = 1 .. Len(E) OBVIOUS
<1>4. \A p \in 1 .. Len(E) : p \in P <=> p \in at[k] + 1 .. at[k] + n
    <2>1. Grouped(E, at, f) BY LaidGroups
    <2> HIDE DEF n, N
    <2>2. \A p \in 1 .. Len(E) : ~E[p].title /\ E[p].up = at[k] <=> p \in at[k] + 1 .. at[k] + n
        BY <2>1 DEF Grouped, n
    <2> QED BY <1>3, <2>2
<1>5. bucket = Sift(Positions(E), P) BY DEF Bucket
<1> HIDE DEF P, n, bucket
<1>6. /\ bucket \in Seq(1 .. Len(E)) /\ Increasing(bucket)
      /\ \A i \in 1 .. Len(E) : i \in P <=> \E m \in DOMAIN bucket : bucket[m] = i
    BY <1>5, SiftedPositions
<1>7. DOMAIN bucket = 1 .. Len(bucket) /\ bucket \in Seq(Nat) /\ \A m \in DOMAIN bucket : bucket[m] \in 1 .. Len(E)
    BY <1>3, <1>6
<1>8. ToSet(bucket) = at[k] + 1 .. at[k] + n
    <2>1. ASSUME NEW p \in at[k] + 1 .. at[k] + n PROVE p \in ToSet(bucket)
        <3>1. p \in 1 .. Len(E) BY <1>1, <1>2, <1>3
        <3> QED BY <1>4, <1>6, <3>1 DEF ToSet
    <2>2. ASSUME NEW p \in ToSet(bucket) PROVE p \in at[k] + 1 .. at[k] + n
        <3>1. PICK m \in DOMAIN bucket : bucket[m] = p BY DEF ToSet
        <3>2. p \in 1 .. Len(E) BY <1>7, <3>1
        <3> QED BY <1>4, <1>6, <3>1, <3>2
    <2> QED BY <2>1, <2>2
<1>9. at[k] \in Nat BY <1>2
<1> DEFINE r == Run(at[k], n)
<1>10. r \in Seq(Nat) /\ Increasing(r) /\ ToSet(r) = at[k] + 1 .. at[k] + n BY <1>1, <1>9, RunIs
<1> HIDE DEF r
<1>11. bucket = r BY <1>6, <1>7, <1>8, <1>10, SameIncreasing
<1> QED BY <1>11 DEF bucket, n, r

LEMMA GatheredIs ==
    ASSUME NEW f, IsMarkdown(f), NEW at, Placed(at, f), NEW W, NEW E \in Seq(Elements(W)),
           Laid(E, at, f, Len(f.parts)), NEW k \in 1 .. Len(f.parts)
    PROVE  GatheredAt(E, at[k]) = f.parts[k].paras
<1> DEFINE paras == f.parts[k].paras
           n == Len(paras)
           bucket == Bucket(E, at[k])
<1>1. n \in Nat /\ DOMAIN f.parts = 1 .. Len(f.parts) BY PartsAre DEF PartSizes
<1>2. paras \in Seq(ToSet(paras)) BY <1>1 DEF IsMarkdown, IsSeq
<1>3. bucket = Run(at[k], n) BY BucketIs
<1>4. at[k] \in Nat
    <2>1. Len(E) = at[Len(f.parts) + 1] - 1 BY DEF Laid
    <2>2. Within(at, f, Len(E)) BY <2>1, PlacedWithin
    <2> QED BY <2>2 DEF Within
<1> HIDE DEF n, bucket
<1>5. DOMAIN bucket = 1 .. n /\ \A j \in 1 .. n : bucket[j] = at[k] + j BY <1>1, <1>3, <1>4 DEF Run
<1>6. \A j \in 1 .. n : E[at[k] + j].texts = <<paras[j]>>
    <2> SUFFICES ASSUME NEW j \in 1 .. n PROVE E[at[k] + j].texts = <<paras[j]>> OBVIOUS
    <2>1. E[at[k] + j] = Element(FALSE, 0, <<paras[j]>>, at[k]) BY DEF Laid, n
    <2> QED BY <2>1 DEF Element
<1>7. [j \in DOMAIN bucket |-> E[bucket[j]].texts] = [j \in 1 .. n |-> <<paras[j]>>] BY <1>5, <1>6
<1>8. Singles(paras) = [j \in 1 .. n |-> <<paras[j]>>]
    <2>1. DOMAIN paras = 1 .. n BY <1>2 DEF n
    <2> HIDE DEF paras
    <2> QED BY <2>1 DEF Singles
<1>9. FlattenSeq(Singles(paras)) = paras BY <1>2, FlattenSingles
<1> QED BY <1>7, <1>8, <1>9 DEF GatheredAt, bucket

(* The headings with a text under them, and the elements a section is made   *)
(* of.                                                                       *)
Filled(f) == Sift(Positions(f.parts), {i \in DOMAIN f.parts : f.parts[i].paras # <<>>})

LEMMA FilledAre ==
    ASSUME NEW f, IsMarkdown(f)
    PROVE  /\ Filled(f) \in Seq(1 .. Len(f.parts)) /\ Increasing(Filled(f))
           /\ \A i \in 1 .. Len(f.parts) :
                f.parts[i].paras # <<>> <=> \E k \in DOMAIN Filled(f) : Filled(f)[k] = i
<1> DEFINE P == {i \in DOMAIN f.parts : f.parts[i].paras # <<>>}
<1>1. f.parts \in Seq(ToSet(f.parts)) /\ DOMAIN f.parts = 1 .. Len(f.parts) BY DEF IsMarkdown, IsSeq
<1>2. \A i \in 1 .. Len(f.parts) : i \in P <=> f.parts[i].paras # <<>> BY <1>1
<1>3. Filled(f) = Sift(Positions(f.parts), P) BY DEF Filled
<1> HIDE DEF P
<1> QED BY <1>1, <1>2, <1>3, SiftedPositions

Before(f) == IF f.preamble.texts = <<>> THEN <<>> ELSE <<1>>

Picked(f, at) == Before(f) \o [k \in DOMAIN Filled(f) |-> at[Filled(f)[k]]]

LEMMA PickedAre ==
    ASSUME NEW f, IsMarkdown(f), NEW at, Placed(at, f)
    PROVE  /\ Picked(f, at) \in Seq(Nat) /\ Len(Picked(f, at)) = Fronted(f) + Len(Filled(f))
           /\ f.preamble.texts # <<>> => Picked(f, at)[1] = 1
           /\ \A k \in 1 .. Len(Filled(f)) : Picked(f, at)[Fronted(f) + k] = at[Filled(f)[k]]
<1> DEFINE filled == Filled(f)
           n == Len(filled)
           x == Before(f)
           y == [k \in DOMAIN filled |-> at[filled[k]]]
           m == Fronted(f)
<1>1. filled \in Seq(1 .. Len(f.parts)) BY FilledAre
<1>2. n \in Nat /\ DOMAIN filled = 1 .. n BY <1>1
<1>3. \A k \in 1 .. n : at[filled[k]] \in Nat
    <2>1. \A i \in 1 .. Len(f.parts) : at[i] \in Nat
        <3>1. Len(f.parts) \in Nat BY PartsAre DEF PartSizes
        <3> QED BY <3>1 DEF Placed
    <2> HIDE DEF n
    <2> QED BY <1>1, <1>2, <2>1
<1>4. x \in Seq(Nat) /\ Len(x) = m /\ (f.preamble.texts # <<>> => m = 1 /\ x[1] = 1)
    <2>1. /\ <<>> \in Seq(Nat) /\ Len(<<>>) = 0
          /\ <<1>> \in Seq(Nat) /\ Len(<<1>>) = 1 /\ <<1>>[1] = 1
        OBVIOUS
    <2> QED BY <2>1 DEF Before, Fronted
<1> HIDE DEF filled, n
<1>5. y \in Seq(Nat) /\ Len(y) = n /\ \A k \in 1 .. n : y[k] = at[filled[k]] BY <1>2, <1>3
<1>6. Picked(f, at) = x \o y BY DEF Picked, filled
<1> HIDE DEF x, y
<1>7. x \o y \in Seq(Nat) /\ Joined(x \o y, x, y) BY <1>4, <1>5, ConcatAt
<1> DEFINE z == x \o y
<1> HIDE DEF z
<1>8. z \in Seq(Nat) /\ Joined(z, x, y) BY <1>7 DEF z
<1>9. Len(z) = m + n BY <1>4, <1>5, <1>8 DEF Joined
<1>10. f.preamble.texts # <<>> => z[1] = 1
    <2> SUFFICES ASSUME f.preamble.texts # <<>> PROVE z[1] = 1 OBVIOUS
    <2>1. 1 \in 1 .. Len(x) /\ x[1] = 1 BY <1>4
    <2> QED BY <1>8, <2>1 DEF Joined
<1>11. \A k \in 1 .. n : z[m + k] = at[filled[k]] BY <1>4, <1>5, <1>8 DEF Joined
<1> QED BY <1>6, <1>8, <1>9, <1>10, <1>11 DEF z, n, filled

LEMMA KeptIs ==
    ASSUME NEW f, IsMarkdown(f), NEW at, Placed(at, f), NEW W, NEW E \in Seq(Elements(W)),
           Laid(E, at, f, Len(f.parts))
    PROVE  KeptOf(E) = Picked(f, at)
<1> DEFINE N == Len(f.parts)
           Size(i) == Len(f.parts[i].paras)
           filled == Filled(f)
           n == Len(filled)
           m == Fronted(f)
           First(p) == f.preamble.texts # <<>> /\ p = 1
           P == {i \in DOMAIN E : IF E[i].title THEN Bucket(E, i) # <<>> ELSE E[i].up = 0}
           kept == KeptOf(E)
           z == Picked(f, at)
<1>1. N \in Nat /\ \A i \in 1 .. N : Size(i) \in Nat BY PartsAre DEF PartSizes
<1>2. /\ filled \in Seq(1 .. N) /\ Increasing(filled)
      /\ \A i \in 1 .. N : f.parts[i].paras # <<>> <=> \E k \in DOMAIN filled : filled[k] = i
    BY FilledAre
<1>3. /\ z \in Seq(Nat) /\ Len(z) = m + n /\ (f.preamble.texts # <<>> => z[1] = 1)
      /\ \A k \in 1 .. n : z[m + k] = at[filled[k]]
    BY PickedAre
<1>4. m = IF f.preamble.texts = <<>> THEN 0 ELSE 1 BY DEF Fronted
<1>5. Len(E) \in Nat /\ DOMAIN E = 1 .. Len(E) OBVIOUS
<1>6. /\ \A i \in 1 .. N : at[i] \in 1 .. Len(E) /\ at[i] + Size(i) \in 1 .. Len(E)
      /\ \A i, j \in 1 .. N : i < j => at[i] + Size(i) < at[j]
      /\ f.preamble.texts # <<>> => 1 \in 1 .. Len(E) /\ \A i \in 1 .. N : 1 < at[i]
    <2>1. Len(E) = at[N + 1] - 1 BY DEF Laid
    <2>2. Within(at, f, Len(E)) BY <2>1, PlacedWithin
    <2> QED BY <2>2 DEF Within
<1>7. /\ \A p \in 1 .. Len(E) : E[p].title <=> \E i \in 1 .. N : p = at[i]
      /\ \A p \in 1 .. Len(E) : ~E[p].title /\ E[p].up = 0 <=> First(p)
    <2>1. Grouped(E, at, f) BY LaidGroups
    <2> QED BY <2>1 DEF Grouped
<1>8. \A i \in 1 .. N : Bucket(E, at[i]) # <<>> <=> f.parts[i].paras # <<>>
    <2> SUFFICES ASSUME NEW i \in 1 .. N PROVE Bucket(E, at[i]) # <<>> <=> f.parts[i].paras # <<>> OBVIOUS
    <2> DEFINE paras == f.parts[i].paras
               r == Run(at[i], Size(i))
    <2>1. Bucket(E, at[i]) = r BY BucketIs
    <2>2. at[i] \in Nat /\ Size(i) \in Nat BY <1>1, <1>6
    <2> HIDE DEF Size
    <2>3. r \in Seq(Nat) /\ Len(r) = Size(i) BY <2>2, RunIs
    <2>4. paras \in Seq(ToSet(paras)) /\ Len(paras) = Size(i)
        <3>1. DOMAIN f.parts = 1 .. N BY PartsAre DEF PartSizes
        <3> QED BY <3>1 DEF IsMarkdown, IsSeq, Size
    <2> HIDE DEF r, paras
    <2>5. r # <<>> <=> Size(i) # 0 BY <2>3
    <2>6. paras # <<>> <=> Size(i) # 0 BY <2>4
    <2> QED BY <2>1, <2>5, <2>6 DEF paras
<1>9. kept = Sift(Positions(E), P) BY DEF KeptOf
<1>10. \A p \in 1 .. Len(E) : p \in P <=> (IF E[p].title THEN Bucket(E, p) # <<>> ELSE E[p].up = 0) BY <1>5
<1> HIDE DEF P, kept, z, n, m, filled, N, Size, First
<1>11. /\ kept \in Seq(1 .. Len(E)) /\ Increasing(kept)
       /\ \A i \in 1 .. Len(E) : i \in P <=> \E k \in DOMAIN kept : kept[k] = i
    BY <1>9, SiftedPositions
<1>12. n \in Nat /\ DOMAIN filled = 1 .. n /\ \A k \in 1 .. n : filled[k] \in 1 .. N
    <2>1. Len(filled) \in Nat /\ DOMAIN filled = 1 .. Len(filled) BY <1>2
    <2>2. ASSUME NEW k \in 1 .. Len(filled) PROVE filled[k] \in 1 .. N
        <3> DEFINE D == 1 .. N
        <3>1. filled \in Seq(D) BY <1>2
        <3> HIDE DEF D
        <3>2. filled[k] \in D BY <3>1
        <3> QED BY <3>2 DEF D
    <2> QED BY <2>1, <2>2 DEF n
<1>13. \A p \in 1 .. Len(E) : p \in P <=> First(p) \/ \E k \in 1 .. n : p = at[filled[k]]
    <2> SUFFICES ASSUME NEW p \in 1 .. Len(E)
                 PROVE  p \in P <=> First(p) \/ \E k \in 1 .. n : p = at[filled[k]]
        OBVIOUS
    <2>1. CASE E[p].title
        <3>1. ~First(p) BY <1>7, <2>1
        <3>2. p \in P <=> Bucket(E, p) # <<>> BY <1>10, <2>1
        <3>3. PICK i \in 1 .. N : p = at[i] BY <1>7, <2>1
        <3>4. p \in P <=> f.parts[i].paras # <<>> BY <1>8, <3>2, <3>3
        <3>5. ASSUME p \in P PROVE \E k \in 1 .. n : p = at[filled[k]]
            <4>1. PICK k \in DOMAIN filled : filled[k] = i BY <1>2, <3>4, <3>5
            <4> QED BY <1>12, <3>3, <4>1
        <3>6. ASSUME NEW k \in 1 .. n, p = at[filled[k]] PROVE p \in P
            <4>1. filled[k] \in 1 .. N /\ k \in DOMAIN filled BY <1>12
            <4>2. f.parts[filled[k]].paras # <<>> BY <1>2, <4>1
            <4> QED BY <1>8, <3>2, <3>6, <4>1, <4>2
        <3> QED BY <3>1, <3>5, <3>6
    <2>2. CASE ~E[p].title
        <3>1. p \in P <=> First(p) BY <1>7, <1>10, <2>2
        <3>2. ~(\E k \in 1 .. n : p = at[filled[k]]) BY <1>7, <1>12, <2>2
        <3> QED BY <3>1, <3>2
    <2> QED BY <2>1, <2>2
<1>14. DOMAIN z = 1 .. m + n /\ m \in {0, 1} BY <1>3, <1>4
<1>15. \A j \in 1 .. m + n : (j = 1 /\ m = 1) \/ \E k \in 1 .. n : j = m + k
    <2> SUFFICES ASSUME NEW j \in 1 .. m + n, ~(j = 1 /\ m = 1) PROVE \E k \in 1 .. n : j = m + k OBVIOUS
    <2>1. j - m \in 1 .. n /\ j = m + (j - m) BY <1>12, <1>14
    <2> QED BY <2>1
<1>16. m = 1 => z[1] = 1 /\ f.preamble.texts # <<>> BY <1>3, <1>4
<1>17. ToSet(z) = ToSet(kept)
    <2>0. DOMAIN kept = 1 .. Len(kept) /\ \A k \in DOMAIN kept : kept[k] \in 1 .. Len(E) BY <1>11
    <2>1. ASSUME NEW p \in ToSet(z) PROVE p \in ToSet(kept)
        <3>1. PICK j \in 1 .. m + n : z[j] = p BY <1>14 DEF ToSet
        <3>2. p \in 1 .. Len(E) /\ p \in P
            <4>1. CASE j = 1 /\ m = 1
                <5>1. p = 1 /\ f.preamble.texts # <<>> BY <1>16, <3>1, <4>1
                <5>2. p \in 1 .. Len(E) /\ First(p) BY <1>6, <5>1 DEF First
                <5> QED BY <1>13, <5>2
            <4>2. CASE \E k \in 1 .. n : j = m + k
                <5>1. PICK k \in 1 .. n : j = m + k BY <4>2
                <5>2. p = at[filled[k]] /\ filled[k] \in 1 .. N BY <1>3, <1>12, <3>1, <5>1
                <5>3. p \in 1 .. Len(E) BY <1>6, <5>2
                <5> QED BY <1>13, <5>2, <5>3
            <4> QED BY <1>15, <4>1, <4>2
        <3> QED BY <1>11, <3>2 DEF ToSet
    <2>2. ASSUME NEW p \in ToSet(kept) PROVE p \in ToSet(z)
        <3>1. PICK l \in DOMAIN kept : kept[l] = p BY DEF ToSet
        <3>2. p \in 1 .. Len(E) /\ p \in P BY <1>11, <2>0, <3>1
        <3>3. CASE First(p)
            <4>1. f.preamble.texts # <<>> /\ p = 1 BY <3>3 DEF First
            <4>2. m = 1 /\ z[1] = p BY <1>3, <1>4, <4>1
            <4>3. 1 \in DOMAIN z BY <1>12, <1>14, <4>2
            <4> QED BY <4>2, <4>3 DEF ToSet
        <3>4. CASE \E k \in 1 .. n : p = at[filled[k]]
            <4>1. PICK k \in 1 .. n : p = at[filled[k]] BY <3>4
            <4>2. m + k \in DOMAIN z BY <1>12, <1>14
            <4>3. z[m + k] = p BY <1>3, <4>1
            <4> QED BY <4>2, <4>3 DEF ToSet
        <3> QED BY <1>13, <3>2, <3>3, <3>4
    <2> QED BY <2>1, <2>2
<1>18. Increasing(z)
    <2> SUFFICES ASSUME NEW a \in 1 .. m + n, NEW b \in 1 .. m + n, a < b PROVE z[a] < z[b]
        BY <1>14 DEF Increasing
    <2>0. ~(b = 1 /\ m = 1) OBVIOUS
    <2>1. PICK l \in 1 .. n : b = m + l BY <1>15, <2>0
    <2>2. z[b] = at[filled[l]] /\ filled[l] \in 1 .. N BY <1>3, <1>12, <2>1
    <2>3. CASE a = 1 /\ m = 1
        <3>1. z[a] = 1 /\ 1 < at[filled[l]] BY <1>6, <1>16, <2>2, <2>3
        <3> QED BY <2>2, <3>1
    <2>4. CASE \E k \in 1 .. n : a = m + k
        <3>1. PICK k \in 1 .. n : a = m + k BY <2>4
        <3>2. z[a] = at[filled[k]] /\ filled[k] \in 1 .. N BY <1>3, <1>12, <3>1
        <3>3. k < l BY <1>12, <1>14, <2>1, <3>1
        <3>4. filled[k] < filled[l] BY <1>2, <1>12, <3>3 DEF Increasing
        <3>5. at[filled[k]] + Size(filled[k]) < at[filled[l]] BY <1>6, <2>2, <3>2, <3>4
        <3>6. at[filled[k]] \in Nat /\ at[filled[l]] \in Nat /\ Size(filled[k]) \in Nat
            <4>1. at[filled[k]] \in 1 .. Len(E) /\ at[filled[l]] \in 1 .. Len(E) BY <1>6, <2>2, <3>2
            <4>2. Size(filled[k]) \in Nat BY <1>1, <3>2
            <4> QED BY <4>1, <4>2
        <3>7. at[filled[k]] < at[filled[l]] BY <3>5, <3>6
        <3> QED BY <2>2, <3>2, <3>7
    <2> QED BY <1>15, <2>3, <2>4
<1>19. kept \in Seq(Nat) BY <1>11
<1>20. kept = z BY <1>3, <1>11, <1>17, <1>18, <1>19, SameIncreasing
<1> QED BY <1>20 DEF kept, z

(* The sections of a file whose headings are read as they stand are those a  *)
(* reader sees.                                                              *)
Read(S) == [i \in DOMAIN S |-> <<S[i].path, S[i].texts>>]

LEMMA OutlineRead ==
    ASSUME NEW f, IsMarkdown(f), f.preamble.marks = 0
    PROVE  Read(Merged(Loaded(f))) = Outline(f)
<1> DEFINE W == MarkdownWords(f)
           E == Loaded(f)
           N == Len(f.parts)
           filled == Filled(f)
           n == Len(filled)
           m == Fronted(f)
           Seen(i) == <<HeadingPath(f)[i], f.parts[i].paras>>
           front == << <<>>, f.preamble.texts >>
           x == IF f.preamble.texts = <<>> THEN <<>> ELSE <<front>>
           y == [k \in DOMAIN filled |-> Seen(filled[k])]
           S == Merged(E)
<1>1. PICK at : Placed(at, f) /\ Laid(E, at, f, N) BY LaidOut
<1>2. E \in Seq(Elements(W)) BY LoadedShape
<1> DEFINE z == Picked(f, at)
<1>3. KeptOf(E) = z
    <2> HIDE DEF E, W
    <2> QED BY <1>1, <1>2, KeptIs
<1>4. /\ z \in Seq(Nat) /\ Len(z) = m + n /\ (f.preamble.texts # <<>> => z[1] = 1)
      /\ \A k \in 1 .. n : z[m + k] = at[filled[k]]
    BY <1>1, PickedAre
<1>5. filled \in Seq(1 .. N) BY FilledAre
<1>6. n \in Nat /\ DOMAIN filled = 1 .. n /\ \A k \in 1 .. n : filled[k] \in 1 .. N
    <2>1. Len(filled) \in Nat /\ DOMAIN filled = 1 .. Len(filled) BY <1>5
    <2>2. ASSUME NEW k \in 1 .. Len(filled) PROVE filled[k] \in 1 .. N
        <3> DEFINE D == 1 .. N
        <3>1. filled \in Seq(D) BY <1>5
        <3> HIDE DEF D
        <3>2. filled[k] \in D BY <3>1
        <3> QED BY <3>2 DEF D
    <2> QED BY <2>1, <2>2
<1>7. S = [k \in DOMAIN z |-> SectionFrom(E, z[k])]
    <2> HIDE DEF E, z
    <2> QED BY <1>3, MergedIs
<1>8. ASSUME NEW i \in 1 .. N
      PROVE  SectionFrom(E, at[i]).path = HeadingPath(f)[i] /\ SectionFrom(E, at[i]).texts = f.parts[i].paras
    <2>1. E[at[i]].title = TRUE
        <3> DEFINE t == <<f.parts[i].title>>
        <3>1. E[at[i]] = Element(TRUE, f.parts[i].level, t, Hung(at, f, i)) BY <1>1 DEF Laid
        <3> HIDE DEF t, E
        <3> QED BY <3>1 DEF Element
    <2>2. TitlePath(E)[at[i]] = HeadingPath(f)[i] BY <1>1, PathsAgree
    <2>3. GatheredAt(E, at[i]) = f.parts[i].paras
        <3> HIDE DEF E, W
        <3> QED BY <1>1, <1>2, GatheredIs
    <2> HIDE DEF E
    <2>4. SectionFrom(E, at[i]) = [path |-> TitlePath(E)[at[i]], index |-> at[i], texts |-> GatheredAt(E, at[i])]
        BY <2>1 DEF SectionFrom
    <2> QED BY <2>2, <2>3, <2>4
<1>9. ASSUME f.preamble.texts # <<>>
      PROVE  SectionFrom(E, 1).path = <<>> /\ SectionFrom(E, 1).texts = f.preamble.texts
    <2>1. E[1] = Element(FALSE, 0, f.preamble.texts, 0) BY <1>1, <1>9 DEF Laid
    <2> HIDE DEF E
    <2>2. E[1].title = FALSE /\ E[1].texts = f.preamble.texts BY <2>1 DEF Element
    <2> QED BY <2>2 DEF SectionFrom
<1>10. m = IF f.preamble.texts = <<>> THEN 0 ELSE 1 BY DEF Fronted
<1>11. Outline(f) = x \o y BY DEF Outline, Filled
<1> DEFINE D == {Seen(i) : i \in 1 .. N} \cup {front}
<1>12. x \in Seq(D) /\ Len(x) = m /\ (m = 1 => x[1] = front)
    <2> HIDE DEF front, Seen
    <2>1. front \in D OBVIOUS
    <2> HIDE DEF D
    <2>2. /\ <<>> \in Seq(D) /\ Len(<<>>) = 0
          /\ <<front>> \in Seq(D) /\ Len(<<front>>) = 1 /\ <<front>>[1] = front
        BY <2>1
    <2> QED BY <1>10, <2>2
<1>13. y \in Seq(D) /\ Len(y) = n /\ \A k \in 1 .. n : y[k] = Seen(filled[k])
    <2> HIDE DEF filled, n, Seen, N, front
    <2>1. \A k \in 1 .. n : Seen(filled[k]) \in D BY <1>6
    <2> HIDE DEF D
    <2> QED BY <1>6, <2>1
<1> HIDE DEF E, W, S, x, y, z, D, n, m, filled, N
<1>14. x \o y \in Seq(D) /\ Joined(x \o y, x, y) BY <1>12, <1>13, ConcatAt
<1> DEFINE out == x \o y
<1> HIDE DEF out
<1>15. out \in Seq(D) /\ Joined(out, x, y) BY <1>14 DEF out
<1>16. Len(out) = m + n /\ DOMAIN out = 1 .. m + n BY <1>6, <1>10, <1>12, <1>13, <1>15 DEF Joined
<1>17. DOMAIN z = 1 .. m + n BY <1>4
<1>18. DOMAIN Read(S) = 1 .. m + n /\ \A k \in 1 .. m + n : Read(S)[k] = <<SectionFrom(E, z[k]).path, SectionFrom(E, z[k]).texts>>
    BY <1>7, <1>17 DEF Read
<1>19. ASSUME NEW k \in 1 .. m + n PROVE Read(S)[k] = out[k]
    <2>0. (k = 1 /\ m = 1) \/ \E l \in 1 .. n : k = m + l
        <3> SUFFICES ASSUME ~(k = 1 /\ m = 1) PROVE \E l \in 1 .. n : k = m + l OBVIOUS
        <3>1. k - m \in 1 .. n /\ k = m + (k - m) BY <1>6, <1>10
        <3> QED BY <3>1
    <2>1. Read(S)[k] = <<SectionFrom(E, z[k]).path, SectionFrom(E, z[k]).texts>> BY <1>18
    <2>2. CASE k = 1 /\ m = 1
        <3>1. f.preamble.texts # <<>> BY <1>10, <2>2
        <3>2. z[k] = 1 BY <1>4, <2>2, <3>1
        <3>3. Read(S)[k] = front BY <1>9, <2>1, <3>1, <3>2
        <3>4. 1 \in 1 .. Len(x) BY <1>12, <2>2
        <3>5. out[1] = x[1] BY <1>15, <3>4 DEF Joined
        <3> QED BY <1>12, <2>2, <3>3, <3>5
    <2>3. CASE \E l \in 1 .. n : k = m + l
        <3>1. PICK l \in 1 .. n : k = m + l BY <2>3
        <3>2. z[k] = at[filled[l]] /\ filled[l] \in 1 .. N BY <1>4, <1>6, <3>1
        <3>3. Read(S)[k] = Seen(filled[l]) BY <1>8, <2>1, <3>2
        <3>4. out[m + l] = y[l] BY <1>12, <1>13, <1>15 DEF Joined
        <3> QED BY <1>13, <3>1, <3>3, <3>4
    <2> QED BY <2>0, <2>2, <2>3
<1>20. Read(S) = [k \in 1 .. m + n |-> Read(S)[k]] BY <1>18 DEF Read
<1>21. out = [k \in 1 .. m + n |-> out[k]] BY <1>15, <1>16
<1>22. Read(S) = out BY <1>19, <1>20, <1>21
<1> QED BY <1>11, <1>22 DEF S, E, out

(* A Markdown file is never failed.                                          *)
FailedRaised == stage = "failed" => Raises(file)

LEMMA OnlyRaisedFail == ParsingSpec => []FailedRaised
<1>1. ParsingInit => FailedRaised BY DEF ParsingInit, FailedRaised
<1>2. FailedRaised /\ [ParsingNext]_parsingVars => FailedRaised'
    <2> SUFFICES ASSUME FailedRaised, [ParsingNext]_parsingVars PROVE FailedRaised' OBVIOUS
    <2> USE DEF FailedRaised
    <2>1. CASE Parse BY <2>1 DEF Parse, Raises
    <2>2. CASE KeepSmall BY <2>2 DEF KeepSmall
    <2>3. CASE SplitLarge
        <3>1. stage = "split" /\ stage' = stage BY <2>3 DEF SplitLarge
        <3> QED BY <3>1
    <2>4. CASE Chunked BY <2>4 DEF Chunked
    <2>5. CASE UNCHANGED parsingVars BY <2>5 DEF parsingVars, Raises
    <2> QED BY <2>1, <2>2, <2>3, <2>4, <2>5 DEF ParsingNext
<1> QED BY <1>1, <1>2, PTL DEF ParsingSpec

(* The sections of a Markdown file are those a reader sees: whatever the     *)
(* levels of its headings and the order they come in, each heading with text *)
(* of its own is one section with exactly that text, under the nearest       *)
(* shallower headings before it, and the sections are in the order of the    *)
(* file (_simple_markdown_load, _dfs_compute_title_info and                  *)
(* _merge_by_precomputed); a file loaded shifted by a first # is excepted.   *)
THEOREM HeadingsFollowed == ParsingSpec => []SectionsFollowHeadings
<1>1. ParsingInv /\ FailedRaised => SectionsFollowHeadings
    <2> SUFFICES ASSUME ParsingInv, FailedRaised, file.kind = "md", file.preamble.marks = 0, stage # "parse"
                 PROVE  [i \in DOMAIN sections |-> <<SectionAt(i).path, SectionAt(i).texts>>] = Outline(file)
        BY DEF SectionsFollowHeadings
    <2> DEFINE S == Merged(Loaded(file))
    <2>1. IsMarkdown(file) BY ParsingAssumption DEF ParsingInv
    <2>2. stage # "failed" BY DEF FailedRaised, Raises
    <2>3. SectionsOf(file) = S BY DEF SectionsOf
    <2>4. SectionsKept(S)
        <3>1. ~Unparsed BY <2>2 DEF Unparsed
        <3> HIDE DEF S
        <3> QED BY <2>3, <3>1 DEF ParsingInv
    <2>5. Read(S) = Outline(file) BY <2>1, OutlineRead
    <2> HIDE DEF S
    <2>6. DOMAIN sections = DOMAIN S /\ \A i \in DOMAIN S : SectionAt(i) = S[i]
        BY <2>4 DEF SectionsKept, SectionAt
    <2>7. [i \in DOMAIN sections |-> <<SectionAt(i).path, SectionAt(i).texts>>]
            = [i \in DOMAIN S |-> <<S[i].path, S[i].texts>>]
        BY <2>6
    <2> QED BY <2>5, <2>7 DEF Read
<1> QED BY <1>1, ParsingInvariant, OnlyRaisedFail, PTL

=============================================================================
