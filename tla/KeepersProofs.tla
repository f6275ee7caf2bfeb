----------------------------- MODULE KeepersProofs -----------------------------
(***************************************************************************)
(* The pools of services and ports and the lists in Redis, for any number  *)
(* of processes, clients, values and failures.                             *)
(***************************************************************************)
EXTENDS Keepers, LeaseProofs

-----------------------------------------------------------------------------
(* Lists without one of their entries, and what two lists hold together.   *)

\* What is known of the entries of a sequence.
LEMMA SeqDomain ==
  ASSUME NEW S, NEW s \in Seq(S)
  PROVE  /\ Len(s) \in Nat /\ DOMAIN s = 1..Len(s) /\ \A i \in 1..Len(s) : s[i] \in S
         /\ Range(s) = {s[i] : i \in 1..Len(s)}
BY DEF Range

\* What a list is that is put together from two.
LEMMA JoinedEntry ==
  ASSUME NEW S, NEW s \in Seq(S), NEW t \in Seq(S)
  PROVE  /\ s \o t \in Seq(S) /\ Len(s \o t) = Len(s) + Len(t)
         /\ \A i \in 1..(Len(s) + Len(t)) :
              (s \o t)[i] = IF i =< Len(s) THEN s[i] ELSE t[i - Len(s)]
OBVIOUS

Cut(s, i) == SubSeq(s, 1, i - 1) \o SubSeq(s, i + 1, Len(s))
IsCut(r, s, i) ==
  /\ Len(r) = Len(s) - 1
  /\ \A j \in 1..(Len(s) - 1) : (j < i => r[j] = s[j]) /\ (~(j < i) => r[j] = s[j + 1])

\* Cutting an entry out shifts those behind it by one.
LEMMA CutEntry ==
  ASSUME NEW S, NEW s \in Seq(S), NEW i \in 1..Len(s)
  PROVE  Cut(s, i) \in Seq(S) /\ IsCut(Cut(s, i), s, i)
<1> DEFINE a == SubSeq(s, 1, i - 1)
           b == SubSeq(s, i + 1, Len(s))
           r == Cut(s, i)
<1>1. Len(s) \in Nat /\ \A j \in 1..Len(s) : s[j] \in S
  BY SeqDomain
<1>2. a \in Seq(S) /\ Len(a) = i - 1 /\ \A j \in 1..(i - 1) : a[j] = s[j]
  BY <1>1
<1>3. b \in Seq(S) /\ Len(b) = Len(s) - i /\ \A j \in 1..(Len(s) - i) : b[j] = s[i + j]
  BY <1>1
<1> HIDE DEF a, b
<1>4. Len(a) + Len(b) = Len(s) - 1
  BY <1>1, <1>2, <1>3
<1>5. /\ r \in Seq(S) /\ Len(r) = Len(a) + Len(b)
      /\ \A j \in 1..(Len(a) + Len(b)) : r[j] = IF j =< Len(a) THEN a[j] ELSE b[j - Len(a)]
  BY <1>2, <1>3, JoinedEntry, Zenon DEF a, b, Cut
<1> HIDE DEF r
<1>6. \A j \in 1..(Len(s) - 1) : r[j] = IF j =< i - 1 THEN a[j] ELSE b[j - (i - 1)]
  BY <1>2, <1>4, <1>5
<1>7. ASSUME NEW j \in 1..(Len(s) - 1)
      PROVE  (j < i => r[j] = s[j]) /\ (~(j < i) => r[j] = s[j + 1])
  <2>1. CASE j < i
    <3>1. j =< i - 1 /\ j \in 1..(i - 1)
      BY <1>1, <2>1
    <3> QED BY <1>2, <1>6, <2>1, <3>1
  <2>2. CASE ~(j < i)
    <3>1. j - (i - 1) \in 1..(Len(s) - i) /\ i + (j - (i - 1)) = j + 1 /\ ~(j =< i - 1)
      BY <1>1, <2>2
    <3> QED BY <1>3, <1>6, <2>2, <3>1
  <2> QED BY <2>1, <2>2
<1> QED BY <1>4, <1>5, <1>7 DEF IsCut, r

\* Such a list has lost the entry and keeps the others apart.
LEMMA RestInjective ==
  ASSUME NEW S, NEW s \in Seq(S), IsInjective(s), NEW i \in 1..Len(s), NEW r \in Seq(S),
         IsCut(r, s, i)
  PROVE  IsInjective(r) /\ Range(r) = Range(s) \ {s[i]}
<1> USE DEF IsCut
<1>1. /\ Len(s) \in Nat /\ \A j, k \in 1..Len(s) : s[j] = s[k] => j = k
      /\ Range(s) = {s[j] : j \in 1..Len(s)}
  BY SeqDomain, SMTT(120) DEF IsInjective
<1>2. DOMAIN r = 1..Len(r) /\ Range(r) = {r[j] : j \in 1..Len(r)}
  BY SeqDomain
<1>3. \A j \in 1..(Len(s) - 1) : j \in 1..Len(s) /\ j + 1 \in 1..Len(s)
  BY <1>1
<1>4. IsInjective(r)
  <2>1. ASSUME NEW j \in 1..(Len(s) - 1), NEW k \in 1..(Len(s) - 1), r[j] = r[k] PROVE j = k
    <3>1. CASE j < i /\ k < i
      BY <1>1, <1>3, <2>1, <3>1
    <3>2. CASE j < i /\ ~(k < i)
      <4>1. s[j] = s[k + 1] /\ j # k + 1
        BY <1>1, <2>1, <3>2
      <4> QED BY <1>1, <1>3, <4>1
    <3>3. CASE ~(j < i) /\ k < i
      <4>1. s[j + 1] = s[k] /\ j + 1 # k
        BY <1>1, <2>1, <3>3, SMTT(120)
      <4> QED BY <1>1, <1>3, <4>1
    <3>4. CASE ~(j < i) /\ ~(k < i)
      <4>1. s[j + 1] = s[k + 1]
        BY <2>1, <3>4
      <4>2. j + 1 = k + 1
        BY <1>1, <1>3, <4>1
      <4> QED BY <1>1, <4>2
    <3> QED BY <3>1, <3>2, <3>3, <3>4
  <2> QED BY <1>2, <2>1 DEF IsInjective
<1>5. ASSUME NEW x \in Range(s), x # s[i] PROVE x \in Range(r)
  <2>1. PICK j \in 1..Len(s) : x = s[j]
    BY <1>1
  <2>2. j # i
    BY <1>5, <2>1
  <2>3. CASE j < i
    <3>1. j \in 1..(Len(s) - 1)
      BY <1>1, <2>3
    <3> QED BY <1>2, <2>1, <2>3, <3>1
  <2>4. CASE j > i
    <3>1. j - 1 \in 1..(Len(s) - 1) /\ ~(j - 1 < i) /\ (j - 1) + 1 = j
      BY <1>1, <2>4
    <3>2. r[j - 1] = s[j]
      BY <3>1
    <3> QED BY <1>2, <2>1, <3>1, <3>2
  <2> QED BY <1>1, <2>2, <2>3, <2>4
<1>6. ASSUME NEW x \in Range(r) PROVE x \in Range(s) \ {s[i]}
  <2>1. PICK j \in 1..(Len(s) - 1) : x = r[j]
    BY <1>2
  <2>2. CASE j < i
    <3>1. x = s[j] /\ j # i
      BY <2>1, <2>2
    <3> QED BY <1>1, <1>3, <3>1
  <2>3. CASE ~(j < i)
    <3>1. x = s[j + 1] /\ j + 1 # i
      BY <2>1, <2>3
    <3> QED BY <1>1, <1>3, <3>1
  <2> QED BY <2>2, <2>3
<1> QED BY <1>4, <1>5, <1>6

\* Cutting an entry out of a list without repetition removes just that entry.
LEMMA CutInjective ==
  ASSUME NEW S, NEW s \in Seq(S), IsInjective(s), NEW i \in 1..Len(s)
  PROVE  Cut(s, i) \in Seq(S) /\ IsInjective(Cut(s, i)) /\ Range(Cut(s, i)) = Range(s) \ {s[i]}
BY CutEntry, RestInjective

\* Appending a new entry keeps a list without repetition.
LEMMA AppendEntry ==
  ASSUME NEW S, NEW s \in Seq(S), NEW x \in S, x \notin Range(s), IsInjective(s)
  PROVE  /\ Append(s, x) \in Seq(S) /\ IsInjective(Append(s, x))
         /\ Range(Append(s, x)) = Range(s) \cup {x}
<1> DEFINE r == Append(s, x)
<1>1. /\ r \in Seq(S) /\ Len(r) = Len(s) + 1 /\ \A i \in 1..Len(s) : r[i] = s[i]
      /\ r[Len(s) + 1] = x
  OBVIOUS
<1> HIDE DEF r
<1>2. /\ Len(s) \in Nat /\ \A j, k \in 1..Len(s) : s[j] = s[k] => j = k
      /\ Range(s) = {s[j] : j \in 1..Len(s)}
  BY SeqDomain DEF IsInjective
<1>3. DOMAIN r = 1..(Len(s) + 1) /\ Range(r) = {r[j] : j \in 1..(Len(s) + 1)}
  BY <1>1, SeqDomain
<1>4. \A i \in 1..(Len(s) + 1) : i \in 1..Len(s) \/ i = Len(s) + 1
  BY <1>2
<1>5. 1..Len(s) \subseteq 1..(Len(s) + 1) /\ Len(s) + 1 \in 1..(Len(s) + 1)
  BY <1>2
<1>6. Range(r) = Range(s) \cup {x}
  BY <1>1, <1>2, <1>3, <1>4, <1>5
<1>7. IsInjective(r)
  BY <1>1, <1>2, <1>3, <1>4 DEF IsInjective
<1> QED BY <1>1, <1>6, <1>7 DEF r

\* So does taking the first one off.
LEMMA TailEntry ==
  ASSUME NEW S, NEW s \in Seq(S), s # << >>, IsInjective(s)
  PROVE  /\ Head(s) \in S /\ Head(s) \in Range(s)
         /\ Tail(s) \in Seq(S) /\ IsInjective(Tail(s)) /\ Range(Tail(s)) = Range(s) \ {Head(s)}
<1> DEFINE r == Tail(s)
<1>1. /\ Head(s) = s[1] /\ r \in Seq(S) /\ Len(r) = Len(s) - 1
      /\ \A i \in 1..Len(r) : r[i] = s[i + 1]
  OBVIOUS
<1>2. Len(s) \in Nat \ {0}
  OBVIOUS
<1> HIDE DEF r
<1>3. /\ \A j, k \in 1..Len(s) : s[j] = s[k] => j = k
      /\ Range(s) = {s[j] : j \in 1..Len(s)} /\ \A i \in 1..Len(s) : s[i] \in S
  BY SeqDomain DEF IsInjective
<1>4. DOMAIN r = 1..(Len(s) - 1) /\ Range(r) = {r[j] : j \in 1..(Len(s) - 1)}
  BY <1>1, SeqDomain
<1>5. 1 \in 1..Len(s) /\ \A i \in 1..(Len(s) - 1) : i + 1 \in 1..Len(s) /\ i + 1 # 1
  BY <1>2
<1>6. Head(s) \in S /\ Head(s) \in Range(s)
  BY <1>1, <1>3, <1>5
<1>7. IsInjective(r)
  <2>1. ASSUME NEW i \in 1..(Len(s) - 1), NEW j \in 1..(Len(s) - 1), r[i] = r[j] PROVE i = j
    <3>1. i + 1 = j + 1
      BY <1>1, <1>3, <1>5, <2>1
    <3> QED BY <1>2, <3>1
  <2> QED BY <1>4, <2>1 DEF IsInjective
<1>8. ASSUME NEW x \in Range(s), x # s[1] PROVE x \in Range(r)
  <2>1. PICK j \in 1..Len(s) : x = s[j]
    BY <1>3
  <2>2. j - 1 \in 1..(Len(s) - 1) /\ (j - 1) + 1 = j
    BY <1>2, <1>8, <2>1
  <2> QED BY <1>1, <1>4, <2>1, <2>2, Zenon
<1>9. ASSUME NEW x \in Range(r) PROVE x \in Range(s) \ {s[1]}
  <2>1. PICK j \in 1..(Len(s) - 1) : x = r[j]
    BY <1>4
  <2>2. x = s[j + 1]
    BY <1>1, <2>1
  <2> QED BY <1>3, <1>5, <2>2
<1> QED BY <1>1, <1>6, <1>7, <1>8, <1>9 DEF r

\* Two lists that share nothing join to one without repetition.
LEMMA JoinLists ==
  ASSUME NEW S, NEW s \in Seq(S), NEW t \in Seq(S)
  PROVE  /\ Range(s \o t) = Range(s) \cup Range(t)
         /\ IsInjective(s) /\ IsInjective(t) /\ Range(s) \cap Range(t) = {} => IsInjective(s \o t)
<1> DEFINE r == s \o t
<1>1. /\ r \in Seq(S) /\ Len(r) = Len(s) + Len(t)
      /\ \A i \in 1..(Len(s) + Len(t)) : r[i] = IF i =< Len(s) THEN s[i] ELSE t[i - Len(s)]
  OBVIOUS
<1> HIDE DEF r
<1>2. /\ Len(s) \in Nat /\ DOMAIN s = 1..Len(s) /\ Range(s) = {s[i] : i \in 1..Len(s)}
      /\ Len(t) \in Nat /\ DOMAIN t = 1..Len(t) /\ Range(t) = {t[i] : i \in 1..Len(t)}
  BY SeqDomain
<1>3. DOMAIN r = 1..(Len(s) + Len(t)) /\ Range(r) = {r[i] : i \in 1..(Len(s) + Len(t))}
  BY <1>1, SeqDomain, Zenon
<1>4. ASSUME NEW i \in 1..(Len(s) + Len(t))
      PROVE  \/ i \in 1..Len(s) /\ r[i] = s[i]
             \/ i > Len(s) /\ i - Len(s) \in 1..Len(t) /\ r[i] = t[i - Len(s)]
  BY <1>1, <1>2
<1>5. ASSUME NEW x \in Range(s) \cup Range(t) PROVE x \in Range(r)
  <2>1. CASE x \in Range(s)
    <3>1. PICK i \in 1..Len(s) : x = s[i]
      BY <1>2, <2>1
    <3>2. i \in 1..(Len(s) + Len(t)) /\ i =< Len(s)
      BY <1>2
    <3> QED BY <1>1, <1>3, <3>1, <3>2
  <2>2. CASE x \in Range(t)
    <3>1. PICK i \in 1..Len(t) : x = t[i]
      BY <1>2, <2>2
    <3>2. Len(s) + i \in 1..(Len(s) + Len(t)) /\ ~(Len(s) + i =< Len(s)) /\ (Len(s) + i) - Len(s) = i
      BY <1>2
    <3>3. r[Len(s) + i] = t[i]
      BY <1>1, <3>2
    <3> QED BY <1>3, <3>1, <3>2, <3>3
  <2> QED BY <2>1, <2>2
<1>6. ASSUME NEW x \in Range(r) PROVE x \in Range(s) \cup Range(t)
  BY <1>2, <1>3, <1>4, SMTT(120)
<1>7. ASSUME IsInjective(s), IsInjective(t), Range(s) \cap Range(t) = {}
      PROVE  IsInjective(r)
  <2>1. ASSUME NEW i \in 1..(Len(s) + Len(t)), NEW j \in 1..(Len(s) + Len(t)), r[i] = r[j]
        PROVE  i = j
    <3>1. CASE i \in 1..Len(s) /\ r[i] = s[i]
      <4>1. r[i] \in Range(s)
        BY <1>2, <3>1
      <4>2. j \in 1..Len(s) /\ r[j] = s[j]
        BY <1>2, <1>4, <1>7, <2>1, <4>1, Zenon
      <4> QED BY <1>2, <1>7, <2>1, <3>1, <4>2, Zenon DEF IsInjective
    <3>2. CASE i > Len(s) /\ i - Len(s) \in 1..Len(t) /\ r[i] = t[i - Len(s)]
      <4>1. r[i] \in Range(t)
        BY <1>2, <3>2
      <4>2. j > Len(s) /\ j - Len(s) \in 1..Len(t) /\ r[j] = t[j - Len(s)]
        BY <1>2, <1>4, <1>7, <2>1, <4>1, SMTT(120)
      <4>3. i - Len(s) = j - Len(s)
        BY <1>2, <1>7, <2>1, <3>2, <4>2, Zenon DEF IsInjective
      <4> QED BY <1>2, <4>3
    <3> QED BY <1>4, <3>1, <3>2
  <2> QED BY <1>3, <2>1 DEF IsInjective
<1> QED BY <1>5, <1>6, <1>7 DEF r

-----------------------------------------------------------------------------
(* The pool of ports.                                                      *)

Lowest(r) == IF Min({r[1], r[2]}) < 0 THEN PpLow ELSE Min({r[1], r[2]})
Highest(r) == IF Max({r[1], r[2]}) > PpTop THEN PpHigh ELSE Max({r[1], r[2]})

PpInv ==
  /\ ppAvailable \in Seq(Int) /\ ppAllocated \in Seq(Int) /\ ppState \in {"new", "open", "panic"}
  /\ IsInjective(ppAvailable) /\ IsInjective(ppAllocated)
  /\ Range(ppAvailable) \cap Range(ppAllocated) = {}
  /\ ppState # "open" => ppAvailable = << >> /\ ppAllocated = << >>
  /\ ppState = "open" => \E r \in PpRanges :
       Range(ppAvailable) \cup Range(ppAllocated) = Range(PortRange(Lowest(r), Highest(r)))
  /\ ppHeld \in [PpClients -> SUBSET Int]
  /\ ~ppTwice =>
       /\ \A c, d \in PpClients : c # d => ppHeld[c] \cap ppHeld[d] = {}
       /\ Range(ppAllocated) = UNION {ppHeld[c] : c \in PpClients}

\* A pool that is not made yet has no ports.
LEMMA PpInvInit == PpInit => PpInv
<1> SUFFICES ASSUME PpInit PROVE PpInv
  OBVIOUS
<1>1. ppAvailable = << >> /\ ppAllocated = << >> /\ ppState = "new"
  BY DEF PpInit
<1>2. << >> \in Seq(Int) /\ IsInjective(<< >>) /\ Range(<< >>) = {}
  BY DEF IsInjective, Range
<1>3. ppHeld = [c \in PpClients |-> {}]
  BY DEF PpInit
<1> QED BY <1>1, <1>2, <1>3 DEF PpInv

\* The invariant says what PortsSound says of the joined list.
LEMMA PpInvImplies == PpInv => PortsSound
<1> SUFFICES ASSUME PpInv PROVE PortsSound
  OBVIOUS
<1>1. IsInjective(ppAvailable \o ppAllocated)
  BY JoinLists DEF PpInv
<1>2. Range(ppAvailable \o ppAllocated) = Range(ppAvailable) \cup Range(ppAllocated)
  BY JoinLists DEF PpInv
<1>3. ppState = "open" => \E r \in PpRanges :
        Range(ppAvailable \o ppAllocated) = Range(PortRange(Lowest(r), Highest(r)))
  BY <1>2 DEF PpInv
<1> QED BY <1>1, <1>3, Zenon DEF PpInv, PortsSound, Lowest, Highest

\* The smaller and the larger of two numbers.
LEMMA MinMaxPair ==
  ASSUME NEW a \in Int, NEW b \in Int
  PROVE  /\ Min({a, b}) = IF a > b THEN b ELSE a
         /\ Max({a, b}) = IF a > b THEN a ELSE b
<1>1. Min({a, b}) = IF a > b THEN b ELSE a
  <2>1. \E x \in {a, b} : \A y \in {a, b} : x =< y
    OBVIOUS
  <2>2. Min({a, b}) \in {a, b} /\ \A y \in {a, b} : Min({a, b}) =< y
    BY <2>1 DEF Min
  <2> QED BY <2>2
<1>2. Max({a, b}) = IF a > b THEN a ELSE b
  <2>1. \E x \in {a, b} : \A y \in {a, b} : x >= y
    OBVIOUS
  <2>2. Max({a, b}) \in {a, b} /\ \A y \in {a, b} : Max({a, b}) >= y
    BY <2>1 DEF Max
  <2> QED BY <2>2
<1> QED BY <1>1, <1>2

\* NewPortPool: every port of the range is there once.
LEMMA PpNew ==
  ASSUME PpInv, NEW r \in PpRanges, NewPortPool(r)
  PROVE  PpInv'
<1> DEFINE lo == Lowest(r)
           hi == Highest(r)
           all == PortRange(lo, hi)
<1>1. r[1] \in Int /\ r[2] \in Int /\ PpLow \in Int /\ PpHigh \in Int /\ PpTop \in Int
  BY PpAssumption
<1>2. /\ lo = IF (IF r[1] > r[2] THEN r[2] ELSE r[1]) < 0 THEN PpLow
              ELSE IF r[1] > r[2] THEN r[2] ELSE r[1]
      /\ hi = IF (IF r[1] > r[2] THEN r[1] ELSE r[2]) > PpTop THEN PpHigh
              ELSE IF r[1] > r[2] THEN r[1] ELSE r[2]
  <2>1. /\ Min({r[1], r[2]}) = IF r[1] > r[2] THEN r[2] ELSE r[1]
        /\ Max({r[1], r[2]}) = IF r[1] > r[2] THEN r[1] ELSE r[2]
    BY <1>1, MinMaxPair
  <2> QED BY <2>1, Zenon DEF Lowest, Highest
<1>3. lo \in Int /\ hi \in Int
  BY <1>1, <1>2
<1>4. /\ ppState = "new" /\ UNCHANGED <<ppAllocated, ppHeld, ppTwice>>
      /\ IF hi - lo + 1 < 0 THEN ppState' = "panic" /\ UNCHANGED ppAvailable
         ELSE ppState' = "open" /\ ppAvailable' = all
  BY <1>2 DEF NewPortPool
<1>5. ppAvailable = << >> /\ ppAllocated = << >> /\ Range(<< >>) = {} /\ IsInjective(<< >>)
  BY <1>4, SMTT(120) DEF PpInv, Range, IsInjective
<1> HIDE DEF lo, hi
<1>6. CASE hi - lo + 1 < 0
  BY <1>4, <1>5, <1>6, SMTT(120) DEF PpInv
<1>7. CASE ~(hi - lo + 1 < 0)
  <2> DEFINE n == hi - lo + 1
  <2>1. n \in Nat
    BY <1>3, <1>7
  <2>2. all = [i \in 1..n |-> lo + i - 1]
    BY DEF PortRange
  <2> HIDE DEF n, all
  <2>3. all \in [1..n -> Int]
    BY <1>3, <2>1, <2>2
  <2>4. all \in Seq(Int)
    BY <2>1, <2>3
  <2>5. IsInjective(all)
    BY <1>3, <2>1, <2>2 DEF IsInjective
  <2>6. ppState' = "open" /\ ppAvailable' = all /\ ppAllocated' = << >>
    BY <1>4, <1>5, <1>7
  <2>7. Range(ppAvailable') \cup Range(ppAllocated') = Range(PortRange(Lowest(r), Highest(r)))
    BY <1>5, <2>6, SMTT(120) DEF all, lo, hi
  <2> QED BY <1>4, <1>5, <2>4, <2>5, <2>6, <2>7 DEF PpInv
<1> QED BY <1>6, <1>7

\* GetPort moves a port from one list to the other.
LEMMA PpGet ==
  ASSUME PpInv, NEW c \in PpClients, GetPort(c)
  PROVE  PpInv'
<1> DEFINE x == Head(ppAvailable)
<1>1. /\ ppState = "open" /\ ppAvailable # << >> /\ ppAvailable' = Tail(ppAvailable)
      /\ ppAllocated' = Append(ppAllocated, x) /\ ppState' = ppState /\ ppTwice' = ppTwice
      /\ ppHeld' = [ppHeld EXCEPT ![c] = @ \cup {x}]
  BY SMTT(120) DEF GetPort
<1>2. /\ x \in Int /\ x \in Range(ppAvailable) /\ ppAvailable' \in Seq(Int)
      /\ IsInjective(ppAvailable') /\ Range(ppAvailable') = Range(ppAvailable) \ {x}
  BY <1>1, TailEntry, SMTT(120) DEF PpInv
<1>3. x \notin Range(ppAllocated)
  BY <1>2, SMTT(120) DEF PpInv
<1>4. /\ ppAllocated' \in Seq(Int) /\ IsInjective(ppAllocated')
      /\ Range(ppAllocated') = Range(ppAllocated) \cup {x}
  BY <1>1, <1>2, <1>3, AppendEntry, SMTT(120) DEF PpInv
<1> HIDE DEF x
<1>5. /\ Range(ppAvailable') \cap Range(ppAllocated') = {}
      /\ Range(ppAvailable') \cup Range(ppAllocated') = Range(ppAvailable) \cup Range(ppAllocated)
  BY <1>2, <1>4, SMTT(120) DEF PpInv
<1>6. /\ ppHeld' \in [PpClients -> SUBSET Int] /\ ppHeld'[c] = ppHeld[c] \cup {x}
      /\ \A d \in PpClients \ {c} : ppHeld'[d] = ppHeld[d]
  BY <1>1, <1>2 DEF PpInv
<1>7. ASSUME ~ppTwice'
      PROVE  /\ \A d, e \in PpClients : d # e => ppHeld'[d] \cap ppHeld'[e] = {}
             /\ Range(ppAllocated') = UNION {ppHeld'[d] : d \in PpClients}
  <2>1. /\ \A d, e \in PpClients : d # e => ppHeld[d] \cap ppHeld[e] = {}
        /\ Range(ppAllocated) = UNION {ppHeld[d] : d \in PpClients}
    BY <1>1, <1>7 DEF PpInv
  <2>2. \A d \in PpClients : x \notin ppHeld[d]
    BY <1>3, <2>1
  <2>3. \A d, e \in PpClients : d # e => ppHeld'[d] \cap ppHeld'[e] = {}
    BY <1>6, <2>1, <2>2
  <2>4. Range(ppAllocated') = UNION {ppHeld'[d] : d \in PpClients}
    BY <1>4, <1>6, <2>1
  <2> QED BY <2>3, <2>4, SMTT(120)
<1>8. ppState' = "open" => \E r \in PpRanges :
        Range(ppAvailable') \cup Range(ppAllocated') = Range(PortRange(Lowest(r), Highest(r)))
  BY <1>1, <1>5, ZenonT(60) DEF PpInv
<1> QED BY <1>1, <1>2, <1>4, <1>5, <1>6, <1>7, <1>8 DEF PpInv

\* ReturnPort moves it back, or finds nothing to move.
LEMMA PpReturn ==
  ASSUME PpInv, NEW c \in PpClients, NEW p \in Ports, ReturnPort(c, p)
  PROVE  PpInv'
<1>1. PICK i \in DOMAIN ppAllocated :
        ppAllocated[i] = p /\ ppAllocated' = Cut(ppAllocated, i)
  BY Zenon DEF ReturnPort, Cut
<1>2. /\ ppAvailable' = Append(ppAvailable, p) /\ ppHeld' = [ppHeld EXCEPT ![c] = @ \ {p}]
      /\ ppTwice' = (ppTwice \/ p \notin ppHeld[c]) /\ ppState' = ppState
  BY SMTT(120) DEF ReturnPort
<1>3. i \in 1..Len(ppAllocated) /\ p \in Range(ppAllocated)
  BY <1>1, SeqDomain DEF PpInv
<1>4. /\ ppAllocated' \in Seq(Int) /\ IsInjective(ppAllocated')
      /\ Range(ppAllocated') = Range(ppAllocated) \ {p}
  <2>1. ppAllocated \in Seq(Int) /\ IsInjective(ppAllocated)
    BY DEF PpInv
  <2> QED BY <1>1, <1>3, <2>1, CutInjective, SMTT(120)
<1>5. p \in Int /\ p \notin Range(ppAvailable)
  BY <1>3, PpAssumption, SMTT(120) DEF Ports, PpInv
<1>6. /\ ppAvailable' \in Seq(Int) /\ IsInjective(ppAvailable')
      /\ Range(ppAvailable') = Range(ppAvailable) \cup {p}
  BY <1>2, <1>5, AppendEntry, SMTT(120) DEF PpInv
<1>7. /\ Range(ppAvailable') \cap Range(ppAllocated') = {}
      /\ Range(ppAvailable') \cup Range(ppAllocated') = Range(ppAvailable) \cup Range(ppAllocated)
  <2>1. Range(ppAvailable) \cap Range(ppAllocated) = {}
    BY Zenon DEF PpInv
  <2> QED BY <1>3, <1>4, <1>6, <2>1, ZenonT(60)
<1>8. ppState = "open"
  <2>1. ppAllocated # << >>
    BY <1>1, SMTT(120)
  <2> QED BY <2>1 DEF PpInv
<1>9. /\ ppHeld' \in [PpClients -> SUBSET Int] /\ ppHeld'[c] = ppHeld[c] \ {p}
      /\ \A d \in PpClients \ {c} : ppHeld'[d] = ppHeld[d]
  BY <1>2, SMTT(120) DEF PpInv
<1>10. ASSUME ~ppTwice'
       PROVE  /\ \A d, e \in PpClients : d # e => ppHeld'[d] \cap ppHeld'[e] = {}
              /\ Range(ppAllocated') = UNION {ppHeld'[d] : d \in PpClients}
  <2>1. p \in ppHeld[c] /\ ~ppTwice
    BY <1>2, <1>10, ZenonT(60)
  <2>2. /\ \A d, e \in PpClients : d # e => ppHeld[d] \cap ppHeld[e] = {}
        /\ Range(ppAllocated) = UNION {ppHeld[d] : d \in PpClients}
    BY <2>1, SMTT(120) DEF PpInv
  <2>3. \A d \in PpClients \ {c} : p \notin ppHeld[d]
    BY <2>1, <2>2
  <2>4. \A d \in PpClients : ppHeld'[d] = ppHeld[d] \ {p}
    BY <1>9, <2>3
  <2>5. \A d, e \in PpClients : d # e => ppHeld'[d] \cap ppHeld'[e] = {}
    BY <2>2, <2>4, SMTT(120)
  <2>6. Range(ppAllocated') = UNION {ppHeld'[d] : d \in PpClients}
    BY <1>4, <2>2, <2>4, SMTT(120)
  <2> QED BY <2>5, <2>6
<1>11. ppState' = "open" => \E r \in PpRanges :
         Range(ppAvailable') \cup Range(ppAllocated') = Range(PortRange(Lowest(r), Highest(r)))
  BY <1>7, <1>8 DEF PpInv
<1> QED BY <1>2, <1>4, <1>6, <1>7, <1>8, <1>9, <1>10, <1>11 DEF PpInv

\* Every step of the port pool keeps its invariant.
LEMMA PpStep == PpInv /\ [PpNext]_portVars => PpInv'
<1> SUFFICES ASSUME PpInv, [PpNext]_portVars PROVE PpInv'
  OBVIOUS
<1>1. CASE UNCHANGED portVars
  BY <1>1 DEF portVars, PpInv
<1>2. CASE PpNext
  BY <1>2, PpNew, PpGet, PpReturn, SMTT(120) DEF PpNext
<1> QED BY <1>1, <1>2

-----------------------------------------------------------------------------
(* The lists, the count and the string key of the Redis helpers.           *)

Falling(s) == \A i, j \in DOMAIN s : i < j => s[i] > s[j]

\* LPUSH of a new value keeps a list falling.
LEMMA PushLeft ==
  ASSUME NEW s \in Seq(Nat), Falling(s), NEW n \in Nat, \A x \in Range(s) : x < n
  PROVE  LET r == <<n>> \o s
         IN  r \in Seq(Nat) /\ Falling(r) /\ Range(r) = Range(s) \cup {n}
<1> DEFINE r == <<n>> \o s
<1>1. /\ Len(s) \in Nat /\ DOMAIN s = 1..Len(s) /\ \A i \in 1..Len(s) : s[i] \in Nat
      /\ Range(s) = {s[i] : i \in 1..Len(s)}
  BY SeqDomain
<1>2. <<n>> \in Seq(Nat) /\ Len(<<n>>) = 1 /\ <<n>>[1] = n
  OBVIOUS
<1>3. /\ r \in Seq(Nat) /\ Len(r) = Len(<<n>>) + Len(s)
      /\ \A i \in 1..(Len(<<n>>) + Len(s)) :
           r[i] = IF i =< Len(<<n>>) THEN <<n>>[i] ELSE s[i - Len(<<n>>)]
  BY <1>2, SMTT(120)
<1> HIDE DEF r
<1>4. Len(r) = Len(s) + 1 /\ r[1] = n /\ \A i \in 2..(Len(s) + 1) : r[i] = s[i - 1]
  BY <1>1, <1>2, <1>3, SMTT(120)
<1>5. DOMAIN r = 1..(Len(s) + 1) /\ Range(r) = {r[i] : i \in 1..(Len(s) + 1)}
  BY <1>1, <1>3, <1>4, SeqDomain, SMTT(120)
<1>6. \A i \in 2..(Len(s) + 1) : i - 1 \in 1..Len(s)
  BY <1>1, SMTT(120)
<1>7. Falling(r)
  <2>1. ASSUME NEW i \in 1..(Len(s) + 1), NEW j \in 1..(Len(s) + 1), i < j PROVE r[i] > r[j]
    <3>1. j \in 2..(Len(s) + 1) /\ j - 1 \in 1..Len(s) /\ r[j] = s[j - 1]
      BY <1>1, <1>4, <2>1, SMTT(120)
    <3>2. CASE i = 1
      <4>1. s[j - 1] < n
        BY <1>1, <3>1, SMTT(120)
      <4> QED BY <1>1, <1>4, <3>1, <3>2, <4>1, SMTT(120)
    <3>3. CASE i # 1
      <4>0. i \in 2..(Len(s) + 1) /\ i - 1 < j - 1
        BY <1>1, <2>1, <3>3
      <4>1. i - 1 \in 1..Len(s) /\ i - 1 < j - 1 /\ r[i] = s[i - 1]
        BY <1>4, <1>6, <4>0
      <4> QED BY <1>1, <3>1, <4>1, SMTT(120) DEF Falling
    <3> QED BY <3>2, <3>3, SMTT(120)
  <2> QED BY <1>5, <2>1 DEF Falling
<1>8. Range(r) = Range(s) \cup {n}
  <2>1. \A i \in 1..(Len(s) + 1) : i = 1 \/ i \in 2..(Len(s) + 1)
    BY <1>1
  <2>2. ASSUME NEW x \in Range(r) PROVE x \in Range(s) \cup {n}
    <3>1. PICK i \in 1..(Len(s) + 1) : x = r[i]
      BY <1>5
    <3> QED BY <1>1, <1>4, <1>6, <2>1, <3>1, SMTT(120)
  <2>3. n \in Range(r)
    <3>1. 1 \in 1..(Len(s) + 1)
      BY <1>1
    <3> QED BY <1>4, <1>5, <3>1
  <2>4. ASSUME NEW x \in Range(s) PROVE x \in Range(r)
    <3>1. PICK i \in 1..Len(s) : x = s[i]
      BY <1>1
    <3>2. i + 1 \in 2..(Len(s) + 1) /\ i + 1 \in 1..(Len(s) + 1) /\ (i + 1) - 1 = i
      BY <1>1
    <3>3. r[i + 1] = s[i]
      BY <1>4, <3>2
    <3> QED BY <1>5, <3>1, <3>2, <3>3
  <2> QED BY <2>2, <2>3, <2>4, Zenon
<1> QED BY <1>3, <1>7, <1>8, SMTT(120) DEF r

\* Entries of a falling list differ, and a list without one of them falls too.
LEMMA CutFalling ==
  ASSUME NEW s \in Seq(Nat), Falling(s), NEW i \in 1..Len(s)
  PROVE  Cut(s, i) \in Seq(Nat) /\ Falling(Cut(s, i)) /\ Range(Cut(s, i)) = Range(s) \ {s[i]}
<1> DEFINE r == Cut(s, i)
<1>1. Len(s) \in Nat /\ DOMAIN s = 1..Len(s) /\ \A j \in 1..Len(s) : s[j] \in Nat
  BY SeqDomain
<1>0. \A j, k \in 1..Len(s) : j < k => s[j] > s[k]
  BY <1>1, SMTT(120) DEF Falling
<1>2. IsInjective(s)
  <2>1. ASSUME NEW j \in 1..Len(s), NEW k \in 1..Len(s), s[j] = s[k] PROVE j = k
    <3>0. s[j] \in Nat /\ s[k] \in Nat /\ ~(s[j] > s[k]) /\ ~(s[k] > s[j])
      BY <1>1, <2>1
    <3>1. ~(j < k) /\ ~(k < j)
      BY <1>0, <3>0
    <3> QED BY <1>1, <3>1
  <2> QED BY <1>1, <2>1 DEF IsInjective
<1>3. r \in Seq(Nat) /\ Range(r) = Range(s) \ {s[i]} /\ IsCut(r, s, i)
  BY <1>2, CutEntry, CutInjective, SMTT(120)
<1> HIDE DEF r
<1>4. DOMAIN r = 1..(Len(s) - 1)
  BY <1>3, SeqDomain DEF IsCut
<1>5. ASSUME NEW j \in 1..(Len(s) - 1), NEW k \in 1..(Len(s) - 1), j < k PROVE r[j] > r[k]
  <2>1. j \in 1..Len(s) /\ j + 1 \in 1..Len(s) /\ k \in 1..Len(s) /\ k + 1 \in 1..Len(s)
    BY <1>1, SMTT(120)
  <2>2. CASE k < i
    <3>1. r[j] = s[j] /\ r[k] = s[k]
      BY <1>1, <1>3, <1>5, <2>2, SMTT(120) DEF IsCut
    <3> QED BY <1>0, <1>5, <2>1, <3>1
  <2>3. CASE ~(k < i)
    <3>1. r[k] = s[k + 1] /\ (r[j] = s[j] \/ r[j] = s[j + 1])
      BY <1>3, <2>3, SMTT(120) DEF IsCut
    <3>2. j < k + 1 /\ j + 1 < k + 1
      BY <1>1, <1>5
    <3>3. s[j] > s[k + 1] /\ s[j + 1] > s[k + 1]
      BY <1>0, <2>1, <3>2
    <3> QED BY <3>1, <3>3
  <2> QED BY <2>2, <2>3
<1>6. Falling(r)
  BY <1>4, <1>5, SMTT(120) DEF Falling
<1> QED BY <1>3, <1>6, SMTT(120) DEF r

\* RPOP takes the smallest value.
LEMMA PopRight ==
  ASSUME NEW s \in Seq(Nat), Falling(s), s # << >>
  PROVE  LET r == SubSeq(s, 1, Len(s) - 1)
             v == s[Len(s)]
         IN  /\ r \in Seq(Nat) /\ Falling(r) /\ Range(r) = Range(s) \ {v}
             /\ v \in Range(s) /\ v \in Nat /\ \A x \in Range(r) : v < x
<1> DEFINE n == Len(s)
           r == SubSeq(s, 1, n - 1)
<1>1. n \in Nat \ {0} /\ DOMAIN s = 1..n /\ Range(s) = {s[i] : i \in 1..n} /\ \A i \in 1..n : s[i] \in Nat
  BY SeqDomain
<1>2. r \in Seq(Nat) /\ Len(r) = n - 1 /\ \A i \in 1..(n - 1) : r[i] = s[i]
  BY <1>1
<1> HIDE DEF n, r
<1>3. DOMAIN r = 1..(n - 1) /\ Range(r) = {r[i] : i \in 1..(n - 1)}
  BY <1>2, SeqDomain, SMTT(120)
<1>4. n \in 1..n /\ \A i \in 1..(n - 1) : i \in 1..n /\ i < n
  BY <1>1
<1>5. \A i \in 1..n : i = n \/ i \in 1..(n - 1)
  BY <1>1
<1>6. Falling(r)
  <2>1. \A i, j \in 1..n : i < j => s[i] > s[j]
    BY <1>1, SMTT(120) DEF Falling
  <2>2. \A i, j \in 1..(n - 1) : i < j => r[i] > r[j]
    BY <1>2, <1>4, <2>1, SMTT(120)
  <2> QED BY <1>3, <2>2 DEF Falling
<1>7. \A i \in 1..(n - 1) : s[n] < s[i]
  BY <1>1, <1>4 DEF Falling
<1>8. s[n] \in Range(s) /\ s[n] \in Nat
  BY <1>1, <1>4
<1>9. \A x \in Range(r) : s[n] < x
  BY <1>2, <1>3, <1>7, SMTT(120)
<1>10. \A x \in Range(r) : x \in Range(s) /\ x # s[n]
  <2>1. \A i \in 1..(n - 1) : s[i] \in Range(s) /\ s[i] # s[n]
    BY <1>1, <1>4, <1>7
  <2> QED BY <1>2, <1>3, <2>1, SMTT(120)
<1>11. ASSUME NEW x \in Range(s), x # s[n] PROVE x \in Range(r)
  <2>1. PICK i \in 1..n : x = s[i]
    BY <1>1
  <2>2. i \in 1..(n - 1)
    BY <1>5, <1>11, <2>1
  <2> QED BY <1>2, <1>3, <2>1, <2>2
<1> QED BY <1>2, <1>6, <1>8, <1>9, <1>10, <1>11 DEF r, n

ListFacts(src, dst, gone, pushed) ==
  /\ src \in Seq(Nat) /\ dst \in Seq(Nat) /\ Falling(src) /\ Falling(dst) /\ pushed \in Nat
  /\ Range(src) \cup Range(dst) \cup gone = 1..pushed
  /\ Range(src) \cap Range(dst) = {} /\ (Range(src) \cup Range(dst)) \cap gone = {}
  /\ \A v \in Range(src), w \in (1..pushed) \ Range(src) : w < v

RcLists ==
  /\ DOMAIN rcList = {"src", "dst"}
  /\ ListFacts(rcList["src"], rcList["dst"], rcTaken \cup rcLost, rcPushed)
RcCount ==
  /\ rcScore \in Int /\ rcHits \in Nat /\ rcTries \in Nat
  /\ IF rcScore = -1 THEN rcHits = 0 ELSE rcHits =< rcScore /\ rcScore =< rcTries
RcKey ==
  /\ rcPc \in BOOLEAN /\ rcGone \in BOOLEAN
  /\ rcPc => rcGone \/ rcStr # "none"
  /\ rcOut.op = "exists" => (rcOut.val[1] /\ rcOut.val[2] # "left" => rcGone)

RcInv == RcLists /\ RcCount /\ RcKey

\* Empty lists, no counter and no key to begin with.
LEMMA RcInvInit == RcInit => RcInv
<1> SUFFICES ASSUME RcInit PROVE RcInv
  OBVIOUS
<1>1. << >> \in Seq(Nat) /\ Falling(<< >>) /\ Range(<< >>) = {} /\ 1..0 = {}
  BY DEF Falling, Range
<1>2. /\ DOMAIN rcList = {"src", "dst"} /\ rcList["src"] = << >> /\ rcList["dst"] = << >>
      /\ rcPushed = 0 /\ rcTaken = {} /\ rcLost = {}
  BY DEF RcInit
<1>3. RcLists
  BY <1>1, <1>2 DEF RcLists, ListFacts
<1>4. RcCount
  BY DEF RcInit, RcCount
<1>5. RcKey
  <2>1. rcOut.op = "none"
    BY DEF RcInit, NoReply
  <2> QED BY <2>1, Zenon DEF RcInit, RcKey
<1> QED BY <1>3, <1>4, <1>5 DEF RcInv

\* The invariant implies ListsKeep.
LEMMA RcInvImplies == RcInv => ListsKeep
<1> SUFFICES ASSUME RcInv PROVE ListsKeep
  OBVIOUS
<1>1. /\ DOMAIN rcList["src"] = 1..Len(rcList["src"]) /\ DOMAIN rcList["dst"] = 1..Len(rcList["dst"])
  BY SeqDomain DEF RcInv, RcLists, ListFacts
<1>2. rcScore # -1 => rcHits =< rcScore /\ rcScore =< rcTries
  BY DEF RcInv, RcCount
<1>3. rcOut.op = "exists" => (rcOut.val[1] /\ rcOut.val[2] # "left" => rcGone)
  BY DEF RcInv, RcKey
<1>4. ListFacts(rcList["src"], rcList["dst"], rcTaken \cup rcLost, rcPushed)
  BY SMTT(120) DEF RcInv, RcLists
<1> QED BY <1>2, <1>3, <1>4, ZenonT(60) DEF ListsKeep, ListFacts, Falling, Range

\* The three ways in which a value moves.
LEMMA ListPushes ==
  ASSUME NEW src, NEW dst, NEW gone, NEW n, ListFacts(src, dst, gone, n)
  PROVE  ListFacts(<<n + 1>> \o src, dst, gone, n + 1)
<1> USE DEF ListFacts
<1>1. n \in Nat /\ n + 1 \in Nat /\ 1..(n + 1) = (1..n) \cup {n + 1} /\ n + 1 \notin 1..n
  OBVIOUS
<1>2. \A x \in 1..n : x < n + 1
  BY <1>1
<1> DEFINE r == <<n + 1>> \o src
<1>3. r \in Seq(Nat) /\ Falling(r) /\ Range(r) = Range(src) \cup {n + 1}
  BY <1>1, <1>2, PushLeft
<1> HIDE DEF r
<1>4. \A v \in Range(r), w \in (1..(n + 1)) \ Range(r) : w < v
  BY <1>1, <1>2, <1>3
<1>5. /\ Range(r) \cup Range(dst) \cup gone = 1..(n + 1)
      /\ Range(r) \cap Range(dst) = {} /\ (Range(r) \cup Range(dst)) \cap gone = {}
  BY <1>1, <1>3, SMTT(120)
<1> QED BY <1>1, <1>3, <1>4, <1>5, SMTT(120) DEF r

\* RPOP, RPOPLPUSH and LREM keep each value in one place.
LEMMA ListPops ==
  ASSUME NEW src, NEW dst, NEW gone, NEW n, ListFacts(src, dst, gone, n)
  PROVE  /\ src # << >> =>
              LET r == SubSeq(src, 1, Len(src) - 1)
                  v == src[Len(src)]
              IN  ListFacts(r, dst, gone \cup {v}, n) /\ ListFacts(r, <<v>> \o dst, gone, n)
         /\ dst # << >> => ListFacts(src, SubSeq(dst, 1, Len(dst) - 1), gone \cup {dst[Len(dst)]}, n)
         /\ \A i \in 1..Len(dst) : ListFacts(src, Cut(dst, i), gone \cup {dst[i]}, n)
<1> USE DEF ListFacts
<1>1. ASSUME src # << >>
      PROVE  LET r == SubSeq(src, 1, Len(src) - 1)
                 v == src[Len(src)]
             IN  ListFacts(r, dst, gone \cup {v}, n) /\ ListFacts(r, <<v>> \o dst, gone, n)
  <2> DEFINE r == SubSeq(src, 1, Len(src) - 1)
             v == src[Len(src)]
             d == <<v>> \o dst
  <2>1. /\ r \in Seq(Nat) /\ Falling(r) /\ Range(r) = Range(src) \ {v}
        /\ v \in Range(src) /\ v \in Nat /\ \A x \in Range(r) : v < x
    BY <1>1, PopRight
  <2>2. v \in 1..n /\ \A w \in (1..n) \ Range(src) : w < v
    BY <2>1
  <2>3. \A x \in Range(dst) : x < v
    BY <2>1, <2>2
  <2>4. d \in Seq(Nat) /\ Falling(d) /\ Range(d) = Range(dst) \cup {v}
    BY <2>1, <2>3, PushLeft
  <2> HIDE DEF r, v, d
  <2>5. \A x \in Range(r), w \in (1..n) \ Range(r) : w < x
    BY <2>1, <2>2
  <2>6. ListFacts(r, dst, gone \cup {v}, n)
    BY <2>1, <2>2, <2>5
  <2>7. ListFacts(r, d, gone, n)
    BY <2>1, <2>2, <2>4, <2>5
  <2> QED BY <2>6, <2>7, SMTT(120) DEF r, v, d
<1>2. ASSUME dst # << >>
      PROVE  ListFacts(src, SubSeq(dst, 1, Len(dst) - 1), gone \cup {dst[Len(dst)]}, n)
  <2> DEFINE r == SubSeq(dst, 1, Len(dst) - 1)
             v == dst[Len(dst)]
  <2>1. r \in Seq(Nat) /\ Falling(r) /\ Range(r) = Range(dst) \ {v} /\ v \in Range(dst)
    BY <1>2, PopRight, SMTT(120)
  <2> HIDE DEF r, v
  <2>2. ListFacts(src, r, gone \cup {v}, n)
    BY <2>1, SMTT(120)
  <2> QED BY <2>2 DEF r, v
<1>3. ASSUME NEW i \in 1..Len(dst) PROVE ListFacts(src, Cut(dst, i), gone \cup {dst[i]}, n)
  <2> DEFINE v == dst[i]
             r == Cut(dst, i)
  <2>1. r \in Seq(Nat) /\ Falling(r) /\ Range(r) = Range(dst) \ {v}
    BY CutFalling, SMTT(120)
  <2>2. v \in Range(dst)
    BY SeqDomain, SMTT(120)
  <2> HIDE DEF r, v
  <2>3. ListFacts(src, r, gone \cup {v}, n)
    BY <2>1, <2>2, SMTT(120)
  <2> QED BY <2>3 DEF r, v
<1> HIDE DEF ListFacts
<1> QED BY <1>1, <1>2, <1>3, Zenon

\* A command that is not EXISTS does not answer for the key.
LEMMA RcOther ==
  ASSUME RcKey, UNCHANGED stringVars, NEW op, NEW ok, NEW val, Said(op, ok, val), op # "exists"
  PROVE  RcKey'
<1>1. rcOut'.op # "exists"
  BY DEF Said
<1> QED BY <1>1 DEF RcKey, stringVars

\* The commands on the key keep what is known of it.
LEMMA RcString ==
  ASSUME RcInv, StringCall
  PROVE  RcKey'
<1> USE DEF RcInv
<1>1. ASSUME NEW val, Becomes(val), NEW op, NEW ok, NEW v, Said(op, ok, v), op # "exists"
      PROVE  RcKey'
  <2>1. rcOut'.op # "exists"
    BY <1>1 DEF Said
  <2> QED BY <1>1, <2>1 DEF RcKey, Becomes
<1>2. CASE SetEx
  BY <1>1, <1>2, RcOther, Zenon DEF SetEx, Command
<1>3. CASE SetNX
  BY <1>1, <1>3, RcOther, Zenon DEF SetNX, Command
<1>4. CASE DelString
  BY <1>1, <1>4, RcOther, ZenonT(60) DEF DelString, Command
<1>5. CASE StringExpires
  BY <1>5 DEF StringExpires, Becomes, RcKey
<1>6. CASE SetJSON
  BY <1>1, <1>6, RcOther, Zenon DEF SetJSON, Command, Refused
<1>7. CASE GetJSON \/ GetString
  BY <1>7, RcOther, Zenon DEF GetJSON, GetString, Reads, Refused
<1>8. CASE IsExist
  <2>1. CASE rcStr # "none" /\ rcPc' = TRUE /\ rcGone' = FALSE /\ rcOut' = NoReply
    <3>1. rcOut'.op = "none"
      BY <2>1, SMTT(120) DEF NoReply
    <3> QED BY <1>8, <2>1, <3>1, Zenon DEF IsExist, RcKey
  <2>2. CASE Said("exists", TRUE, <<FALSE, "-2">>) /\ UNCHANGED <<rcPc, rcGone>>
    <3>1. ~rcOut'.val[1]
      BY <2>2 DEF Said
    <3> QED BY <1>8, <2>2, <3>1, SMTT(120) DEF IsExist, RcKey
  <2> QED BY <1>8, <2>1, <2>2, Zenon DEF IsExist
<1>9. CASE TTL
  <2>1. CASE /\ Said("exists", TRUE, <<TRUE, IF rcStr = "none" THEN "-2" ELSE "left">>)
             /\ UNCHANGED <<rcFaults, rcGone>>
    <3>1. rcOut'.val[2] # "left" => rcGone'
      BY <1>9, <2>1 DEF TTL, Said, RcKey
    <3> QED BY <1>9, <2>1, <3>1, ZenonT(60) DEF TTL, RcKey
  <2>2. CASE rcGone' = TRUE
    BY <1>9, <2>2, Zenon DEF TTL, RcKey
  <2> QED BY <1>9, <2>1, <2>2, Zenon DEF TTL
<1> QED BY <1>2, <1>3, <1>4, <1>5, <1>6, <1>7, <1>8, <1>9, SMTT(120) DEF StringCall

\* The commands on lists, with their answers lost or not.
LEMMA RcListStep ==
  ASSUME RcInv, ListCall, UNCHANGED stringVars
  PROVE  RcLists' /\ RcKey'
<1> USE DEF RcInv
<1> DEFINE src == rcList["src"]
           dst == rcList["dst"]
           gone == rcTaken \cup rcLost
<1>0. /\ DOMAIN rcList = {"src", "dst"} /\ ListFacts(src, dst, gone, rcPushed)
      /\ DOMAIN dst = 1..Len(dst)
  BY SeqDomain DEF RcLists, ListFacts
<1>1. RcKey'
  BY RcOther, Zenon DEF ListCall, LPush, RPop, RPopLPush, LRem, Command, Refused
<1>2. CASE UNCHANGED listVars
  BY <1>1, <1>2 DEF listVars, RcLists
<1>3. ASSUME rcList' = [rcList EXCEPT !["src"] = <<rcPushed + 1>> \o @], rcPushed' = rcPushed + 1,
             UNCHANGED <<rcTaken, rcLost>>
      PROVE  RcLists'
  <2>1. DOMAIN rcList' = {"src", "dst"} /\ rcList'["src"] = <<rcPushed + 1>> \o src /\ rcList'["dst"] = dst
    BY <1>0, <1>3, SMTT(120)
  <2>2. ListFacts(<<rcPushed + 1>> \o src, dst, gone, rcPushed + 1)
    BY <1>0, ListPushes
  <2> QED BY <1>3, <2>1, <2>2 DEF RcLists
<1>4. ASSUME NEW l \in {"src", "dst"}, NEW ok \in BOOLEAN, rcList[l] # << >>,
             rcList' = [rcList EXCEPT ![l] = WithoutRightmost(l)],
             rcTaken' = IF ok THEN rcTaken \cup {Rightmost(l)} ELSE rcTaken,
             rcLost' = IF ok THEN rcLost ELSE rcLost \cup {Rightmost(l)},
             rcPushed' = rcPushed
      PROVE  RcLists'
  <2>1. rcTaken' \cup rcLost' = gone \cup {rcList[l][Len(rcList[l])]}
    BY <1>4 DEF Rightmost
  <2>2. CASE l = "src"
    <3>1. /\ DOMAIN rcList' = {"src", "dst"} /\ rcList'["src"] = SubSeq(src, 1, Len(src) - 1)
          /\ rcList'["dst"] = dst
      BY <1>0, <1>4, <2>2 DEF WithoutRightmost
    <3>2. ListFacts(SubSeq(src, 1, Len(src) - 1), dst, gone \cup {src[Len(src)]}, rcPushed)
      BY <1>0, <1>4, <2>2, ListPops, Zenon
    <3> QED BY <1>4, <2>1, <2>2, <3>1, <3>2, Zenon DEF RcLists
  <2>3. CASE l = "dst"
    <3>1. /\ DOMAIN rcList' = {"src", "dst"} /\ rcList'["dst"] = SubSeq(dst, 1, Len(dst) - 1)
          /\ rcList'["src"] = src
      BY <1>0, <1>4, <2>3 DEF WithoutRightmost
    <3>2. ListFacts(src, SubSeq(dst, 1, Len(dst) - 1), gone \cup {dst[Len(dst)]}, rcPushed)
      BY <1>0, <1>4, <2>3, ListPops, Zenon
    <3> QED BY <1>4, <2>1, <2>3, <3>1, <3>2, Zenon DEF RcLists
  <2> QED BY <2>2, <2>3
<1>5. ASSUME src # << >>,
             rcList' = [rcList EXCEPT !["src"] = WithoutRightmost("src"),
                                      !["dst"] = <<Rightmost("src")>> \o @],
             UNCHANGED <<rcPushed, rcTaken, rcLost>>
      PROVE  RcLists'
  <2>1. /\ DOMAIN rcList' = {"src", "dst"} /\ rcList'["src"] = SubSeq(src, 1, Len(src) - 1)
        /\ rcList'["dst"] = <<src[Len(src)]>> \o dst
    BY <1>0, <1>5 DEF WithoutRightmost, Rightmost
  <2>2. ListFacts(SubSeq(src, 1, Len(src) - 1), <<src[Len(src)]>> \o dst, gone, rcPushed)
    BY <1>0, <1>5, ListPops, Zenon
  <2> QED BY <1>5, <2>1, <2>2, Zenon DEF RcLists
<1>6. ASSUME NEW i \in DOMAIN dst, rcList' = [rcList EXCEPT !["dst"] = Cut(dst, i)],
             rcTaken' = rcTaken \cup {dst[i]}, UNCHANGED <<rcPushed, rcLost>>
      PROVE  RcLists'
  <2>1. DOMAIN rcList' = {"src", "dst"} /\ rcList'["dst"] = Cut(dst, i) /\ rcList'["src"] = src
    BY <1>0, <1>6
  <2>2. ListFacts(src, Cut(dst, i), gone \cup {dst[i]}, rcPushed)
    BY <1>0, <1>6, ListPops, Zenon
  <2>3. rcTaken' \cup rcLost' = gone \cup {dst[i]}
    BY <1>6
  <2> QED BY <1>6, <2>1, <2>2, <2>3 DEF RcLists
<1>7. CASE LPush
  BY <1>1, <1>2, <1>3, <1>7, ZenonT(60) DEF LPush, Command
<1>8. ASSUME NEW l \in {"src", "dst"}, RPop(l) PROVE RcLists'
  <2>1. CASE rcList[l] = << >>
    BY <1>2, <1>8, <2>1 DEF RPop, Refused
  <2>2. CASE rcList[l] # << >> /\ ~UNCHANGED listVars
    <3>1. PICK ok \in BOOLEAN :
            /\ rcList' = [rcList EXCEPT ![l] = WithoutRightmost(l)]
            /\ rcTaken' = IF ok THEN rcTaken \cup {Rightmost(l)} ELSE rcTaken
            /\ rcLost' = IF ok THEN rcLost ELSE rcLost \cup {Rightmost(l)}
            /\ rcPushed' = rcPushed
      <4>1. CASE /\ rcList' = [rcList EXCEPT ![l] = WithoutRightmost(l)]
                 /\ rcTaken' = rcTaken \cup {Rightmost(l)} /\ rcLost' = rcLost /\ rcPushed' = rcPushed
        BY <4>1, Zenon
      <4>2. CASE /\ rcList' = [rcList EXCEPT ![l] = WithoutRightmost(l)]
                 /\ rcTaken' = rcTaken /\ rcLost' = rcLost \cup {Rightmost(l)} /\ rcPushed' = rcPushed
        BY <4>2, Zenon
      <4> QED BY <1>8, <2>2, <4>1, <4>2, Zenon DEF RPop, Command
    <3> QED BY <1>4, <2>2, <3>1, Zenon
  <2> QED BY <1>2, <2>1, <2>2
<1>9. CASE RPopLPush
  <2>1. CASE src = << >>
    BY <1>2, <1>9, <2>1 DEF RPopLPush, Refused
  <2>2. CASE src # << >> /\ ~UNCHANGED listVars
    <3>1. /\ rcList' = [rcList EXCEPT !["src"] = WithoutRightmost("src"),
                                      !["dst"] = <<Rightmost("src")>> \o @]
          /\ UNCHANGED <<rcPushed, rcTaken, rcLost>>
      BY <1>9, <2>2, Zenon DEF RPopLPush, Command
    <3>2. RcLists'
      BY <1>5, <2>2, <3>1
    <3> QED BY <1>1, <3>2
  <2> QED BY <1>2, <2>1, <2>2
<1>10. ASSUME NEW v, LRem(v) PROVE RcLists'
  <2>1. CASE ~UNCHANGED listVars
    <3>1. PICK i \in DOMAIN dst :
            /\ dst[i] = v /\ rcList' = [rcList EXCEPT !["dst"] = Cut(dst, i)]
            /\ rcTaken' = rcTaken \cup {v} /\ UNCHANGED <<rcPushed, rcLost>>
      BY <1>10, <2>1, Zenon DEF LRem, Command, Cut
    <3> QED BY <1>6, <3>1, Zenon
  <2> QED BY <1>2, <2>1
<1> QED BY <1>1, <1>7, <1>8, <1>9, <1>10, SMTT(120) DEF ListCall

\* The score stays between the increments answered and those tried.
LEMMA RcScoreStep ==
  ASSUME RcInv, ScoreCall, UNCHANGED stringVars
  PROVE  RcCount' /\ RcKey'
<1> USE DEF RcInv
<1>1. RcKey'
  BY RcOther, Zenon DEF ScoreCall, ZAddMember, ZIncrBy, ZRemMember, ZCount, ZRange, ZRangeByScore,
                 Command, Reads
<1>2. CASE UNCHANGED scoreVars
  BY <1>1, <1>2 DEF scoreVars, RcCount
<1>3. CASE ZAddMember
  <2>1. UNCHANGED scoreVars \/ (rcScore = -1 /\ rcScore' = 0 /\ UNCHANGED <<rcTries, rcHits>>)
    BY <1>3, Zenon DEF ZAddMember, Command
  <2> QED BY <1>1, <1>2, <2>1 DEF RcCount
<1>4. CASE ZIncrBy
  <2> DEFINE new == IF rcScore = -1 THEN 1 ELSE rcScore + 1
  <2>1. /\ rcTries' = rcTries + 1
        /\ \/ UNCHANGED <<rcScore, rcHits>>
           \/ rcScore' = new /\ (rcHits' = rcHits + 1 \/ rcHits' = rcHits)
    BY <1>4, Zenon DEF ZIncrBy, Command
  <2> QED BY <1>1, <2>1 DEF RcCount
<1>5. CASE ZRemMember
  <2>1. UNCHANGED scoreVars \/ (rcScore' = -1 /\ rcTries' = 0 /\ rcHits' = 0)
    BY <1>5, Zenon DEF ZRemMember, Command
  <2> QED BY <1>1, <1>2, <2>1 DEF RcCount
<1>6. CASE ZCount \/ ZRange \/ ZRangeByScore(1)
  BY <1>2, <1>6, ZenonT(60) DEF ZCount, ZRange, ZRangeByScore, Reads
<1> QED BY <1>3, <1>4, <1>5, <1>6 DEF ScoreCall

\* Every command keeps the invariant.
LEMMA RcStep == RcInv /\ [RcNext]_cacheVars => RcInv'
<1> SUFFICES ASSUME RcInv, [RcNext]_cacheVars PROVE RcInv'
  OBVIOUS
<1> USE DEF RcInv
<1>1. CASE UNCHANGED cacheVars
  BY <1>1, ZenonT(60) DEF cacheVars, RcLists, RcCount, RcKey
<1>2. CASE StringCall /\ UNCHANGED <<listVars, scoreVars>>
  BY <1>2, RcString DEF listVars, scoreVars, RcLists, RcCount
<1>3. CASE ListCall /\ UNCHANGED <<stringVars, scoreVars>>
  BY <1>3, RcListStep DEF scoreVars, RcCount
<1>4. CASE ScoreCall /\ UNCHANGED <<stringVars, listVars>>
  BY <1>4, RcScoreStep DEF listVars, RcLists
<1>5. CASE HashCall /\ UNCHANGED <<stringVars, listVars, scoreVars>>
  <2>1. RcKey'
    BY <1>5, RcOther, Zenon DEF HashCall, HSet, HSetNX, HDel, HGet, HExists, Command, Reads, Refused
  <2> QED BY <1>5, <2>1 DEF listVars, scoreVars, RcLists, RcCount
<1> QED BY <1>1, <1>2, <1>3, <1>4, <1>5, SMTT(120) DEF RcNext

-----------------------------------------------------------------------------
\* What a pool hands out has one holder and is not lost, for any processes,
\* services, ports, list values, failures and lost answers (redis.go:40-120,
\* ports.go:43-79, redis_cache.go:34-129).
THEOREM KeptThingsStaySound == PoolSpec /\ PpSpec /\ RcSpec => []PoolsSound
<1>1. PoolSpec => []PoolSound
  BY ServicesStaySound
<1>2. PpInit => PpInv
  BY PpInvInit
<1>3. PpInv /\ [PpNext]_portVars => PpInv'
  BY PpStep
<1>4. PpInv => PortsSound
  BY PpInvImplies
<1>5. RcInit => RcInv
  BY RcInvInit
<1>6. RcInv /\ [RcNext]_cacheVars => RcInv'
  BY RcStep
<1>7. RcInv => ListsKeep
  BY RcInvImplies
<1> QED BY <1>1, <1>2, <1>3, <1>4, <1>5, <1>6, <1>7, PTL
        DEF PpSpec, RcSpec, PoolsSound
=============================================================================
