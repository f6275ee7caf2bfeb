------------------------- MODULE UploadPromptProofs -------------------------
(***************************************************************************)
(* Resumable uploads and the rows of prompts, for any number of clients,   *)
(* parts, rows and conditions.  Both list rows in ascending order; what such*)
(* lists are is proved first.                                              *)
(***************************************************************************)
EXTENDS Uploader, PromptStore, FiniteSetTheorems, SequenceTheorems,
        WellFoundedInduction, NaturalsInduction, TLAPS

\* A function on 1..n is a sequence of length n.
LEMMA FunctionIsSeq ==
  ASSUME NEW S, NEW n \in Nat, NEW f \in [1..n -> S]
  PROVE  f \in Seq(S) /\ Len(f) = n
<1>1. f \in Seq(S)
  BY SeqDef
<1>2. DOMAIN f = 1..n
  OBVIOUS
<1> QED BY <1>1, <1>2, LenProperties

-----------------------------------------------------------------------------
(* Sets of numbers in ascending order.                                     *)

Ascending(s) == \A i, j \in DOMAIN s : i < j => s[i] < s[j]

\* A set of natural numbers that is not empty has a least element.
LEMMA NatLeast ==
  ASSUME NEW T \in SUBSET Nat, T # {}
  PROVE  \E x \in T : \A y \in T : x =< y
<1>1. IsWellFoundedOn(OpToRel(<, Nat), Nat)
  BY NatLessThanWellFounded, Zenon
<1>2. PICK x \in T : \A y \in T : ~ (<<y, x>> \in OpToRel(<, Nat))
  BY <1>1, WFMin, Zenon
<1>3. \A y \in T : ~(y < x)
  BY <1>2, Zenon DEF OpToRel
<1> QED BY <1>3

\* Every finite set of natural numbers can be listed in ascending order: there
\* is no least size of a set that cannot.
LEMMA AscendingExists ==
  ASSUME NEW S \in SUBSET Nat, IsFiniteSet(S)
  PROVE  \E s \in [1..Cardinality(S) -> S] : Ascending(s)
<1> DEFINE Listed(Z) == \E s \in [1..Cardinality(Z) -> Z] : Ascending(s)
           Bad == {n \in Nat : \E Z \in SUBSET Nat :
                                 IsFiniteSet(Z) /\ Cardinality(Z) = n /\ ~Listed(Z)}
<1>1. Bad = {}
  <2> SUFFICES ASSUME Bad # {} PROVE FALSE
    OBVIOUS
  <2>1. PICK n \in Bad : \A m \in Bad : n =< m
    BY NatLeast, Zenon
  <2>2. PICK Z \in SUBSET Nat : IsFiniteSet(Z) /\ Cardinality(Z) = n /\ ~Listed(Z)
    BY <2>1
  <2>3. CASE n = 0
    <3>1. Z = {} /\ 1..Cardinality(Z) = {}
      BY <2>2, <2>3, FS_EmptySet
    <3>2. << >> \in [1..Cardinality(Z) -> Z] /\ Ascending(<< >>)
      BY <3>1 DEF Ascending
    <3> QED BY <2>2, <3>2, Zenon
  <2>4. CASE n # 0
    <3>1. Z # {}
      BY <2>2, <2>4, FS_EmptySet
    <3>2. PICK x \in Z : \A y \in Z : x =< y
      BY <3>1, NatLeast
    <3> DEFINE Y == Z \ {x}
    <3>3. IsFiniteSet(Y) /\ Cardinality(Y) = n - 1 /\ Y \in SUBSET Nat
      BY <2>2, FS_RemoveElement, Zenon
    <3>4. n - 1 \in Nat /\ n - 1 \notin Bad
      BY <2>1, <2>4
    <3>5. Listed(Y)
      BY <3>3, <3>4, Zenon
    <3>6. PICK s \in [1..(n - 1) -> Y] : Ascending(s)
      BY <3>3, <3>5, Zenon
    <3> DEFINE r == [i \in 1..n |-> IF i = 1 THEN x ELSE s[i - 1]]
    <3>7. \A i \in 2..n : s[i - 1] \in Y
      BY <3>4, <3>6
    <3>8. r \in [1..n -> Z]
      BY <3>7
    <3>9. ASSUME NEW i \in 1..n, NEW j \in 1..n, i < j PROVE r[i] < r[j]
      <4>1. j \in 2..n /\ r[j] = s[j - 1] /\ s[j - 1] \in Y
        BY <3>7, <3>9
      <4>2. CASE i = 1
        <5>1. r[i] = x /\ s[j - 1] # x /\ x =< s[j - 1] /\ x \in Nat /\ s[j - 1] \in Nat
          BY <3>2, <4>1, <4>2, Zenon
        <5> QED BY <4>1, <5>1
      <4>3. CASE i # 1
        <5>1. r[i] = s[i - 1] /\ i - 1 \in 1..(n - 1) /\ j - 1 \in 1..(n - 1) /\ i - 1 < j - 1
          BY <3>9, <4>3
        <5> QED BY <3>6, <4>1, <5>1 DEF Ascending
      <4> QED BY <4>2, <4>3
    <3>10. Ascending(r) /\ r \in [1..Cardinality(Z) -> Z]
      BY <2>2, <3>8, <3>9 DEF Ascending
    <3> HIDE DEF r
    <3> QED BY <2>2, <3>10
  <2> QED BY <2>3, <2>4
<1>2. Cardinality(S) \in Nat
  BY FS_CardinalityType
<1>3. Cardinality(S) \notin Bad
  BY <1>1
<1> QED BY <1>2, <1>3

\* The only ascending list of n numbers out of 1..n is 1, 2, ..., n.
LEMMA AscendingUnique ==
  ASSUME NEW n \in Nat, NEW s \in [1..n -> 1..n], Ascending(s)
  PROVE  s = [i \in 1..n |-> i]
<1>1. \A i \in 1..n : s[i] >= i
  <2> DEFINE Low == {i \in 1..n : s[i] < i}
  <2> SUFFICES ASSUME Low # {} PROVE FALSE
    BY SMTT(60)
  <2>0. Low \in SUBSET Nat
    OBVIOUS
  <2>1. PICK i \in Low : \A j \in Low : i =< j
    <3> HIDE DEF Low
    <3> QED BY <2>0, NatLeast
  <2>2. s[i] \in 1..n /\ s[i] < i /\ i \in 1..n
    BY <2>1
  <2>3. i - 1 \in 1..n /\ i - 1 \notin Low
    BY <2>1, <2>2
  <2>4. s[i - 1] >= i - 1 /\ s[i - 1] \in 1..n
    BY <2>3
  <2>5. s[i - 1] < s[i]
    BY <2>2, <2>3, SMTT(60) DEF Ascending
  <2> QED BY <2>2, <2>4, <2>5, SMTT(60)
<1>2. \A i \in 1..n : s[i] =< i
  <2> DEFINE High == {d \in 0..(n - 1) : s[n - d] > n - d}
  <2> SUFFICES ASSUME NEW k \in 1..n, s[k] > k PROVE FALSE
    OBVIOUS
  <2>1. n - k \in High
    <3>1. n - (n - k) = k /\ n - k \in 0..(n - 1)
      OBVIOUS
    <3> QED BY <3>1
  <2>0. High \in SUBSET Nat
    OBVIOUS
  <2>2. PICK d \in High : \A e \in High : d =< e
    <3> HIDE DEF High
    <3> QED BY <2>0, <2>1, NatLeast, Zenon
  <2>3. d \in 0..(n - 1) /\ n - d \in 1..n /\ s[n - d] > n - d /\ s[n - d] \in 1..n
    BY <2>2
  <2>4. d # 0
    BY <2>3
  <2>5. d - 1 \in 0..(n - 1) /\ d - 1 \notin High /\ n - (d - 1) = n - d + 1
    <3>1. d - 1 \in 0..(n - 1) /\ n - (d - 1) = n - d + 1 /\ ~(d =< d - 1)
      BY <2>3, <2>4
    <3> HIDE DEF High
    <3> QED BY <2>2, <3>1
  <2>6. n - d + 1 \in 1..n /\ s[n - d + 1] =< n - d + 1 /\ s[n - d + 1] \in 1..n
    BY <2>3, <2>4, <2>5
  <2>7. s[n - d] < s[n - d + 1]
    BY <2>3, <2>6 DEF Ascending
  <2> QED BY <2>3, <2>6, <2>7, SMTT(60)
<1>3. \A i \in 1..n : s[i] = i
  BY <1>1, <1>2
<1> QED BY <1>3

-----------------------------------------------------------------------------
(* Resumable uploads.                                                      *)

\* A client that works on an upload knows which, and is asked for parts of
\* the file only.
UpWorks ==
  /\ \A u \in UpClients : upPc[u] \in {"save", "ready", "complete", "commit"} => upHas[u] \in Tasks
  /\ \A u \in UpClients : upNeed[u] \subseteq 0..(PartCount - 1)

\* A client that was told to complete the upload has seen all its parts, and
\* parts do not go away.
UpSeen ==
  \A u \in upTold :
    /\ upPc[u] \in {"ready", "complete", "commit"}
    /\ PartCount =< UpPage =>
         /\ 1..PartCount \subseteq upTasks[upHas[u]]
         /\ upPc[u] = "complete" => upParts[u] = 1..PartCount
         /\ upPc[u] = "commit" => upObj[upHas[u]] = [i \in 1..PartCount |-> i]

\* An upload is open until it is an object; one client completes it.
UpCommits ==
  /\ \A t \in upOpen : upObj[t] = << >>
  /\ \A u \in UpClients : upPc[u] = "commit" =>
       upObj[upHas[u]] # << >> /\ \A i \in 1..Len(upFiles) : upFiles[i] # upHas[u]
  /\ \A u, v \in UpClients :
       upPc[u] = "commit" /\ upPc[v] = "commit" /\ upHas[u] = upHas[v] => u = v

\* Every file row has its object, and its own.
UpRows ==
  /\ \A i, j \in 1..Len(upFiles) : upFiles[i] = upFiles[j] => i = j
  /\ \A i \in 1..Len(upFiles) : upObj[upFiles[i]] # << >>

UpInv == UpTypeOK /\ UpWorks /\ UpSeen /\ UpCommits /\ UpRows

\* A file has a number of parts.
LEMMA UpPartCount == PartCount \in Nat
BY UpAssumption DEF PartCount, GetPartCount

\* A full set of parts fits on a page that is long enough.
LEMMA UpFirstParts ==
  /\ \A S : FirstParts(S) \subseteq S
  /\ PartCount =< UpPage => FirstParts(1..PartCount) = 1..PartCount
<1>1. \A S : FirstParts(S) \subseteq S
  BY DEF FirstParts
<1>2. ASSUME PartCount =< UpPage, NEW p \in 1..PartCount PROVE p \in FirstParts(1..PartCount)
  <2>1. {q \in 1..PartCount : q < p} = 1..(p - 1)
    BY UpPartCount
  <2>2. Cardinality(1..(p - 1)) = p - 1
    BY FS_Interval, UpPartCount
  <2>3. p - 1 < UpPage
    BY <1>2, UpPartCount, UpAssumption
  <2> QED BY <2>1, <2>2, <2>3, Zenon DEF FirstParts
<1> QED BY <1>1, <1>2, Zenon

\* The parts in order: a list that is not empty, and the whole list when they
\* are all there.
LEMMA UpInOrder ==
  ASSUME NEW S \in SUBSET (1..PartCount), S # {}
  PROVE  /\ InOrder(S) \in Seq(1..PartCount) /\ InOrder(S) # << >>
         /\ S = 1..PartCount => InOrder(S) = [i \in 1..PartCount |-> i]
<1>1. IsFiniteSet(S) /\ S \in SUBSET Nat
  <2>1. IsFiniteSet(1..PartCount)
    BY FS_Interval, UpPartCount
  <2>2. IsFiniteSet(S)
    BY <2>1, FS_Subset, Zenon
  <2>3. S \in SUBSET Nat
    BY UpPartCount
  <2> QED BY <2>2, <2>3
<1>2. \E s \in [1..Cardinality(S) -> S] : Ascending(s)
  BY <1>1, AscendingExists
<1>3. InOrder(S) \in [1..Cardinality(S) -> S] /\ Ascending(InOrder(S))
  BY <1>2, Zenon DEF InOrder, Ascending
<1>4. Cardinality(S) \in Nat \ {0}
  BY <1>1, FS_CardinalityType, FS_EmptySet
<1>5. InOrder(S) \in Seq(S) /\ Len(InOrder(S)) = Cardinality(S)
  BY <1>3, <1>4, FunctionIsSeq
<1>6. InOrder(S) \in Seq(1..PartCount)
  BY <1>5, SeqMonotonic, Zenon
<1>7. InOrder(S) # << >>
  BY <1>4, <1>5, EmptySeq
<1>8. S = 1..PartCount => InOrder(S) = [i \in 1..PartCount |-> i]
  <2>1. Cardinality(1..PartCount) = PartCount
    BY FS_Interval, UpPartCount
  <2> QED BY <1>3, <2>1, AscendingUnique, UpPartCount, Zenon
<1> QED BY <1>6, <1>7, <1>8

\* Deleting a row leaves a list of uploads.
LEMMA DropRowIsSeq ==
  ASSUME NEW S, NEW s \in Seq(S), NEW t
  PROVE  DropRow(s, t) \in Seq(S)
<1>1. DOMAIN s = 1..Len(s) /\ Len(s) \in Nat
  BY LenProperties
<1>2. ASSUME NEW k \in 1..Len(s)
      PROVE  SubSeq(s, 1, k - 1) \o SubSeq(s, k + 1, Len(s)) \in Seq(S)
  <2>1. SubSeq(s, 1, k - 1) \in Seq(S) /\ SubSeq(s, k + 1, Len(s)) \in Seq(S)
    BY SubSeqProperties, ElementOfSeq, LenProperties, SMTT(60)
  <2> QED BY <2>1, ConcatProperties
<1> QED BY <1>1, <1>2 DEF DropRow

\* A page that counts as many parts as the file has holds them all.
LEMMA UpAllParts ==
  ASSUME NEW S \in SUBSET (1..PartCount), Cardinality({p - 1 : p \in FirstParts(S)}) = PartCount
  PROVE  1..PartCount \subseteq S
<1> DEFINE have == {p - 1 : p \in FirstParts(S)}
<1>1. have \in SUBSET (0..(PartCount - 1))
  <2>1. \A p \in FirstParts(S) : p \in 1..PartCount
    BY UpFirstParts, Zenon
  <2>2. \A p \in 1..PartCount : p - 1 \in 0..(PartCount - 1)
    BY UpPartCount
  <2> QED BY <2>1, <2>2, Zenon
<1>2. IsFiniteSet(0..(PartCount - 1)) /\ Cardinality(0..(PartCount - 1)) = PartCount
  <2>1. 0 \in Int /\ PartCount - 1 \in Int /\ (0 > PartCount - 1 => PartCount = 0)
    BY UpPartCount
  <2>2. (PartCount - 1) - 0 + 1 = PartCount
    BY UpPartCount
  <2> QED BY <2>1, <2>2, FS_Interval
<1>3. have = 0..(PartCount - 1)
  <2> HIDE DEF have
  <2>1. Cardinality(have) = PartCount
    BY DEF have
  <2> QED BY <1>1, <1>2, <2>1, FS_Subset, Zenon
<1>4. ASSUME NEW p \in 1..PartCount PROVE p \in S
  <2>1. p - 1 \in have
    BY <1>3, UpPartCount, SMTT(60)
  <2>2. PICK q \in FirstParts(S) : q - 1 = p - 1
    BY <2>1
  <2>3. q \in S
    BY UpFirstParts
  <2>4. q = p
    BY <2>2, <2>3, UpPartCount
  <2> QED BY <2>3, <2>4
<1> QED BY <1>4

\* No upload to begin with.
LEMMA UpInvInit == UpInit => UpInv
<1> SUFFICES ASSUME UpInit PROVE UpInv
  BY Zenon
<1> USE DEF UpInit
<1>1. UpTypeOK
  BY UpPartCount, UpAssumption, SMTT(60) DEF UpTypeOK, Tasks
<1>2. UpWorks
  BY DEF UpWorks
<1>3. UpSeen
  BY DEF UpSeen
<1>4. UpCommits
  BY DEF UpCommits
<1>5. UpRows
  BY DEF UpRows
<1> QED BY <1>1, <1>2, <1>3, <1>4, <1>5, Zenon DEF UpInv

\* A client gives up: nothing else of the upload changes.
LEMMA UpGiveUpStep ==
  ASSUME UpInv, NEW u \in UpClients, UpGiveUp(u), UNCHANGED <<cosVars, dbVars>>
  PROVE  UpInv'
<1> USE DEF UpInv, UpGiveUp, cosVars, dbVars
<1>1. UpTypeOK'
  BY UpPartCount, UpAssumption, SMTT(60) DEF UpTypeOK
<1>2. UpWorks'
  BY Zenon DEF UpWorks, UpTypeOK
<1>3. UpSeen'
  BY Zenon DEF UpSeen, UpTypeOK
<1>4. UpCommits'
  BY Zenon DEF UpCommits, UpTypeOK
<1>5. UpRows'
  BY Zenon DEF UpRows, UpTypeOK
<1> QED BY <1>1, <1>2, <1>3, <1>4, <1>5, Zenon

\* A client that completes nothing takes up an upload: no object and no row of
\* a file changes.
LEMMA UpMoves ==
  ASSUME UpInv, NEW u \in UpClients, upPc[u] \in {"idle", "init", "save"},
         NEW w \in {"idle", "init", "save", "ready"}, NEW h \in 0..UpMaxTasks,
         w \in {"save", "ready"} => h \in Tasks,
         upPc' = [upPc EXCEPT ![u] = w], upHas' = [upHas EXCEPT ![u] = h],
         upTemp' \in Seq(Tasks), upOpen' \subseteq Tasks,
         \A t \in upOpen' \ upOpen : upObj[t] = << >>,
         UNCHANGED <<upTasks, upObj, upFiles, upNeed, upParts, upTold>>
  PROVE  UpInv'
<1> USE DEF UpInv
<1>1. u \notin upTold
  BY Zenon DEF UpSeen
<1>2. upPc'[u] = w /\ upHas'[u] = h
  BY DEF UpTypeOK
<1>3. \A v \in UpClients \ {u} : upPc'[v] = upPc[v] /\ upHas'[v] = upHas[v]
  BY DEF UpTypeOK
<1>4. upPc' \in [UpClients -> {"idle", "init", "save", "ready", "complete", "commit"}]
  BY DEF UpTypeOK
<1>5. upHas' \in [UpClients -> 0..UpMaxTasks]
  BY DEF UpTypeOK
<1>6. UpTypeOK'
  BY <1>4, <1>5 DEF UpTypeOK, Tasks
<1>7. UpWorks'
  BY <1>2, <1>3 DEF UpWorks
<1>8. UpSeen'
  BY <1>1, <1>3 DEF UpSeen, UpTypeOK
<1>9. \A v \in UpClients : upPc'[v] = "commit" => v # u
  BY <1>2
<1>10. UpCommits'
  <2>1. \A t \in upOpen' : upObj'[t] = << >>
    BY DEF UpCommits
  <2>2. \A v \in UpClients : upPc'[v] = "commit" =>
          upObj'[upHas'[v]] # << >> /\ \A i \in 1..Len(upFiles') : upFiles'[i] # upHas'[v]
    BY <1>3, <1>9 DEF UpCommits
  <2>3. \A v, x \in UpClients :
          upPc'[v] = "commit" /\ upPc'[x] = "commit" /\ upHas'[v] = upHas'[x] => v = x
    BY <1>3, <1>9 DEF UpCommits
  <2> QED BY <2>1, <2>2, <2>3 DEF UpCommits
<1>11. UpRows'
  BY DEF UpRows
<1> QED BY <1>6, <1>7, <1>8, <1>10, <1>11, Zenon

\* GetUploader by hash and by ID, InitUploadTask and the row of the upload.
LEMMA UpBeginStep ==
  ASSUME UpInv, NEW u \in UpClients,
         GetUploader(u) \/ SaveTempFile(u) \/ \E t \in Tasks : GetUploaderByID(u, t) \/ InitUploadTask(u, t)
  PROVE  UpInv'
<1> USE DEF UpInv, UpGo
<1>t. UpTypeOK /\ Tasks \subseteq 0..UpMaxTasks /\ 0 \in 0..UpMaxTasks /\ 0 \notin Tasks
  BY UpAssumption DEF Tasks
<1>h. upHas[u] \in 0..UpMaxTasks /\ upHas = [upHas EXCEPT ![u] = upHas[u]]
  BY DEF UpTypeOK
<1>q. upTemp \in Seq(Tasks) /\ upOpen \subseteq Tasks
  BY DEF UpTypeOK
<1>1. CASE GetUploader(u)
  <2> USE <1>1 DEF GetUploader, cosVars, dbVars
  <2>1. GetTempFileByHash # 0 => GetTempFileByHash \in Tasks
    BY <1>q, HeadTailProperties DEF GetTempFileByHash
  <2>2. upPc[u] = "idle"
    OBVIOUS
  <2>3. CASE GetTempFileByHash = 0
    BY <2>2, <2>3, <1>h, <1>q, UpMoves
  <2>4. CASE GetTempFileByHash # 0
    BY <2>1, <2>2, <2>4, <1>t, <1>q, UpMoves, ZenonT(60)
  <2> QED BY <2>3, <2>4
<1>2. CASE SaveTempFile(u)
  <2> USE <1>2 DEF SaveTempFile, cosVars
  <2>1. upPc[u] = "save" /\ upHas[u] \in Tasks
    BY SMTT(60) DEF UpWorks
  <2>2. Append(upTemp, upHas[u]) \in Seq(Tasks)
    BY <2>1, <1>q, AppendProperties
  <2>3. CASE UpGo(u, "save", "ready") /\ upTemp' = Append(upTemp, upHas[u]) /\ UNCHANGED upHas
    BY <2>1, <2>2, <2>3, <1>h, <1>q, UpMoves, Zenon
  <2>4. CASE UpGo(u, "save", "idle") /\ upHas' = [upHas EXCEPT ![u] = 0] /\ UNCHANGED upTemp
    BY <2>1, <2>4, <1>t, <1>q, UpMoves, Zenon
  <2> QED BY <2>3, <2>4, SMTT(60)
<1>3. ASSUME NEW t \in Tasks, GetUploaderByID(u, t) PROVE UpInv'
  BY <1>3, <1>t, <1>q, UpMoves, Zenon DEF GetUploaderByID, cosVars, dbVars
<1>4. ASSUME NEW t \in Tasks, InitUploadTask(u, t) PROVE UpInv'
  <2> USE <1>4 DEF InitUploadTask, dbVars
  <2>1. upObj[t] = << >> /\ upPc[u] = "init"
    BY DEF Started
  <2>2. CASE UpGo(u, "init", "save") /\ upOpen' = upOpen \cup {t} /\ upHas' = [upHas EXCEPT ![u] = t]
    BY <2>1, <2>2, <1>t, <1>q, UpMoves, ZenonT(60)
  <2>3. CASE UpGo(u, "init", "idle") /\ UNCHANGED <<upOpen, upHas>>
    BY <2>1, <2>3, <1>h, <1>q, UpMoves, Zenon
  <2> QED BY <2>2, <2>3, SMTT(60)
<1> QED BY <1>1, <1>2, <1>3, <1>4

\* ListTrunks: a client is told to complete the upload when it has seen all.
LEMMA UpListStep ==
  ASSUME UpInv, NEW u \in UpClients, ListTrunks(u)
  PROVE  UpInv'
<1> USE DEF UpInv, cosVars, dbVars
<1> DEFINE have == ListUploadExistsTrunk(upHas[u])
<1>1. upPc[u] = "ready" /\ upHas[u] \in Tasks /\ upTasks[upHas[u]] \in SUBSET (1..PartCount)
  BY DEF ListTrunks, UpTypeOK
<1>2. UNCHANGED <<upTasks, upOpen, upObj, upTemp, upFiles, upPc, upHas, upParts>>
  BY DEF ListTrunks
<1>3. Cardinality(have) = PartCount => 1..PartCount \subseteq upTasks[upHas[u]]
  BY <1>1, UpAllParts DEF ListUploadExistsTrunk
<1>4. u \in upTold' => Cardinality(have) = PartCount
  BY DEF ListTrunks
<1>5. upTold' \ {u} = upTold \ {u} /\ upTold' \subseteq UpClients
  BY DEF ListTrunks, UpTypeOK
<1>6. \E N \in SUBSET (0..(PartCount - 1)) : upNeed' = [upNeed EXCEPT ![u] = N]
  BY Zenon DEF ListTrunks, getNeedUploadPartNumbers
<1>7. UpTypeOK'
  BY <1>2, <1>5, <1>6, UpPartCount DEF UpTypeOK
<1>8. UpWorks'
  BY <1>2, <1>6, Zenon DEF UpWorks, UpTypeOK
<1>9. UpSeen'
  BY <1>1, <1>2, <1>3, <1>4, <1>5, SMTT(60) DEF UpSeen
<1>10. UpCommits' /\ UpRows'
  BY <1>2 DEF UpCommits, UpRows
<1> QED BY <1>7, <1>8, <1>9, <1>10

\* UploadPart: an upload only gains parts.
LEMMA UpPartStep ==
  ASSUME UpInv, NEW u \in UpClients, NEW n \in 0..PartCount, UploadPart(u, n)
  PROVE  UpInv'
<1> USE DEF UpInv, dbVars
<1> DEFINE t == upHas[u]
<1>1. t \in Tasks /\ n \in 0..(PartCount - 1)
  BY DEF UploadPart, UpTypeOK, UpWorks
<1>2. n + 1 \in 1..PartCount
  BY <1>1, UpPartCount
<1>3. UNCHANGED <<upOpen, upObj, upTemp, upFiles, upPc, upHas, upParts, upTold>>
  BY Zenon DEF UploadPart
<1>4. upTasks' = [upTasks EXCEPT ![t] = @ \cup {n + 1}]
  BY Zenon DEF UploadPart, UploadTrunk
<1>5. \A x \in Tasks : upTasks[x] \subseteq upTasks'[x]
  BY <1>4, Zenon DEF UpTypeOK
<1>6. upTasks' \in [Tasks -> SUBSET (1..PartCount)]
  BY <1>2, <1>4, Zenon DEF UpTypeOK
<1>7. \E N \in SUBSET (0..(PartCount - 1)) : upNeed' = [upNeed EXCEPT ![u] = N]
  BY Zenon DEF UploadPart, UpWorks
<1>8. UpTypeOK'
  BY <1>3, <1>6, <1>7, UpPartCount, SMTT(60) DEF UpTypeOK
<1>9. UpWorks'
  BY <1>3, <1>7, Zenon DEF UpWorks, UpTypeOK
<1>10. UpSeen'
  <2>1. \A v \in upTold : upHas[v] \in Tasks
    BY Zenon DEF UpSeen, UpWorks, UpTypeOK
  <2> QED BY <1>3, <1>5, <2>1 DEF UpSeen
<1>11. UpCommits' /\ UpRows'
  BY <1>3 DEF UpCommits, UpRows
<1> QED BY <1>8, <1>9, <1>10, <1>11

\* CompleteUploadTask lists the parts.
LEMMA UpCompleteListStep ==
  ASSUME UpInv, NEW u \in UpClients, CompleteList(u)
  PROVE  UpInv'
<1> USE DEF UpInv, cosVars, dbVars
<1>1. /\ upHas[u] \in Tasks /\ upTasks[upHas[u]] \in SUBSET (1..PartCount) /\ upPc[u] = "ready"
      /\ upPc' = [upPc EXCEPT ![u] = "complete"]
  BY DEF CompleteList, UpGo, UpTypeOK
<1>2. upParts' = [upParts EXCEPT ![u] = FirstParts(upTasks[upHas[u]])]
  BY DEF CompleteList
<1>3. UNCHANGED <<upTasks, upOpen, upObj, upTemp, upFiles, upHas, upNeed, upTold>>
  BY Zenon DEF CompleteList
<1>4. \A v \in UpClients \ {u} : upPc'[v] = upPc[v] /\ upParts'[v] = upParts[v]
  BY <1>1, <1>2, Zenon DEF UpTypeOK
<1>5. upPc'[u] = "complete" /\ upParts'[u] = FirstParts(upTasks[upHas[u]])
  BY <1>1, <1>2, Zenon DEF UpTypeOK
<1>6. FirstParts(upTasks[upHas[u]]) \in SUBSET (1..PartCount)
  BY <1>1, UpFirstParts, Zenon
<1>7. UpTypeOK'
  BY <1>1, <1>2, <1>3, <1>6, Zenon DEF UpTypeOK
<1>8. UpWorks'
  BY <1>1, <1>3, <1>4, Zenon DEF UpWorks
<1>9. UpSeen'
  <2>1. ASSUME PartCount =< UpPage, u \in upTold PROVE upParts'[u] = 1..PartCount
    <3>1. upTasks[upHas[u]] = 1..PartCount
      BY <1>1, <2>1, Zenon DEF UpSeen
    <3> QED BY <1>5, <2>1, <3>1, UpFirstParts, Zenon
  <2>2. ASSUME NEW v \in upTold', v # u
        PROVE  upPc'[v] = upPc[v] /\ upParts'[v] = upParts[v] /\ v \in upTold
    BY <1>3, <1>4, <2>2, SMTT(60) DEF UpTypeOK
  <2> QED BY <1>3, <1>5, <2>1, <2>2, ZenonT(60) DEF UpSeen
<1>10. UpCommits' /\ UpRows'
  BY <1>3, <1>4, <1>5 DEF UpCommits, UpRows
<1> QED BY <1>7, <1>8, <1>9, <1>10

\* CompleteUploadTask makes the object, for one client only.
LEMMA UpCompleteStep ==
  ASSUME UpInv, NEW u \in UpClients, CompleteUploadTask(u)
  PROVE  UpInv'
<1> USE DEF UpInv
<1> DEFINE t == upHas[u]
<1>1. CASE UpGiveUp(u) /\ UNCHANGED <<upOpen, upObj>>
  BY <1>1, UpGiveUpStep DEF CompleteUploadTask, cosVars
<1>2. CASE ~(UpGiveUp(u) /\ UNCHANGED <<upOpen, upObj>>)
  <2> DEFINE o == InOrder(upParts[u])
  <2>1. /\ t \in upOpen /\ t \in Tasks /\ upParts[u] \in SUBSET (1..PartCount) /\ upParts[u] # {}
        /\ upPc[u] = "complete"
    BY <1>2 DEF CompleteUploadTask, UpTypeOK
  <2>2. /\ upOpen' = upOpen \ {t} /\ upObj' = [upObj EXCEPT ![t] = o]
        /\ upPc' = [upPc EXCEPT ![u] = "commit"]
    BY <1>2 DEF CompleteUploadTask
  <2>3. UNCHANGED <<upTasks, upTemp, upFiles, upHas, upNeed, upParts, upTold>>
    BY <1>2 DEF CompleteUploadTask, dbVars
  <2>4. o \in Seq(1..PartCount) /\ o # << >>
    BY <2>1, UpInOrder
  <2>5. upParts[u] = 1..PartCount => o = [i \in 1..PartCount |-> i]
    BY <2>1, UpInOrder, Zenon
  <2> HIDE DEF o
  <2>6. upObj'[t] = o /\ \A x \in Tasks \ {t} : upObj'[x] = upObj[x]
    BY <2>1, <2>2 DEF UpTypeOK
  <2>7. upPc'[u] = "commit" /\ \A v \in UpClients \ {u} : upPc'[v] = upPc[v]
    BY <2>2, SMTT(60) DEF UpTypeOK
  <2>8. upObj[t] = << >>
    BY <2>1 DEF UpCommits
  <2>9. \A v \in UpClients : upPc[v] = "commit" => upHas[v] # t /\ upHas[v] \in Tasks
    BY <2>8 DEF UpCommits, UpWorks
  <2>10. \A i \in 1..Len(upFiles) : upFiles[i] # t /\ upFiles[i] \in Tasks
    <3>1. \A i \in 1..Len(upFiles) : upFiles[i] \in Tasks
      BY ElementOfSeq DEF UpTypeOK
    <3> QED BY <2>8, <3>1 DEF UpRows
  <2>11. UpTypeOK'
    BY <2>2, <2>3, <2>4, ZenonT(60) DEF UpTypeOK
  <2>12. UpWorks'
    BY <2>1, <2>3, <2>7, SMTT(60) DEF UpWorks
  <2>13. UpSeen'
    <3>1. ASSUME NEW v \in upTold', v # u
          PROVE  /\ v \in upTold /\ v \in UpClients /\ upPc'[v] = upPc[v]
                 /\ upPc[v] = "commit" => upObj'[upHas[v]] = upObj[upHas[v]]
      BY <2>3, <2>6, <2>7, <2>9, <3>1, SMTT(60) DEF UpTypeOK
    <3>2. PartCount =< UpPage /\ u \in upTold => upObj'[t] = [i \in 1..PartCount |-> i]
      BY <2>1, <2>5, <2>6, ZenonT(60) DEF UpSeen
    <3>3. ASSUME NEW v \in upTold', v # u
          PROVE  /\ upPc'[v] \in {"ready", "complete", "commit"}
                 /\ PartCount =< UpPage =>
                      /\ 1..PartCount \subseteq upTasks'[upHas'[v]]
                      /\ upPc'[v] = "complete" => upParts'[v] = 1..PartCount
                      /\ upPc'[v] = "commit" => upObj'[upHas'[v]] = [i \in 1..PartCount |-> i]
      BY <2>3, <3>1, <3>3 DEF UpSeen
    <3>4. u \in upTold => (PartCount =< UpPage => 1..PartCount \subseteq upTasks[t])
      BY ZenonT(60) DEF UpSeen
    <3> QED BY <2>3, <2>7, <3>2, <3>3, <3>4, SMTT(60) DEF UpSeen
  <2>14. UpCommits'
    <3>1. \A x \in upOpen' : upObj'[x] = << >>
      BY <2>2, <2>6, SMTT(60) DEF UpCommits, UpTypeOK
    <3>2. \A v \in UpClients \ {u} : upPc'[v] = "commit" =>
            upObj'[upHas'[v]] # << >> /\ \A i \in 1..Len(upFiles') : upFiles'[i] # upHas'[v]
      BY <2>3, <2>6, <2>7, <2>9, SMTT(60) DEF UpCommits
    <3>3. upObj'[upHas'[u]] # << >> /\ \A i \in 1..Len(upFiles') : upFiles'[i] # upHas'[u]
      BY <2>3, <2>4, <2>6, <2>10, SMTT(60)
    <3>4. \A v, x \in UpClients :
            upPc'[v] = "commit" /\ upPc'[x] = "commit" /\ upHas'[v] = upHas'[x] => v = x
      BY <2>3, <2>7, <2>9, SMTT(60) DEF UpCommits
    <3> QED BY <3>1, <3>2, <3>3, <3>4, SMTT(60) DEF UpCommits
  <2>15. UpRows'
    BY <2>3, <2>6, <2>10, SMTT(60) DEF UpRows
  <2> QED BY <2>11, <2>12, <2>13, <2>14, <2>15, SMTT(60)
<1> QED BY <1>1, <1>2, SMTT(60)

\* The transaction of CompleteUpload.
LEMMA UpCommitStep ==
  ASSUME UpInv, NEW u \in UpClients, CommitUpload(u)
  PROVE  UpInv'
<1> USE DEF UpInv
<1> DEFINE t == upHas[u]
<1>1. CASE UNCHANGED dbVars
  BY <1>1, UpGiveUpStep, SMTT(60) DEF CommitUpload
<1>2. CASE ~UNCHANGED dbVars
  <2>1. /\ upPc[u] = "commit" /\ upFiles' = Append(upFiles, t) /\ upTemp' = DropRow(upTemp, t)
        /\ UpGiveUp(u) /\ UNCHANGED <<upTasks, upOpen, upObj>>
    BY <1>2, SMTT(60) DEF CommitUpload, cosVars
  <2>2. t \in Tasks /\ upObj[t] # << >> /\ \A i \in 1..Len(upFiles) : upFiles[i] # t
    BY <2>1 DEF UpWorks, UpCommits
  <2>3. upTemp' \in Seq(Tasks)
    BY <2>1, DropRowIsSeq, SMTT(60) DEF UpTypeOK
  <2>4. /\ upFiles' \in Seq(Tasks) /\ Len(upFiles) \in Nat /\ Len(upFiles') = Len(upFiles) + 1
        /\ \A i \in 1..Len(upFiles) : upFiles'[i] = upFiles[i]
        /\ upFiles'[Len(upFiles) + 1] = t
    BY <2>1, <2>2, AppendProperties, LenProperties, SMTT(60) DEF UpTypeOK
  <2>5. UpTypeOK'
    BY <2>1, <2>3, <2>4, UpPartCount, UpAssumption, SMTT(60) DEF UpTypeOK, UpGiveUp
  <2>6. UpWorks'
    BY <2>1, Zenon DEF UpWorks, UpTypeOK, UpGiveUp
  <2>7. UpSeen'
    BY <2>1, Zenon DEF UpSeen, UpTypeOK, UpGiveUp
  <2>8. \A v \in UpClients : upPc'[v] = "commit" =>
          v # u /\ upPc[v] = "commit" /\ upHas'[v] = upHas[v] /\ upHas[v] # t
    BY <2>1, Zenon DEF UpTypeOK, UpGiveUp, UpCommits
  <2>9. UpCommits'
    <3>1. ASSUME NEW v \in UpClients, upPc'[v] = "commit", NEW i \in 1..Len(upFiles')
          PROVE  upFiles'[i] # upHas'[v]
      <4>1. i \in 1..Len(upFiles) \/ i = Len(upFiles) + 1
        BY <2>4, SMTT(60)
      <4> QED BY <2>4, <2>8, <3>1, <4>1, SMTT(60) DEF UpCommits
    <3> QED BY <2>1, <2>8, <3>1, ZenonT(60) DEF UpCommits
  <2>10. UpRows'
    <3>1. \A i \in 1..Len(upFiles') : i \in 1..Len(upFiles) \/ i = Len(upFiles) + 1
      BY <2>4, SMTT(60)
    <3>2. \A i, j \in 1..Len(upFiles') : upFiles'[i] = upFiles'[j] => i = j
      BY <2>2, <2>4, <3>1, ZenonT(60) DEF UpRows
    <3>3. \A i \in 1..Len(upFiles') : upObj'[upFiles'[i]] # << >>
      BY <2>1, <2>2, <2>4, <3>1, Zenon DEF UpRows
    <3> QED BY <3>2, <3>3, Zenon DEF UpRows
  <2> QED BY <2>5, <2>6, <2>7, <2>9, <2>10
<1> QED BY <1>1, <1>2

\* Every step of the clients keeps the invariant.
LEMMA UpInvStep == UpInv /\ [UpNext]_uploadVars => UpInv'
<1> SUFFICES ASSUME UpInv, [UpNext]_uploadVars PROVE UpInv'
  BY Zenon
<1>1. CASE UNCHANGED uploadVars
  BY <1>1, ZenonT(60) DEF uploadVars, UpInv, UpTypeOK, UpWorks, UpSeen, UpCommits, UpRows
<1>2. ASSUME NEW u \in UpClients, StopUpload(u) PROVE UpInv'
  BY <1>2, UpGiveUpStep, Zenon DEF StopUpload
<1>3. CASE UpNext
  BY <1>2, <1>3, UpBeginStep, UpListStep, UpPartStep, UpCompleteListStep, UpCompleteStep,
     UpCommitStep, Zenon DEF UpNext
<1> QED BY <1>1, <1>3, Zenon

\* Uploads stay whole, for any number of clients, of parts and of uploads and
\* for any sizes: a client that was told to complete the upload completes all
\* of the file when a page of COS lists it, and an upload becomes at most one
\* file row, with its object (uploader.go:138-209, tencent_cos.go:155-212).
THEOREM UploadsStayWhole == UpSpec => []UploadsWhole
<1>1. UpInv => UploadsWhole
  <2> SUFFICES ASSUME UpInv PROVE UploadsWhole
    BY Zenon
  <2>1. ToldMeansWhole
    BY Zenon DEF UpInv, UpSeen, ToldMeansWhole
  <2>2. DOMAIN upFiles = 1..Len(upFiles)
    BY LenProperties, Zenon DEF UpInv, UpTypeOK
  <2>3. OneFilePerUpload
    BY <2>2, Zenon DEF UpInv, UpRows, OneFilePerUpload
  <2> QED BY <2>1, <2>3, Zenon DEF UploadsWhole
<1> QED BY <1>1, UpInvInit, UpInvStep, PTL DEF UpSpec

-----------------------------------------------------------------------------
(* Prompts and their versions.                                             *)

\* What the type invariant says of one table.
LEMMA PdRowTypes ==
  ASSUME PdTypeOK, NEW t \in Tables
  PROVE  /\ pdRows[t] \in Seq(Rows) /\ Len(pdRows[t]) \in Nat /\ Ids(t) = 1..Len(pdRows[t])
         /\ \A i \in Ids(t) : pdRows[t][i] \in Rows
<1>1. pdRows[t] \in Seq(Rows)
  BY Zenon DEF PdTypeOK
<1> QED BY <1>1, LenProperties, ElementOfSeq, Zenon DEF Ids

\* A list of rows by their IDs names rows of the set it was made from, each at
\* most once.
LEMMA PdById ==
  ASSUME PdTypeOK, NEW t \in Tables, NEW S \in SUBSET Ids(t)
  PROVE  /\ ById(S) \in Seq(S) /\ Len(ById(S)) \in Nat
         /\ \A i \in Range(ById(S)) : i \in S
<1>1. S \in SUBSET Nat
  BY PdRowTypes, SMTT(60)
<1>2. IsFiniteSet(S)
  <2>1. IsFiniteSet(Ids(t))
    <3>1. 1 \in Int /\ Len(pdRows[t]) \in Int
      BY PdRowTypes, SMTT(60)
    <3>2. IsFiniteSet(1..Len(pdRows[t]))
      BY <3>1, FS_Interval, Zenon
    <3> QED BY <3>2, PdRowTypes, Zenon
  <2> QED BY <2>1, FS_Subset, Zenon
<1>3. \E s \in [1..Cardinality(S) -> S] : \A i, j \in DOMAIN s : i < j => s[i] < s[j]
  BY <1>1, <1>2, AscendingExists, Zenon DEF Ascending
<1>4. ById(S) \in [1..Cardinality(S) -> S]
  BY <1>3, Zenon DEF ById
<1>5. Cardinality(S) \in Nat
  BY <1>2, FS_CardinalityType
<1>6. ById(S) \in Seq(S) /\ Len(ById(S)) \in Nat
  BY <1>4, <1>5, FunctionIsSeq
<1>7. \A i \in Range(ById(S)) : i \in S
  BY <1>4 DEF Range
<1> QED BY <1>6, <1>7, Zenon

\* Both tables are empty to begin with.
LEMMA PdInitType == PdInit => PdTypeOK
<1> SUFFICES ASSUME PdInit PROVE PdTypeOK
  OBVIOUS
<1>1. << >> \in Seq(Rows) /\ Len(<< >>) = 0
  BY EmptySeq, SMTT(60)
<1> QED BY <1>1, PdAssumption DEF PdInit, PdTypeOK, Tables, NoAns, Plain

\* The ways of the operations.
PdHow(way) == way.how \in {"plain", "upsert", "unscoped"}

\* A write that does to the deleted rows what its way allows.
LEMMA PdStore ==
  ASSUME PdTypeOK, NEW t \in Tables, NEW rows \in Seq(Rows),
         NEW way, PdHow(way), Store(t, rows, way),
         \A i \in Ids(t) : pdRows[t][i].del => Spared(t, i, rows[i], way)
  PROVE  PdTypeOK' /\ DeletedStep
<1>1. /\ pdRows' = [pdRows EXCEPT ![t] = rows] /\ pdWay' = way /\ pdOps > 0 /\ pdOps' = pdOps - 1
      /\ Len(rows) =< PdMaxId /\ pdAns' = NoAns /\ pdDrawn' = {} /\ pdPage' = pdPage /\ pdLook' = pdLook
  BY DEF Store, NoAnswer
<1>2. pdRows \in [Tables -> Seq(Rows)] /\ \A s \in Tables : Len(pdRows[s]) =< PdMaxId
  BY DEF PdTypeOK
<1>3. pdRows'[t] = rows /\ \A s \in Tables : s # t => pdRows'[s] = pdRows[s]
  BY <1>1, <1>2
<1>4. pdRows' \in [Tables -> Seq(Rows)]
  BY <1>1, <1>2, SMTT(60)
<1>5. PdTypeOK'
  <2>1. pdOps' \in 0..PdMaxOps
    BY <1>1, PdAssumption DEF PdTypeOK
  <2>2. pdAns'.t \in Tables
    BY <1>1 DEF NoAns, Tables
  <2>3. \A s \in Tables : Len(pdRows'[s]) =< PdMaxId
    BY <1>1, <1>2, <1>3
  <2> QED BY <1>1, <1>4, <2>1, <2>2, <2>3, Zenon DEF PdTypeOK, PdHow
<1>6. ASSUME NEW s \in Tables, NEW i \in Ids(s), pdRows[s][i].del
      PROVE  Spared(s, i, pdRows'[s][i], pdWay')
  <2>1. CASE s = t
    BY <1>1, <1>3, <1>6, <2>1, Zenon
  <2>2. CASE s # t
    BY <1>3, <2>2, Zenon DEF Spared
  <2> QED BY <2>1, <2>2, Zenon
<1>7. pdAns'.ids = << >> /\ pdAns'.limit = 0
  BY <1>1 DEF NoAns
<1>8. Range(pdAns'.ids) = {}
  BY <1>7 DEF Range
<1> QED BY <1>1, <1>5, <1>6, <1>7, <1>8, Zenon DEF DeletedStep

\* The same for a write that changes some of the rows.
LEMMA PdChange ==
  ASSUME PdTypeOK, NEW t \in Tables, NEW ids, NEW rows \in [Ids(t) -> Rows],
         NEW way, PdHow(way), Store(t, rows, way),
         \A i \in Ids(t) \ ids : rows[i] = pdRows[t][i],
         \A i \in Ids(t) \cap ids : pdRows[t][i].del => Spared(t, i, rows[i], way)
  PROVE  PdTypeOK' /\ DeletedStep
<1>1. rows \in Seq(Rows)
  BY PdRowTypes, FunctionIsSeq
<1>2. \A i \in Ids(t) : pdRows[t][i].del => Spared(t, i, rows[i], way)
  BY Zenon DEF Spared
<1> QED BY <1>1, <1>2, PdStore, Zenon

\* Most steps are plain.
LEMMA PdPlain == PdHow(Plain)
BY Zenon DEF Plain, PdHow

\* The live rows among some IDs are rows, and not deleted.
LEMMA PdLive ==
  ASSUME NEW t \in Tables, NEW ids
  PROVE  Live(t, ids) \in SUBSET Ids(t) /\ \A i \in Live(t, ids) : ~pdRows[t][i].del
BY DEF Live, Scoped

\* A condition matches a deleted row only if it asks for them.
LEMMA PdMatching ==
  ASSUME NEW t \in Tables, NEW c
  PROVE  /\ Matching(t, c) \in SUBSET Ids(t)
         /\ \A i \in Matching(t, c) : pdRows[t][i].del => c.isDelete
BY Zenon DEF Matching, BuildCondition, PromptCondition, VersionCondition, Scoped

\* Inserts add rows behind the others.
LEMMA PdCreate ==
  ASSUME PdTypeOK, NEW t \in Tables, NEW batch \in Seq(Rows), CreateBatch(t, batch)
  PROVE  PdTypeOK' /\ DeletedStep
<1> DEFINE new == [i \in DOMAIN batch |-> Inserted(t, batch[i])]
           rows == pdRows[t] \o new
<1>1. Len(batch) \in Nat /\ DOMAIN batch = 1..Len(batch) /\ \A i \in DOMAIN batch : batch[i] \in Rows
  BY LenProperties, ElementOfSeq
<1>2. ASSUME NEW r \in Rows PROVE Inserted(t, r) \in Rows
  BY Zenon DEF Inserted, Rows
<1>3. new \in [1..Len(batch) -> Rows]
  BY <1>1, <1>2
<1>4. new \in Seq(Rows)
  BY <1>1, <1>3, FunctionIsSeq
<1>5. Store(t, rows, Plain)
  BY Zenon DEF CreateBatch
<1> HIDE DEF new
<1>6. rows \in Seq(Rows) /\ \A i \in 1..Len(pdRows[t]) : rows[i] = pdRows[t][i]
  BY <1>4, PdRowTypes, ConcatProperties, SMTT(60)
<1>7. \A i \in Ids(t) : rows[i] = pdRows[t][i]
  BY <1>6, PdRowTypes, Zenon
<1> HIDE DEF rows
<1>8. \A i \in Ids(t) : pdRows[t][i].del => Spared(t, i, rows[i], Plain)
  BY <1>7, Zenon DEF Spared
<1> QED BY <1>5, <1>6, <1>8, PdPlain, PdStore, Zenon

\* Updates by ID spare deleted rows.
LEMMA PdUpdate ==
  ASSUME PdTypeOK, NEW t \in Tables, NEW id
  PROVE  /\ UpdateByID(t, id, Row("", 2, 0)) => PdTypeOK' /\ DeletedStep
         /\ UpdateMap(t, id, 0) => PdTypeOK' /\ DeletedStep
<1> DEFINE ids == Live(t, {id})
<1>1. /\ \A i \in Ids(t) : pdRows[t][i] \in Rows
      /\ \A i \in Ids(t) \cap ids : ~pdRows[t][i].del
  BY PdRowTypes, PdLive, Zenon
<1>2. ASSUME UpdateByID(t, id, Row("", 2, 0)) PROVE PdTypeOK' /\ DeletedStep
  <2> DEFINE New(r) == [r EXCEPT !.key = IF Row("", 2, 0).key = "" THEN @ ELSE Row("", 2, 0).key,
                                 !.ref = IF Row("", 2, 0).ref = 0 THEN @ ELSE Row("", 2, 0).ref,
                                 !.st = IF Row("", 2, 0).st = 0 THEN @ ELSE Row("", 2, 0).st]
             rows == [i \in Ids(t) |-> IF i \in ids THEN New(pdRows[t][i]) ELSE pdRows[t][i]]
  <2>1. Store(t, rows, Plain)
    BY <1>2, Zenon DEF UpdateByID, Change
  <2>2. ASSUME NEW r \in Rows PROVE New(r) \in Rows
    BY Zenon DEF Rows, Row
  <2> HIDE DEF New, ids
  <2>3. rows \in [Ids(t) -> Rows] /\ \A i \in Ids(t) \ ids : rows[i] = pdRows[t][i]
    BY <1>1, <2>2, SMTT(60)
  <2> HIDE DEF rows
  <2> QED BY <1>1, <2>1, <2>3, PdPlain, PdChange, Zenon
<1>3. ASSUME UpdateMap(t, id, 0) PROVE PdTypeOK' /\ DeletedStep
  <2> DEFINE New(r) == [r EXCEPT !.st = 0]
             rows == [i \in Ids(t) |-> IF i \in ids THEN New(pdRows[t][i]) ELSE pdRows[t][i]]
  <2>1. Store(t, rows, Plain)
    BY <1>3 DEF UpdateMap, Change
  <2>2. ASSUME NEW r \in Rows PROVE New(r) \in Rows
    BY SMTT(60) DEF Rows
  <2> HIDE DEF New, ids
  <2>3. rows \in [Ids(t) -> Rows] /\ \A i \in Ids(t) \ ids : rows[i] = pdRows[t][i]
    BY <1>1, <2>2
  <2> HIDE DEF rows
  <2> QED BY <1>1, <2>1, <2>3, PdPlain, PdChange, Zenon
<1> QED BY <1>2, <1>3, Zenon

\* An update by condition touches deleted rows only when the condition asks
\* for them.
LEMMA PdUpdateBatch ==
  ASSUME PdTypeOK, NEW t \in Tables, NEW c, UpdateMapBatch(t, c, 0)
  PROVE  PdTypeOK' /\ DeletedStep
<1> DEFINE ids == Matching(t, c)
           New(r) == [r EXCEPT !.st = 0]
           rows == [i \in Ids(t) |-> IF i \in ids THEN New(pdRows[t][i]) ELSE pdRows[t][i]]
           way == IF c.isDelete THEN [Plain EXCEPT !.how = "unscoped"] ELSE Plain
<1>1. Store(t, rows, way)
  BY DEF UpdateMapBatch, Change
<1>2. ASSUME NEW r \in Rows PROVE New(r) \in Rows
  BY SMTT(60) DEF Rows
<1>3. \A i \in Ids(t) : pdRows[t][i] \in Rows
  BY PdRowTypes
<1>4. \A i \in ids : pdRows[t][i].del => c.isDelete
  BY PdMatching
<1>5. PdHow(way) /\ (c.isDelete => way.how = "unscoped")
  BY DEF Plain, PdHow
<1>6. ASSUME NEW r \in Rows PROVE New(r).del = r.del
  BY DEF Rows
<1> HIDE DEF New, ids, way
<1>7. /\ rows \in [Ids(t) -> Rows] /\ \A i \in Ids(t) \ ids : rows[i] = pdRows[t][i]
      /\ \A i \in Ids(t) \cap ids : rows[i] = New(pdRows[t][i])
  BY <1>2, <1>3
<1> HIDE DEF rows
<1>8. \A i \in Ids(t) \cap ids : pdRows[t][i].del => Spared(t, i, rows[i], way)
  BY <1>3, <1>4, <1>5, <1>6, <1>7, Zenon DEF Spared
<1> QED BY <1>1, <1>5, <1>7, <1>8, PdChange, Zenon

\* An entry of an upsert names row i, which is r.
PdNames(t, e, i, r) == i = e.id \/ (t = "prompt" /\ r.key = e.row.key)
PdEntry(e) == e.row \in Rows

\* One row of an upsert leaves the rows that it does not name.
LEMMA PdSaved ==
  ASSUME NEW t \in Tables, NEW rows \in Seq(Rows), NEW e, PdEntry(e)
  PROVE  /\ Saved(t, rows, e) \in Seq(Rows)
         /\ \A i \in DOMAIN rows : Saved(t, rows, e)[i] = rows[i] \/ PdNames(t, e, i, rows[i])
         /\ DOMAIN rows \subseteq DOMAIN Saved(t, rows, e)
<1> DEFINE hit == {i \in DOMAIN rows : i = e.id \/ (t = "prompt" /\ rows[i].key = e.row.key)}
           new == Inserted(t, e.row)
           over == [i \in DOMAIN rows |-> IF i \in hit THEN new ELSE rows[i]]
<1>1. new \in Rows
  BY Zenon DEF PdEntry, Inserted, Rows
<1>2. Len(rows) \in Nat /\ DOMAIN rows = 1..Len(rows) /\ \A i \in DOMAIN rows : rows[i] \in Rows
  BY LenProperties, ElementOfSeq, Zenon
<1>3. Saved(t, rows, e) = IF hit = {} THEN Append(rows, new) ELSE over
  BY Zenon DEF Saved
<1>4. \A i \in hit : PdNames(t, e, i, rows[i])
  BY Zenon DEF PdNames
<1> HIDE DEF new, hit
<1>5. CASE hit = {}
  <2>1. Saved(t, rows, e) = Append(rows, new)
    BY <1>3, <1>5, Zenon
  <2>2. /\ Append(rows, new) \in Seq(Rows) /\ Len(Append(rows, new)) = Len(rows) + 1
        /\ \A i \in 1..Len(rows) : Append(rows, new)[i] = rows[i]
    BY <1>1, AppendProperties
  <2>3. DOMAIN Append(rows, new) = 1..(Len(rows) + 1)
    BY <2>2, LenProperties, Zenon
  <2>4. 1..Len(rows) \subseteq 1..(Len(rows) + 1)
    BY <1>2, SMT
  <2> QED BY <1>2, <2>1, <2>2, <2>3, <2>4, Zenon
<1>6. CASE hit # {}
  <2>1. Saved(t, rows, e) = over
    BY <1>3, <1>6, Zenon
  <2>2. /\ over \in [1..Len(rows) -> Rows] /\ DOMAIN over = DOMAIN rows
        /\ \A i \in DOMAIN rows : i \in hit \/ over[i] = rows[i]
    BY <1>1, <1>2, SMTT(60)
  <2> HIDE DEF over
  <2>3. over \in Seq(Rows)
    BY <1>2, <2>2, FunctionIsSeq
  <2> QED BY <1>4, <2>1, <2>2, <2>3, Zenon
<1> QED BY <1>5, <1>6, Zenon

\* What a caller saves: one entry or two, that name rows.
LEMMA PdBatches ==
  ASSUME NEW batch \in Batches
  PROVE  /\ Len(batch) \in {1, 2} /\ \A i \in 1..Len(batch) : batch[i].row \in Rows
         /\ [i \in 1..Len(batch) |-> batch[i].row] \in Seq(Rows)
<1>1. \A e \in Entries : e.row \in Rows
  <2> SUFFICES ASSUME NEW i \in 0..PdMaxId, NEW k \in PdKeys
               PROVE  [id |-> i, row |-> Row(k, 0, 0)].row \in Rows
    BY DEF Entries
  <2> QED BY Zenon, 0 \in Nat DEF Row, Rows
<1>2. Len(batch) \in {1, 2} /\ \A i \in 1..Len(batch) : batch[i] \in Entries
  BY DEF Batches
<1>3. \A i \in 1..Len(batch) : batch[i].row \in Rows
  BY <1>1, <1>2, Zenon
<1>4. [i \in 1..Len(batch) |-> batch[i].row] \in [1..Len(batch) -> Rows] /\ Len(batch) \in Nat
  BY <1>2, <1>3
<1> QED BY <1>2, <1>3, <1>4, FunctionIsSeq, Zenon

\* An upsert changes the deleted rows that it names, and no others.
LEMMA PdSave ==
  ASSUME PdTypeOK, NEW t \in Tables, NEW batch \in Batches, NEW b,
         SaveBatchOnConflict(t, batch, b)
  PROVE  PdTypeOK' /\ DeletedStep
<1> DEFINE n == Len(batch)
           first == Saved(t, pdRows[t], batch[1])
           both == Saved(t, first, batch[2])
           rows == IF n = 1 THEN first ELSE both
           way == [how |-> "upsert", ids |-> {batch[i].id : i \in 1..n},
                   keys |-> {batch[i].row.key : i \in 1..n}]
           new == [i \in 1..n |-> batch[i].row]
<1>1. Store(t, rows, way) \/ CreateBatch(t, new)
  BY Zenon DEF SaveBatchOnConflict
<1>2. n \in {1, 2} /\ (\A i \in 1..n : batch[i].row \in Rows) /\ new \in Seq(Rows)
  BY PdBatches, Zenon
<1>3. /\ way.how = "upsert" /\ PdHow(way) /\ \A i \in 1..n : batch[i].id \in way.ids
      /\ \A i \in 1..n : batch[i].row.key \in way.keys
  BY Zenon DEF PdHow
<1>4. 1 \in 1..n /\ (n # 1 => 2 \in 1..n)
  BY <1>2
<1>5. pdRows[t] \in Seq(Rows) /\ Ids(t) = DOMAIN pdRows[t]
  BY PdRowTypes, Zenon DEF Ids
<1> HIDE DEF n, way, new
<1>6. /\ first \in Seq(Rows) /\ Ids(t) \subseteq DOMAIN first
      /\ \A i \in Ids(t) : first[i] = pdRows[t][i] \/ PdNames(t, batch[1], i, pdRows[t][i])
  <2>1. PdEntry(batch[1])
    BY <1>2, <1>4, Zenon DEF PdEntry
  <2> QED BY <1>5, <2>1, PdSaved, Zenon
<1>7. \A i \in Ids(t) : first[i] = pdRows[t][i] \/ Spared(t, i, first[i], way)
  BY <1>3, <1>4, <1>6, Zenon DEF Spared, PdNames
<1>8. ASSUME NEW i \in Ids(t), NEW r, Spared(t, i, r, way), r # pdRows[t][i], NEW s
      PROVE  Spared(t, i, s, way)
  BY <1>3, <1>8, Zenon DEF Spared
<1> HIDE DEF first
<1>9. ASSUME n # 1
      PROVE  both \in Seq(Rows) /\ \A i \in Ids(t) : Spared(t, i, both[i], way)
  <2>1. PdEntry(batch[2])
    BY <1>2, <1>4, <1>9, Zenon DEF PdEntry
  <2>2. /\ both \in Seq(Rows)
        /\ \A i \in DOMAIN first : both[i] = first[i] \/ PdNames(t, batch[2], i, first[i])
    BY <1>6, <2>1, PdSaved, Zenon
  <2> HIDE DEF both
  <2>3. ASSUME NEW i \in Ids(t) PROVE Spared(t, i, both[i], way)
    <3>1. CASE first[i] = pdRows[t][i]
      BY <1>3, <1>4, <1>6, <1>9, <2>2, <3>1, Zenon DEF Spared, PdNames
    <3>2. CASE first[i] # pdRows[t][i]
      BY <1>7, <1>8, <3>2, Zenon
    <3> QED BY <3>1, <3>2, Zenon
  <2> QED BY <2>2, <2>3, Zenon
<1>10. rows \in Seq(Rows) /\ \A i \in Ids(t) : Spared(t, i, rows[i], way)
  <2>1. CASE n = 1
    BY <1>6, <1>7, <2>1, Zenon DEF Spared
  <2> QED BY <1>9, <2>1, Zenon
<1> HIDE DEF rows
<1>11. CASE Store(t, rows, way)
  BY <1>3, <1>10, <1>11, PdStore, Zenon
<1>12. CASE CreateBatch(t, new)
  BY <1>2, <1>12, PdCreate, Zenon
<1> QED BY <1>1, <1>11, <1>12, Zenon

\* A delete marks live rows only.
LEMMA PdDelete ==
  ASSUME PdTypeOK, NEW t \in Tables, NEW S, DeleteByIDs(t, S)
  PROVE  PdTypeOK' /\ DeletedStep
<1> DEFINE ids == Live(t, S)
           New(r) == [r EXCEPT !.del = TRUE]
           rows == [i \in Ids(t) |-> IF i \in ids THEN New(pdRows[t][i]) ELSE pdRows[t][i]]
<1>1. Store(t, rows, Plain)
  BY DEF DeleteByIDs, Change
<1>2. ASSUME NEW r \in Rows PROVE New(r) \in Rows
  BY ZenonT(60) DEF Rows
<1>3. /\ \A i \in Ids(t) : pdRows[t][i] \in Rows
      /\ \A i \in Ids(t) \cap ids : ~pdRows[t][i].del
  BY PdRowTypes, PdLive, SMTT(60)
<1> HIDE DEF New, ids
<1>4. rows \in [Ids(t) -> Rows] /\ \A i \in Ids(t) \ ids : rows[i] = pdRows[t][i]
  BY <1>2, <1>3, SMTT(60)
<1> HIDE DEF rows
<1> QED BY <1>1, <1>3, <1>4, PdPlain, PdChange, Zenon

\* A query that answers with a list.
LEMMA PdAnswer ==
  ASSUME PdTypeOK, NEW t \in Tables, NEW ids, NEW c, NEW limit, Answer(t, ids, c, limit),
         pdPage' \in SUBSET pdPage, limit = 0 \/ Len(ids) =< limit,
         \A i \in Range(ids) : pdRows[t][i].del => c.isDelete
  PROVE  PdTypeOK' /\ DeletedStep
<1>1. /\ pdAns'.t = t /\ pdAns'.ids = ids /\ pdAns'.limit = limit /\ pdDrawn' = {}
      /\ pdWay' = Plain /\ pdRows' = pdRows /\ pdOps' = pdOps /\ pdLook' = pdLook
  BY DEF Answer
<1>2. \A i \in Range(pdAns'.ids) : pdRows[pdAns'.t][i].del => pdAns'.deleted
  BY SMTT(60) DEF Answer
<1>3. PdTypeOK'
  BY <1>1, PdPlain, Zenon DEF PdTypeOK, PdHow
<1> QED BY <1>1, <1>2, <1>3, SMTT(60) DEF DeletedStep, Spared

\* Queries change no row and list no deleted one unasked.
LEMMA PdQueries ==
  ASSUME PdTypeOK, NEW t \in Tables, NEW c
  PROVE  /\ GetListByCond(t, c) => PdTypeOK' /\ DeletedStep
         /\ GetByCond(t, c) => PdTypeOK' /\ DeletedStep
         /\ \A S : GetByIDs(t, S) => PdTypeOK' /\ DeletedStep
<1>1. /\ Matching(t, c) \in SUBSET Ids(t)
      /\ \A i \in Matching(t, c) : pdRows[t][i].del => c.isDelete
  BY PdMatching
<1>2. ASSUME GetListByCond(t, c) PROVE PdTypeOK' /\ DeletedStep
  <2>1. \A i \in Range(ById(Matching(t, c))) : pdRows[t][i].del => c.isDelete
    BY <1>1, PdById
  <2> QED BY <1>2, <2>1, PdAnswer DEF GetListByCond
<1>3. ASSUME GetByCond(t, c) PROVE PdTypeOK' /\ DeletedStep
  <2>1. CASE Answer(t, << >>, c, 0)
    <3>1. Range(<< >>) = {}
      BY DEF Range
    <3> QED BY <1>3, <2>1, <3>1, PdAnswer DEF GetByCond
  <2>2. ASSUME NEW i \in Matching(t, c), Answer(t, <<i>>, c, 0) PROVE PdTypeOK' /\ DeletedStep
    <3>1. Range(<<i>>) = {i}
      BY DEF Range
    <3> QED BY <1>1, <1>3, <2>2, <3>1, PdAnswer, SMTT(60) DEF GetByCond
  <2> QED BY <1>3, <2>1, <2>2, Zenon DEF GetByCond
<1>4. ASSUME NEW S, GetByIDs(t, S) PROVE PdTypeOK' /\ DeletedStep
  <2>1. \A i \in Range(ById(Live(t, S))) : ~pdRows[t][i].del
    BY PdLive, PdById, SMTT(60)
  <2> QED BY <1>4, <2>1, PdAnswer, Zenon DEF GetByIDs
<1> QED BY <1>2, <1>3, <1>4

\* The page that follows a count, perhaps after writes of others.
LEMMA PdPageFind ==
  ASSUME PdTypeOK, NEW limit \in 0..1, NEW offset \in 0..1, PageFind(limit, offset)
  PROVE  PdTypeOK' /\ DeletedStep
<1>1. PICK p \in pdPage :
        LET all == ById(Matching(p.t, p.c))
            last == IF limit = 0 \/ offset + limit > Len(all) THEN Len(all) ELSE offset + limit
        IN  Answer(p.t, SubSeq(all, offset + 1, last), p.c, limit)
  BY DEF PageFind
<1> DEFINE S == Matching(p.t, p.c)
           all == ById(S)
           last == IF limit = 0 \/ offset + limit > Len(all) THEN Len(all) ELSE offset + limit
           page == SubSeq(all, offset + 1, last)
<1>2. p.t \in Tables
  BY SMTT(60) DEF PdTypeOK
<1>3. S \in SUBSET Ids(p.t) /\ \A i \in S : pdRows[p.t][i].del => p.c.isDelete
  BY <1>2, PdMatching, SMTT(60)
<1>4. all \in Seq(S) /\ Len(all) \in Nat
  BY <1>2, <1>3, PdById
<1> HIDE DEF S, all
<1>5. last \in 0..Len(all) /\ (limit = 0 \/ last =< offset + limit)
  BY <1>4
<1> HIDE DEF last
<1>6. page \in Seq(S)
  <2>1. \A i \in (offset + 1)..last : i \in 1..Len(all) /\ all[i] \in S
    BY <1>4, <1>5, ElementOfSeq
  <2> QED BY <1>4, <1>5, <2>1, SubSeqProperties
<1>7. Len(page) = IF offset + 1 =< last THEN last - (offset + 1) + 1 ELSE 0
  BY <1>4, <1>5, SubSeqProperties
<1>8. limit = 0 \/ Len(page) =< limit
  BY <1>5, <1>7
<1>9. \A i \in Range(page) : i \in S
  BY <1>6, ElementOfSeq, LenProperties, ZenonT(60) DEF Range
<1>10. pdPage' \in SUBSET pdPage
  BY DEF PageFind
<1>11. Answer(p.t, page, p.c, limit)
  BY <1>1 DEF page, last, all, S
<1> HIDE DEF page
<1> QED BY <1>2, <1>3, <1>8, <1>9, <1>10, <1>11, PdAnswer, SMTT(60)

\* A page is as long as its limit at most.
LEMMA PdPageCount ==
  ASSUME PdTypeOK, NEW t \in Tables, NEW c \in PdConds, PageCount(t, c)
  PROVE  PdTypeOK' /\ DeletedStep
<1>1. pdPage' = {[t |-> t, c |-> c]} /\ [t |-> t, c |-> c] \in [t : Tables, c : PdConds]
  BY DEF PageCount
<1>2. /\ pdAns' = NoAns /\ pdDrawn' = {} /\ pdWay' = Plain
      /\ pdRows' = pdRows /\ pdOps' = pdOps /\ pdLook' = pdLook
  BY DEF PageCount, NoAnswer
<1>3. pdAns'.t \in Tables /\ pdAns'.limit = 0 /\ Range(pdAns'.ids) = {}
  BY <1>2, SMTT(60) DEF NoAns, Tables, Range
<1>4. PdTypeOK'
  BY <1>1, <1>2, <1>3, PdPlain, Zenon DEF PdTypeOK, PdHow
<1> QED BY <1>2, <1>3, <1>4, Zenon DEF DeletedStep, Spared

\* The reads of RenderByCode, a page refused, and the end of a call.
LEMMA PdRender ==
  ASSUME PdTypeOK,
         \/ (\E k \in PdKeys : RenderByCode(k)) \/ RenderVersion \/ ReadReturns
         \/ \E limit, offset \in 0..1 : PageFails(limit, offset)
  PROVE  PdTypeOK' /\ DeletedStep
<1>1. /\ pdAns' = NoAns /\ pdWay' = Plain /\ pdRows' = pdRows /\ pdOps' = pdOps
      /\ pdPage' \in SUBSET pdPage
  BY Zenon DEF RenderByCode, RenderVersion, ReadReturns, PageFails, NoAnswer
<1>2. pdAns'.t \in Tables /\ pdAns'.limit = 0 /\ Range(pdAns'.ids) = {}
  BY <1>1, SMTT(60) DEF NoAns, Tables, Range
<1>3. pdLook' \in Nat
  <2>1. ASSUME NEW k \in PdKeys, RenderByCode(k) PROVE pdLook' \in Nat
    <3>1. "prompt" \in Tables
      BY Zenon DEF Tables
    <3>2. PICK i \in Live("prompt", Ids("prompt")) : pdLook' = pdRows["prompt"][i].ref
      BY <2>1, Zenon DEF RenderByCode
    <3>3. pdRows["prompt"][i] \in Rows
      BY <3>1, <3>2, PdLive, PdRowTypes, Zenon
    <3> QED BY <3>2, <3>3, Zenon DEF Rows
  <2> QED BY <2>1, SMTT(60) DEF RenderVersion, ReadReturns, PageFails, PdTypeOK
<1>4. \A r \in pdDrawn' : ~r.del
  <2>1. CASE RenderVersion
    <3>1. "version" \in Tables
      BY Zenon DEF Tables
    <3> QED BY <2>1, <3>1, PdLive, Zenon DEF RenderVersion
  <2> QED BY <2>1, Zenon DEF RenderByCode, ReadReturns, PageFails, NoAnswer
<1>5. PdTypeOK'
  BY <1>1, <1>2, <1>3, PdPlain, Zenon DEF PdTypeOK, PdHow
<1> QED BY <1>1, <1>2, <1>4, <1>5, Zenon DEF DeletedStep, Spared

\* The rows that callers build are rows.
LEMMA PdRow ==
  ASSUME NEW k \in PdKeys, NEW r \in Nat, NEW s \in {0, 1}
  PROVE  Row(k, r, s) \in Rows
BY Zenon DEF Row, Rows

\* Every operation on prompts.
LEMMA PdPromptDao == PdTypeOK /\ PromptDao => PdTypeOK' /\ DeletedStep
<1> SUFFICES ASSUME PdTypeOK, PromptDao PROVE PdTypeOK' /\ DeletedStep
  OBVIOUS
<1>0. "prompt" \in Tables
  BY Zenon DEF Tables
<1>1. ASSUME NEW k \in PdKeys, NEW l \in PdKeys, PromptDaoCreateBatch(<<Row(k, 0, 1), Row(l, 1, 1)>>)
      PROVE  PdTypeOK' /\ DeletedStep
  <2>1. <<Row(k, 0, 1), Row(l, 1, 1)>> \in Seq(Rows)
    BY PdRow
  <2> QED BY <1>0, <1>1, <2>1, PdCreate, Zenon DEF PromptDaoCreateBatch
<1>2. ASSUME NEW k \in PdKeys, PromptDaoCreate(Row(k, 1, 0)) PROVE PdTypeOK' /\ DeletedStep
  <2>1. <<Row(k, 1, 0)>> \in Seq(Rows)
    BY PdRow
  <2> QED BY <1>0, <1>2, <2>1, PdCreate, Zenon DEF PromptDaoCreate
<1>3. ASSUME NEW k \in PdKeys, PromptDaoGetByCode(k) PROVE PdTypeOK' /\ DeletedStep
  BY <1>0, <1>3, PdQueries DEF PromptDaoGetByCode
<1>4. ASSUME NEW batch \in Batches, NEW b \in BOOLEAN, PromptDaoSaveBatch(batch, b)
      PROVE  PdTypeOK' /\ DeletedStep
  BY <1>0, <1>4, PdSave, Zenon DEF PromptDaoSaveBatch
<1>5. ASSUME NEW i \in 1..PdMaxId,
             PromptDaoUpdateByID(i, Row("", 2, 0)) \/ PromptDaoUpdateMap(i, 0)
               \/ PromptDaoDelete(i) \/ PromptDaoGetByID(i)
      PROVE  PdTypeOK' /\ DeletedStep
  BY <1>0, <1>5, PdUpdate, PdDelete, PdQueries, ZenonT(60)
     DEF PromptDaoUpdateByID, PromptDaoUpdateMap, PromptDaoDelete, PromptDaoGetByID
<1>6. ASSUME NEW ids \in SUBSET (1..PdMaxId), PromptDaoDeleteByIDs(ids) \/ PromptDaoGetByIDs(ids)
      PROVE  PdTypeOK' /\ DeletedStep
  BY <1>0, <1>6, PdDelete, PdQueries, Zenon DEF PromptDaoDeleteByIDs, PromptDaoGetByIDs
<1>7. ASSUME NEW c \in PdConds,
             PromptDaoGetByCond(c) \/ PromptDaoGetListByCond(c) \/ PromptDaoCountByCond(c)
               \/ PageCount("prompt", c) \/ PromptDaoUpdateMapBatch(c, 0)
      PROVE  PdTypeOK' /\ DeletedStep
  BY <1>0, <1>7, PdQueries, PdPageCount, PdUpdateBatch, Zenon
     DEF PromptDaoGetByCond, PromptDaoGetListByCond, PromptDaoCountByCond, PromptDaoUpdateMapBatch
<1> QED BY <1>1, <1>2, <1>3, <1>4, <1>5, <1>6, <1>7, ZenonT(60) DEF PromptDao

\* Every operation on versions.
LEMMA PdVersionDao == PdTypeOK /\ VersionDao => PdTypeOK' /\ DeletedStep
<1> SUFFICES ASSUME PdTypeOK, VersionDao PROVE PdTypeOK' /\ DeletedStep
  OBVIOUS
<1>0. "version" \in Tables
  BY Zenon DEF Tables
<1>1. ASSUME NEW k \in PdKeys, NEW l \in PdKeys, VersionDaoCreateBatch(<<Row(k, 0, 1), Row(l, 1, 1)>>)
      PROVE  PdTypeOK' /\ DeletedStep
  <2>1. <<Row(k, 0, 1), Row(l, 1, 1)>> \in Seq(Rows)
    BY PdRow
  <2> QED BY <1>0, <1>1, <2>1, PdCreate, Zenon DEF VersionDaoCreateBatch
<1>2. ASSUME NEW k \in PdKeys, VersionDaoCreate(Row(k, 1, 0)) PROVE PdTypeOK' /\ DeletedStep
  <2>1. <<Row(k, 1, 0)>> \in Seq(Rows)
    BY PdRow
  <2> QED BY <1>0, <1>2, <2>1, PdCreate, ZenonT(60) DEF VersionDaoCreate
<1>3. ASSUME NEW k \in PdKeys, VersionDaoGetListByPromptID(k) PROVE PdTypeOK' /\ DeletedStep
  BY <1>0, <1>3, PdQueries DEF VersionDaoGetListByPromptID
<1>4. ASSUME NEW batch \in Batches, NEW b \in BOOLEAN, VersionDaoSaveBatch(batch, b)
      PROVE  PdTypeOK' /\ DeletedStep
  BY <1>0, <1>4, PdSave, Zenon DEF VersionDaoSaveBatch
<1>5. ASSUME NEW i \in 1..PdMaxId,
             VersionDaoUpdateByID(i, Row("", 2, 0)) \/ VersionDaoUpdateMap(i, 0)
               \/ VersionDaoDelete(i) \/ VersionDaoGetByID(i)
      PROVE  PdTypeOK' /\ DeletedStep
  BY <1>0, <1>5, PdUpdate, PdDelete, PdQueries, Zenon
     DEF VersionDaoUpdateByID, VersionDaoUpdateMap, VersionDaoDelete, VersionDaoGetByID
<1>6. ASSUME NEW ids \in SUBSET (1..PdMaxId), VersionDaoDeleteByIDs(ids) \/ VersionDaoGetByIDs(ids)
      PROVE  PdTypeOK' /\ DeletedStep
  BY <1>0, <1>6, PdDelete, PdQueries, Zenon DEF VersionDaoDeleteByIDs, VersionDaoGetByIDs
<1>7. ASSUME NEW c \in PdConds,
             VersionDaoGetByCond(c) \/ VersionDaoGetListByCond(c) \/ VersionDaoCountByCond(c)
               \/ PageCount("version", c) \/ VersionDaoUpdateMapBatch(c, 0)
      PROVE  PdTypeOK' /\ DeletedStep
  BY <1>0, <1>7, PdQueries, PdPageCount, PdUpdateBatch, ZenonT(60)
     DEF VersionDaoGetByCond, VersionDaoGetListByCond, VersionDaoCountByCond, VersionDaoUpdateMapBatch
<1> QED BY <1>1, <1>2, <1>3, <1>4, <1>5, <1>6, <1>7, ZenonT(60) DEF VersionDao

\* Every step keeps the types and treats deleted rows as promised.
LEMMA PdStep ==
  /\ PdTypeOK /\ [PdNext]_promptVars => PdTypeOK'
  /\ PdTypeOK /\ [PdNext]_promptVars => [DeletedStep]_promptVars
<1>1. ASSUME PdTypeOK, PdNext PROVE PdTypeOK' /\ DeletedStep
  <2>1. CASE \/ (\E k \in PdKeys : RenderByCode(k)) \/ RenderVersion \/ ReadReturns
             \/ \E limit, offset \in 0..1 : PageFails(limit, offset)
    BY <1>1, <2>1, PdRender, Zenon
  <2>2. ASSUME NEW limit \in 0..1, NEW offset \in 0..1, PageFind(limit, offset)
        PROVE  PdTypeOK' /\ DeletedStep
    BY <1>1, <2>2, PdPageFind, Zenon
  <2>3. CASE PromptDao
    BY <1>1, <2>3, PdPromptDao, Zenon
  <2>4. CASE VersionDao
    BY <1>1, <2>4, PdVersionDao, Zenon
  <2> QED BY <1>1, <2>1, <2>2, <2>3, <2>4, ZenonT(60) DEF PdNext, PdCall
<1>2. ASSUME PdTypeOK, UNCHANGED promptVars PROVE PdTypeOK'
  BY <1>2, Zenon DEF promptVars, PdTypeOK
<1> QED BY <1>1, <1>2, Zenon

\* A deleted prompt or version stays as it was unless an upsert names it, by its
\* ID or the prompt's code, or an update asks for deleted rows, which leaves it
\* deleted; no list holds it unasked and no deleted version is rendered, for any
\* codes, conditions, bounds, batches of one or two and orders of calls
\* (dao.go:71-296, 324-533, renderer.go:19-51).
THEOREM DeletedRowsStay == PdSpec => DeletedStaysDeleted
<1>1. PdInit => PdTypeOK
  BY PdInitType, Zenon
<1>2. PdTypeOK /\ [PdNext]_promptVars => PdTypeOK'
  BY PdStep, Zenon
<1>3. PdTypeOK /\ [PdNext]_promptVars => [DeletedStep]_promptVars
  BY PdStep
<1> QED BY <1>1, <1>2, <1>3, PTL DEF PdSpec, DeletedStaysDeleted
=============================================================================
