--------------------------- MODULE StateStoreProofs ---------------------------
(***************************************************************************)
(* Theorems about StateStore for every value of its constants, and their   *)
(* proofs.                                                                 *)
(***************************************************************************)
EXTENDS StateStore, SequenceTheorems, TLAPS

-----------------------------------------------------------------------------
(***************************************************************************)
(* What Trim and Append do to a history.                                   *)
(***************************************************************************)
Dropped(h) == IF Len(h) > Retention THEN Len(h) - Retention ELSE 0

\* Trim drops the first records and keeps the others in their order.
LEMMA TrimSeq ==
    ASSUME NEW S, NEW h \in Seq(S)
    PROVE  /\ Dropped(h) \in 0 .. Len(h)
           /\ Trim(h) \in Seq(S)
           /\ Len(Trim(h)) = Len(h) - Dropped(h)
           /\ Len(Trim(h)) <= Retention
           /\ \A i \in 1 .. Len(h) - Dropped(h) : Trim(h)[i] = h[i + Dropped(h)]
<1>1. CASE Len(h) > Retention
  <2>1. Trim(h) = SubSeq(h, Len(h) - Retention + 1, Len(h))
    BY <1>1 DEF Trim
  <2>2. \A i \in Len(h) - Retention + 1 .. Len(h) : h[i] \in S
    BY <1>1, RetentionAssumption, ElementOfSeq
  <2>3. /\ Trim(h) \in Seq(S)
        /\ Len(Trim(h)) = Retention
        /\ \A i \in 1 .. Retention : Trim(h)[i] = h[Len(h) - Retention + 1 + i - 1]
    BY <1>1, <2>1, <2>2, RetentionAssumption, SubSeqProperties
  <2> QED BY <1>1, <2>3, RetentionAssumption DEF Dropped
<1>2. CASE Len(h) <= Retention
  BY <1>2, RetentionAssumption DEF Trim, Dropped
<1> QED BY <1>1, <1>2, RetentionAssumption

LEMMA TrimAscending ==
    ASSUME NEW h \in Seq(Nat), Ascending(h)
    PROVE  Ascending(Trim(h))
<1>1. SUFFICES ASSUME NEW i \in DOMAIN Trim(h), NEW j \in DOMAIN Trim(h), i < j
               PROVE  Trim(h)[i] < Trim(h)[j]
  BY DEF Ascending
<1>2. /\ Dropped(h) \in 0 .. Len(h) /\ DOMAIN h = 1 .. Len(h) /\ Len(h) \in Nat
      /\ DOMAIN Trim(h) = 1 .. Len(h) - Dropped(h)
      /\ \A m \in 1 .. Len(h) - Dropped(h) : Trim(h)[m] = h[m + Dropped(h)]
  BY TrimSeq, LenProperties
<1>3. Trim(h)[i] = h[i + Dropped(h)] /\ Trim(h)[j] = h[j + Dropped(h)]
  BY <1>1, <1>2
<1>4. i + Dropped(h) \in DOMAIN h /\ j + Dropped(h) \in DOMAIN h
  BY <1>1, <1>2
<1>5. i + Dropped(h) < j + Dropped(h)
  BY <1>1, <1>2
<1> QED BY <1>3, <1>4, <1>5 DEF Ascending

\* A record that Trim drops is older than everything it keeps.
LEMMA TrimCovers ==
    ASSUME NEW h \in Seq(Nat), Ascending(h), NEW r \in Nat, Covers(h, r)
    PROVE  Covers(Trim(h), r)
<1> DEFINE t == Trim(h)
           k == Dropped(h)
<1>1. /\ k \in 0 .. Len(h) /\ t \in Seq(Nat) /\ Len(t) = Len(h) - k
      /\ \A i \in 1 .. Len(h) - k : t[i] = h[i + k]
  BY TrimSeq
<1>2. t \notin {NoFile, Torn}
  BY <1>1, FileAssumption
<1>3. ASSUME k > 0 PROVE Len(t) = Retention /\ t[1] = h[1 + k] /\ 1 + k \in DOMAIN h
  BY <1>1, <1>3, RetentionAssumption, SMTT(30) DEF Dropped
<1>4. CASE r \in Entries(h)
  <2>1. PICK j \in DOMAIN h : r = h[j]
    BY <1>4 DEF Entries
  <2>2. CASE j > k
    <3>1. j - k \in 1 .. Len(h) - k
      BY <1>1, <2>2
    <3>2. t[j - k] = h[j - k + k] /\ j - k + k = j
      BY <1>1, <3>1
    <3>3. j - k \in DOMAIN t
      BY <1>1, <3>1
    <3> QED BY <1>2, <2>1, <3>2, <3>3 DEF Covers, Entries
  <2>3. CASE j <= k
    <3>1. k > 0 /\ j < 1 + k
      BY <1>1, <2>3
    <3>2. h[j] < h[1 + k]
      BY <1>3, <3>1 DEF Ascending
    <3> QED BY <1>2, <1>3, <2>1, <3>1, <3>2, RetentionAssumption DEF Covers
  <2> QED BY <1>1, <2>2, <2>3
<1>5. CASE Len(h) >= Retention /\ h[1] > r
  <2>1. CASE k = 0
    <3>1. t[1] = h[1] /\ Len(t) >= Retention
      BY <1>1, <1>5, <2>1, RetentionAssumption
    <3> QED BY <1>2, <1>5, <3>1 DEF Covers
  <2>2. CASE k > 0
    <3>1. h[1] < h[1 + k] /\ h[1] \in Nat /\ h[1 + k] \in Nat
      BY <1>1, <1>3, <2>2, ElementOfSeq DEF Ascending
    <3> QED BY <1>2, <1>3, <1>5, <2>2, <3>1, RetentionAssumption DEF Covers
  <2> QED BY <1>1, <2>1, <2>2
<1> QED BY <1>4, <1>5 DEF Covers

LEMMA AppendCovers ==
    ASSUME NEW h \in Seq(Nat), NEW n \in Nat, NEW r \in Nat, Covers(h, r)
    PROVE  Covers(Append(h, n), r)
<1>1. /\ Append(h, n) \in Seq(Nat) /\ Len(Append(h, n)) = Len(h) + 1
      /\ \A i \in 1 .. Len(h) : Append(h, n)[i] = h[i]
  BY AppendProperties
<1>2. Append(h, n) \notin {NoFile, Torn}
  BY <1>1, FileAssumption
<1>3. CASE r \in Entries(h)
  <2>1. PICK j \in DOMAIN h : r = h[j]
    BY <1>3 DEF Entries
  <2>2. j \in DOMAIN Append(h, n) /\ Append(h, n)[j] = r
    BY <1>1, <2>1
  <2> QED BY <1>2, <2>2 DEF Covers, Entries
<1>4. CASE Len(h) >= Retention /\ h[1] > r
  <2>1. Append(h, n)[1] = h[1] /\ Len(Append(h, n)) >= Retention
    BY <1>1, <1>4, RetentionAssumption
  <2> QED BY <1>2, <1>4, <2>1 DEF Covers
<1> QED BY <1>3, <1>4 DEF Covers

-----------------------------------------------------------------------------
(***************************************************************************)
(* The invariant of any number of processes: histories and the versions    *)
(* of the file are lists of past records in order; a temporary file is     *)
(* renamed only with its data on the disk; a process that persists has     *)
(* something to persist.                                                   *)
(***************************************************************************)
Good(h, n) == h \in Seq(Records) /\ Ascending(h) /\ \A i \in DOMAIN h : h[i] < n

Persisting == Steps \ {"closed", "idle"}

Shape ==
    /\ \A p \in Processes :
          /\ Good(history[p], next)
          /\ pc[p] # "closed" => Len(history[p]) <= Retention
          /\ pc[p] \in Persisting => Len(history[p]) > 0
          /\ pc[p] = "rename" => flushed[p]
    /\ \A version \in disk : version = NoFile \/ Good(version, next)
    /\ file \in disk

Inv == TypeOK /\ Shape

LEMMA GoodSeq ==
    ASSUME NEW h, NEW n, Good(h, n)
    PROVE  /\ h \in Seq(Nat) /\ h # NoFile /\ h # Torn /\ h \in Version
           /\ \A i \in DOMAIN h : h[i] \in Nat
<1>1. Records \subseteq Nat
  BY BoundAssumption DEF Records
<1>2. h \in Seq(Nat)
  BY <1>1, SeqMonotonic DEF Good
<1>3. \A i \in DOMAIN h : h[i] \in Nat
  BY <1>2, ElementOfSeq, LenProperties
<1> QED BY <1>2, <1>3, FileAssumption DEF Good, Version

LEMMA GoodLater ==
    ASSUME NEW h, NEW n \in Nat, Good(h, n)
    PROVE  Good(h, n + 1)
<1>1. \A i \in DOMAIN h : h[i] \in Nat
  BY GoodSeq
<1> QED BY <1>1 DEF Good

LEMMA EmptyGood == ASSUME NEW n PROVE Good(<<>>, n)
BY DEF Good, Ascending

LEMMA TrimGood ==
    ASSUME NEW h, NEW n \in Nat, Good(h, n)
    PROVE  Good(Trim(h), n) /\ Len(Trim(h)) <= Retention
<1>1. h \in Seq(Nat) /\ h \in Seq(Records)
  BY GoodSeq DEF Good
<1>2. Trim(h) \in Seq(Records) /\ Len(Trim(h)) <= Retention
  BY <1>1, TrimSeq
<1>3. Ascending(Trim(h))
  BY <1>1, TrimAscending DEF Good
<1>4. ASSUME NEW i \in DOMAIN Trim(h) PROVE Trim(h)[i] < n
  <2>1. /\ Dropped(h) \in 0 .. Len(h) /\ Len(h) \in Nat /\ DOMAIN h = 1 .. Len(h)
        /\ DOMAIN Trim(h) = 1 .. Len(h) - Dropped(h)
        /\ \A m \in 1 .. Len(h) - Dropped(h) : Trim(h)[m] = h[m + Dropped(h)]
    BY <1>1, TrimSeq, LenProperties
  <2>2. i + Dropped(h) \in DOMAIN h /\ Trim(h)[i] = h[i + Dropped(h)]
    BY <1>4, <2>1
  <2> QED BY <2>2 DEF Good
<1> QED BY <1>2, <1>3, <1>4 DEF Good

LEMMA AppendGood ==
    ASSUME NEW h, NEW n \in Records, Good(h, n)
    PROVE  /\ Good(Append(h, n), n + 1)
           /\ Len(Append(h, n)) > 0
<1>1. /\ h \in Seq(Records) /\ n \in Nat
      /\ \A i \in DOMAIN h : h[i] \in Nat
  BY BoundAssumption, GoodSeq DEF Good, Records
<1>2. /\ Append(h, n) \in Seq(Records) /\ Len(Append(h, n)) = Len(h) + 1
      /\ \A i \in 1 .. Len(h) : Append(h, n)[i] = h[i]
      /\ Append(h, n)[Len(h) + 1] = n
      /\ Len(h) \in Nat /\ DOMAIN h = 1 .. Len(h)
      /\ DOMAIN Append(h, n) = 1 .. Len(h) + 1
  BY <1>1, AppendProperties, LenProperties
<1>3. \A i \in DOMAIN Append(h, n) : Append(h, n)[i] < n + 1
  BY <1>1, <1>2 DEF Good
<1>4. Ascending(Append(h, n))
  <2>1. SUFFICES ASSUME NEW i \in 1 .. Len(h) + 1, NEW j \in 1 .. Len(h) + 1, i < j
                 PROVE  Append(h, n)[i] < Append(h, n)[j]
    BY <1>2 DEF Ascending
  <2>2. i \in DOMAIN h /\ Append(h, n)[i] = h[i]
    BY <1>2, <2>1
  <2>3. CASE j = Len(h) + 1
    BY <1>2, <2>2, <2>3 DEF Good
  <2>4. CASE j # Len(h) + 1
    <3>1. j \in DOMAIN h /\ Append(h, n)[j] = h[j]
      BY <1>2, <2>1, <2>4
    <3> QED BY <2>1, <2>2, <3>1 DEF Good, Ascending
  <2> QED BY <2>3, <2>4
<1> QED BY <1>2, <1>3, <1>4 DEF Good

\* Trim keeps the last record of a list.
LEMMA TrimNonEmpty ==
    ASSUME NEW h \in Seq(Nat), Len(h) > 0
    PROVE  Len(Trim(h)) > 0
BY TrimSeq, RetentionAssumption DEF Dropped

LEMMA InvInit == Init => Inv
<1> SUFFICES ASSUME Init PROVE Inv
  OBVIOUS
<1>1. PICK n \in 0 .. Written :
          /\ file = IF n = 0 THEN NoFile ELSE Upto(n)
          /\ next = n + 1
          /\ acked = 1 .. n
  BY DEF Init
<1>2. n \in Nat /\ n <= MaxRecords /\ next \in 1 .. MaxRecords + 1
  BY <1>1, BoundAssumption
<1>3. Good(Upto(n), next)
  <2>1. Upto(n) \in [1 .. n -> Records]
    BY <1>2, BoundAssumption DEF Upto, Records
  <2>2. Upto(n) \in Seq(Records) /\ DOMAIN Upto(n) = 1 .. n
    BY <1>2, <2>1, IsASeq DEF Upto
  <2>3. Ascending(Upto(n)) /\ \A i \in DOMAIN Upto(n) : Upto(n)[i] < next
    BY <1>1, <1>2, <2>2 DEF Ascending, Upto
  <2> QED BY <2>2, <2>3 DEF Good
<1>4. Shape
  BY <1>1, <1>3, EmptyGood DEF Init, Shape, Persisting
<1>5. TypeOK
  BY <1>1, <1>2, <1>3, <1>4, GoodSeq, BoundAssumption
  DEF Init, TypeOK, Steps, Shape, Version, Records, Good
<1> QED BY <1>4, <1>5 DEF Inv

\* A rename that works puts the whole history, on the disk already, in place.
LEMMA RenameSucceeds ==
    ASSUME Inv, NEW p \in Processes, Rename(p), Step(p, "rename", "syncdir")
    PROVE  file' = history[p] /\ disk' = disk \cup {history[p]} /\ acked' = acked
<1>1. flushed[p] /\ pc'[p] = "syncdir"
  BY DEF Step, Inv, Shape, TypeOK
<1>2. ~Step(p, "rename", "idle")
  BY <1>1 DEF Step, Inv, TypeOK
<1> QED BY <1>1, <1>2 DEF Rename, AckedAfterRename

LEMMA InvNext == ASSUME Inv, [Next]_vars PROVE Inv'
<1> USE DEF Inv
<1>0. /\ next \in Nat /\ next \in 1 .. MaxRecords + 1 /\ \A p \in Processes : history[p] \in Seq(Nat)
  BY BoundAssumption, GoodSeq DEF TypeOK, Shape
<1>1. ASSUME NEW p \in Processes, Open(p) PROVE Inv'
  <2>1. Good(Load(file), next) /\ Len(Load(file)) <= Retention
    <3>1. CASE file = NoFile
      BY <3>1, EmptyGood, RetentionAssumption DEF Load
    <3>2. CASE file # NoFile
      BY <1>0, <3>2, TrimGood DEF Load, Shape
    <3> QED BY <3>1, <3>2
  <2>2. Shape'
    BY <1>1, <2>1 DEF Open, Shape, Persisting, TypeOK
  <2>3. TypeOK'
    BY <1>1, <2>1 DEF Open, TypeOK, Steps, Good
  <2> QED BY <2>2, <2>3
<1>2. ASSUME NEW p \in Processes, AppendRecord(p) PROVE Inv'
  <2> DEFINE h == Append(history[p], next)
  <2>1. next \in Records /\ next + 1 \in 1 .. MaxRecords + 1
    BY <1>0, <1>2, BoundAssumption DEF AppendRecord, Records
  <2>2. Good(h, next + 1) /\ Len(h) > 0 /\ h \in Seq(Nat)
    BY <1>0, <2>1, AppendGood, GoodSeq DEF Shape
  <2>3. Good(Trim(h), next + 1) /\ Len(Trim(h)) <= Retention /\ Len(Trim(h)) > 0
    <3>1. next + 1 \in Nat
      BY <1>0
    <3>2. Good(Trim(h), next + 1) /\ Len(Trim(h)) <= Retention
      BY <2>2, <3>1, TrimGood
    <3>3. Len(Trim(h)) > 0
      BY <2>2, TrimNonEmpty
    <3> QED BY <3>2, <3>3
  <2>4. \A q \in Processes : history'[q] = IF q = p THEN Trim(h) ELSE history[q]
    BY <1>2 DEF AppendRecord, TypeOK
  <2>5. \A q \in Processes : Good(history'[q], next')
    BY <1>0, <1>2, <2>3, <2>4, GoodLater DEF AppendRecord, Shape
  <2>6. \A version \in disk : version = NoFile \/ Good(version, next')
    BY <1>0, <1>2, GoodLater DEF AppendRecord, Shape
  <2>7. Shape'
    BY <1>2, <2>3, <2>4, <2>5, <2>6 DEF AppendRecord, Shape, Persisting, TypeOK
  <2>8. TypeOK'
    BY <1>2, <2>1, <2>3 DEF AppendRecord, TypeOK, Steps, Good
  <2> QED BY <2>7, <2>8
<1>3. ASSUME NEW p \in Processes, Create(p) PROVE Inv'
  BY <1>3 DEF Create, Step, Shape, TypeOK, Steps, Persisting
<1>4. ASSUME NEW p \in Processes, Write(p) PROVE Inv'
  BY <1>4 DEF Write, AfterWrite, Step, Shape, TypeOK, Steps, Persisting
<1>5. ASSUME NEW p \in Processes, Sync(p) PROVE Inv'
  BY <1>5 DEF Sync, Step, Shape, TypeOK, Steps, Persisting
<1>6. ASSUME NEW p \in Processes, Rename(p) PROVE Inv'
  <2>1. Good(history[p], next) /\ history[p] \in Version
    BY GoodSeq DEF Shape
  <2>2. CASE Step(p, "rename", "syncdir")
    <3>1. file' = history[p] /\ disk' = disk \cup {history[p]} /\ acked' = acked
      BY <1>6, <2>2, RenameSucceeds
    <3>2. Shape'
      BY <1>6, <2>1, <2>2, <3>1 DEF Rename, Step, Shape, TypeOK, Persisting
    <3>3. TypeOK'
      BY <1>6, <2>1, <2>2, <3>1 DEF Rename, Step, TypeOK, Steps
    <3> QED BY <3>2, <3>3
  <2>3. CASE Step(p, "rename", "idle") /\ UNCHANGED <<file, disk, acked>>
    BY <1>6, <2>3 DEF Rename, Step, Shape, TypeOK, Steps, Persisting
  <2> QED BY <1>6, <2>2, <2>3 DEF Rename
<1>7. ASSUME NEW p \in Processes, SyncDirectory(p) PROVE Inv'
  <2>1. history[p][Len(history[p])] \in Records
    <3>1. history[p] \in Seq(Records) /\ Len(history[p]) > 0
      BY <1>7 DEF SyncDirectory, Step, TypeOK, Shape, Persisting, Steps
    <3> QED BY <3>1, ElementOfSeq, LenProperties
  <2>2. acked' \subseteq Records /\ disk' \in {disk, {file}}
    BY <1>7, <2>1 DEF SyncDirectory, TypeOK
  <2>3. Shape'
    BY <1>7, <2>2 DEF SyncDirectory, Step, Shape, TypeOK, Persisting
  <2>4. TypeOK'
    BY <1>7, <2>2 DEF SyncDirectory, Step, Shape, TypeOK, Steps
  <2> QED BY <2>3, <2>4
<1>8. ASSUME NEW p \in Processes, Kill(p) PROVE Inv'
  BY <1>8, EmptyGood, BoundAssumption DEF Kill, Shape, TypeOK, Steps, Persisting
<1>9. CASE PowerFailure
  BY <1>9, EmptyGood, BoundAssumption DEF PowerFailure, Shape, TypeOK, Steps, Persisting
<1>10. CASE UNCHANGED vars
  BY <1>10 DEF vars, Shape, TypeOK
<1> QED BY <1>1, <1>2, <1>3, <1>4, <1>5, <1>6, <1>7, <1>8, <1>9, <1>10 DEF Next

\* Every variable of StateStore keeps its type (state.go:28-109).
THEOREM Typing == Spec => []TypeOK
<1>1. Inv => TypeOK
  BY DEF Inv
<1> QED BY <1>1, InvInit, InvNext, PTL DEF Spec

\* The history a process serves is bounded and in order, for any number of
\* processes that overwrite each other's file (state.go:50-62).
THEOREM HistoryStaysRecent == Spec => []HistoryIsRecent
<1>1. Inv => HistoryIsRecent
  BY DEF Inv, Shape, Good, HistoryIsRecent
<1> QED BY <1>1, InvInit, InvNext, PTL DEF Spec

\* Neither kills nor power failures leave a file that Open refuses, for any
\* number of processes (state.go:92-108).
THEOREM GuardianStartsAgain == Spec => []FileAlwaysOpens
<1>1. Inv => FileAlwaysOpens
  <2>1. ASSUME Inv, NEW version \in disk PROVE version # Torn
    BY <2>1, GoodSeq, FileAssumption DEF Inv, Shape
  <2> QED BY <2>1 DEF Inv, Shape, FileAlwaysOpens
<1> QED BY <1>1, InvInit, InvNext, PTL DEF Spec

-----------------------------------------------------------------------------
(***************************************************************************)
(* With one process, every acknowledged record is covered by the memory of *)
(* the process and by every version the disk may hold, and the memory      *)
(* covers the file.                                                        *)
(***************************************************************************)
MemoryCovers ==
    \A p \in Processes : pc[p] # "closed" =>
        /\ \A r \in acked : Covers(history[p], r)
        /\ file # NoFile => \A r \in Entries(file) : Covers(history[p], r)
        /\ pc[p] = "syncdir" => file = history[p]

CoverInv == Inv /\ AcknowledgedSurvives /\ MemoryCovers

\* A list covers its own records.
LEMMA CoversOwn ==
    ASSUME NEW h \in Seq(Nat), NEW r \in Entries(h)
    PROVE  Covers(h, r)
BY FileAssumption DEF Covers

\* With one process the file holds every acknowledged record, or newer ones.
LEMMA FileCoversAcked ==
    ASSUME Inv, AcknowledgedSurvives, NEW r \in acked
    PROVE  Covers(file, r) /\ file # NoFile /\ r \in Nat
<1>1. r \in Nat
  BY BoundAssumption DEF Inv, TypeOK, Records
<1> QED BY <1>1 DEF Inv, Shape, AcknowledgedSurvives, Covers

LEMMA EntriesNat ==
    ASSUME NEW h, NEW n, Good(h, n), NEW r \in Entries(h)
    PROVE  r \in Nat
BY GoodSeq DEF Entries

LEMMA CoverInit == Init => CoverInv
<1> SUFFICES ASSUME Init PROVE CoverInv
  OBVIOUS
<1>1. PICK n \in 0 .. Written :
          /\ file = IF n = 0 THEN NoFile ELSE Upto(n)
          /\ next = n + 1
          /\ acked = 1 .. n
  BY DEF Init
<1>2. MemoryCovers
  BY DEF Init, MemoryCovers
<1>3. ASSUME NEW r \in acked PROVE Covers(file, r)
  <2>1. n # 0 /\ file = Upto(n) /\ r \in 1 .. n
    BY <1>1, <1>3
  <2>2. file \in Seq(Nat)
    <3>1. Upto(n) \in [1 .. n -> Nat] /\ n \in Nat
      BY BoundAssumption DEF Upto
    <3> QED BY <2>1, <3>1, IsASeq
  <2>3. r \in Entries(file)
    BY <2>1 DEF Entries, Upto
  <2> QED BY <2>2, <2>3, CoversOwn
<1> QED BY <1>2, <1>3, InvInit DEF CoverInv, AcknowledgedSurvives, Init

LEMMA CoverNext ==
    ASSUME SingleProcess, CoverInv, [Next]_vars
    PROVE  CoverInv'
<1>0. Inv'
  BY InvNext DEF CoverInv
<1> USE DEF CoverInv
<1>00. /\ next \in Nat
       /\ \A p \in Processes : history[p] \in Seq(Nat) /\ Good(history[p], next)
       /\ \A p, q \in Processes : p = q
       /\ \A r \in acked : r \in Nat
  BY BoundAssumption, GoodSeq DEF Inv, TypeOK, Shape, SingleProcess, Records
<1>1. ASSUME NEW p \in Processes, Open(p) PROVE CoverInv'
  <2>1. AcknowledgedSurvives'
    BY <1>1 DEF Open, AcknowledgedSurvives, Covers, Entries
  <2>2. ASSUME file # NoFile, NEW r \in Nat, Covers(file, r) PROVE Covers(Load(file), r)
    <3>1. file \in Seq(Nat) /\ Ascending(file)
      BY <2>2, GoodSeq DEF Inv, Shape, Good
    <3> QED BY <2>2, <3>1, TrimCovers DEF Load
  <2>3. \A r \in acked : Covers(Load(file), r)
    BY <2>2, FileCoversAcked
  <2>4. ASSUME file # NoFile, NEW r \in Entries(file) PROVE Covers(Load(file), r)
    <3>1. file \in Seq(Nat) /\ r \in Nat
      BY <2>4, GoodSeq, EntriesNat DEF Inv, Shape
    <3> QED BY <2>2, <2>4, <3>1, CoversOwn
  <2>5. \A q \in Processes : history'[q] = Load(file) /\ pc'[q] = "idle"
    BY <1>1, <1>00 DEF Open, Inv, TypeOK
  <2>6. MemoryCovers'
    BY <1>1, <2>3, <2>4, <2>5 DEF Open, MemoryCovers, Covers, Entries
  <2> QED BY <1>0, <2>1, <2>6
<1>2. ASSUME NEW p \in Processes, AppendRecord(p) PROVE CoverInv'
  <2> DEFINE h == Append(history[p], next)
  <2>1. next \in Records
    BY <1>00, <1>2, BoundAssumption DEF AppendRecord, Records, Inv, TypeOK
  <2>2. h \in Seq(Nat) /\ Ascending(h)
    BY <1>00, <2>1, AppendGood, GoodSeq DEF Good
  <2>3. ASSUME NEW r \in Nat, Covers(history[p], r) PROVE Covers(Trim(h), r)
    BY <1>00, <2>2, <2>3, AppendCovers, TrimCovers
  <2>4. \A q \in Processes : history'[q] = Trim(h) /\ pc'[q] = "create"
    BY <1>00, <1>2 DEF AppendRecord, Inv, TypeOK
  <2>5. \A r \in acked : Covers(Trim(h), r)
    BY <1>00, <1>2, <2>3 DEF AppendRecord, MemoryCovers
  <2>6. ASSUME file # NoFile, NEW r \in Entries(file) PROVE Covers(Trim(h), r)
    <3>1. r \in Nat
      BY <2>6, EntriesNat DEF Inv, Shape
    <3> QED BY <1>2, <2>3, <2>6, <3>1 DEF AppendRecord, MemoryCovers
  <2>7. MemoryCovers'
    BY <1>2, <2>4, <2>5, <2>6 DEF AppendRecord, MemoryCovers, Covers, Entries
  <2>8. AcknowledgedSurvives'
    BY <1>2 DEF AppendRecord, AcknowledgedSurvives, Covers, Entries
  <2> QED BY <1>0, <2>7, <2>8
<1>3. ASSUME NEW p \in Processes, NEW from \in Steps \ {"closed"}, NEW to \in Steps \ {"syncdir"},
             Step(p, from, to), UNCHANGED <<file, disk, acked>>
      PROVE  CoverInv'
  <2>1. AcknowledgedSurvives'
    BY <1>3 DEF AcknowledgedSurvives, Covers, Entries
  <2>2. MemoryCovers'
    BY <1>00, <1>3 DEF Step, MemoryCovers, Covers, Entries, Inv, TypeOK
  <2> QED BY <1>0, <2>1, <2>2
<1>4. ASSUME NEW p \in Processes, Rename(p), Step(p, "rename", "syncdir") PROVE CoverInv'
  <2>1. file' = history[p] /\ disk' = disk \cup {history[p]} /\ acked' = acked
    BY <1>4, RenameSucceeds
  <2>2. \A q \in Processes : history'[q] = history[p] /\ pc'[q] = "syncdir"
    BY <1>00, <1>4 DEF Step, Inv, TypeOK
  <2>3. \A r \in acked : Covers(history[p], r)
    BY <1>4 DEF Step, MemoryCovers
  <2>4. AcknowledgedSurvives'
    BY <2>1, <2>3 DEF AcknowledgedSurvives, Covers, Entries
  <2>5. \A r \in Entries(history[p]) : Covers(history[p], r)
    BY <1>00, CoversOwn
  <2>6. MemoryCovers'
    BY <2>1, <2>2, <2>3, <2>5, SMTT(30) DEF MemoryCovers, Covers, Entries
  <2> QED BY <1>0, <2>4, <2>6
<1>5. ASSUME NEW p \in Processes, SyncDirectory(p),
             disk' = {file}, acked' = acked \cup {history[p][Len(history[p])]}
      PROVE  CoverInv'
  <2>1. file = history[p] /\ file' = file /\ history' = history /\ Len(history[p]) > 0
    BY <1>5 DEF SyncDirectory, Step, MemoryCovers, Inv, Shape, Persisting, Steps
  <2>2. history[p][Len(history[p])] \in Entries(history[p])
    BY <1>00, <2>1, LenProperties DEF Entries
  <2>3. \A r \in acked' : Covers(history[p], r)
    BY <1>00, <1>5, <2>2, CoversOwn DEF SyncDirectory, Step, MemoryCovers
  <2>4. AcknowledgedSurvives'
    BY <1>5, <2>1, <2>3 DEF AcknowledgedSurvives, Covers, Entries
  <2>5. \A q \in Processes : q = p /\ pc'[q] = "idle"
    BY <1>00, <1>5 DEF SyncDirectory, Step, Inv, TypeOK
  <2>6. MemoryCovers'
    <3>1. \A r \in Entries(file) : Covers(history[p], r)
      BY <1>00, <2>1, CoversOwn
    <3>2. ASSUME NEW q \in Processes
          PROVE  /\ \A r \in acked' : Covers(history[p], r)'
                 /\ \A r \in Entries(file)' : Covers(history[p], r)'
                 /\ history'[q] = history[p] /\ pc'[q] # "syncdir"
      <4>1. history'[q] = history[p] /\ history'[p] = history[p] /\ pc'[q] = "idle"
        BY <2>1, <2>5, <3>2
      <4>2. Entries(file)' = Entries(file)
        BY <2>1 DEF Entries
      <4>3. \A r : Covers(history[p], r)' <=> Covers(history[p], r)
        BY <4>1 DEF Covers, Entries
      <4> QED BY <2>3, <3>1, <4>1, <4>2, <4>3
    <3>3. ASSUME NEW q \in Processes
          PROVE  \A r : Covers(history[q], r)' <=> Covers(history[p], r)'
      BY <2>5
    <3> QED BY <3>2, <3>3 DEF MemoryCovers
  <2> QED BY <1>0, <2>4, <2>6
<1>6. ASSUME NEW p \in Processes, Kill(p) PROVE CoverInv'
  <2>1. AcknowledgedSurvives'
    BY <1>6 DEF Kill, AcknowledgedSurvives, Covers, Entries
  <2>2. MemoryCovers'
    BY <1>00, <1>6 DEF Kill, MemoryCovers, Inv, TypeOK
  <2> QED BY <1>0, <2>1, <2>2
<1>7. CASE PowerFailure
  <2>1. AcknowledgedSurvives'
    BY <1>7 DEF PowerFailure, AcknowledgedSurvives, Covers, Entries
  <2>2. MemoryCovers'
    BY <1>7 DEF PowerFailure, MemoryCovers
  <2> QED BY <1>0, <2>1, <2>2
<1>8. CASE UNCHANGED vars
  BY <1>0, <1>8 DEF vars, AcknowledgedSurvives, MemoryCovers, Covers, Entries
<1>9. ASSUME NEW p \in Processes, Create(p) \/ Write(p) \/ Sync(p) PROVE CoverInv'
  BY <1>3, <1>9 DEF Create, Write, AfterWrite, Sync, Steps
<1>10. ASSUME NEW p \in Processes, Rename(p) PROVE CoverInv'
  BY <1>3, <1>4, <1>10 DEF Rename, Steps
<1>11. ASSUME NEW p \in Processes, SyncDirectory(p) PROVE CoverInv'
  BY <1>3, <1>5, <1>11 DEF SyncDirectory, Steps
<1> QED BY <1>1, <1>2, <1>6, <1>7, <1>8, <1>9, <1>10, <1>11 DEF Next

\* With one process a record whose Append returned no error survives kills and
\* power failures until newer records take its place (state.go:56-108).
THEOREM AcknowledgedRecordsSurvive == SingleProcess /\ Spec => []AcknowledgedSurvives
<1>1. CoverInv => AcknowledgedSurvives
  BY DEF CoverInv
<1>2. SingleProcess /\ CoverInv /\ [Next]_vars => CoverInv'
  BY CoverNext
<1>3. SingleProcess => SingleProcess'
  BY DEF SingleProcess
<1> QED BY <1>1, <1>2, <1>3, CoverInit, PTL DEF Spec

\* With one process a restart never shows a record the history did not
\* (state.go:50-63).
THEOREM RestartShowsNothingNew == SingleProcess /\ Spec => []HistoryShowsFile
<1>1. CoverInv => HistoryShowsFile
  BY DEF CoverInv, MemoryCovers, HistoryShowsFile
<1>2. SingleProcess /\ CoverInv /\ [Next]_vars => CoverInv'
  BY CoverNext
<1>3. SingleProcess => SingleProcess'
  BY DEF SingleProcess
<1> QED BY <1>1, <1>2, <1>3, CoverInit, PTL DEF Spec

=============================================================================
