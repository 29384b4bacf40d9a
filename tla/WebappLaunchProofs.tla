------------------------- MODULE WebappLaunchProofs --------------------------
(***************************************************************************)
(* First the log of MitmTraffic: what a marker separates, and what         *)
(* session.json counts, for a log of any length. LogInv orders the log:    *)
(* lines come in the order of their events, the one being written is the   *)
(* newest. Then the webapp flow: a launch opens the share that was         *)
(* accepted, for any number of runs and cards; and the tests are one of    *)
(* the readers MitmTraffic allows for, so what is proved of its markers    *)
(* holds for theirs.                                                       *)
(***************************************************************************)
EXTENDS WebappLaunch, SequenceTheorems, FiniteSetTheorems, TLAPS

(* Lines come in the order of their events.                                *)
Ordered ==
  /\ writing \in {0, eventSeq}
  /\ out => (writing # 0 /\ tail # "none")
  /\ tail = "record" => whole # <<>>
  /\ \A k \in DOMAIN whole :
       whole[k] <= eventSeq /\ ((writing # 0 /\ ~out) => whole[k] < writing)
  /\ \A j, k \in DOMAIN whole : j < k => whole[j] < whole[k]

(* The marker cuts the log at the event it was taken at; if it counted a   *)
(* record without its newline, the last place before the cut is that       *)
(* record's, or free, or a later record's.                                 *)
Marked ==
  marker.set =>
    /\ marker.begun <= eventSeq /\ marker.open <= marker.begun
    /\ (writing # 0 /\ ~out) => marker.open < writing
    /\ marker.count <= Len(whole) + 1
    /\ tail = "record" => marker.count <= Len(whole)
    /\ marker.open = 0 =>
         marker.count <= Len(whole) /\ (tail = "record" => marker.count < Len(whole))
    /\ \A k \in DOMAIN whole :
         /\ k < marker.count =>
              whole[k] <= marker.begun /\ (marker.open # 0 => whole[k] < marker.open)
         /\ k = marker.count =>
              IF marker.open = 0 THEN whole[k] <= marker.begun
              ELSE marker.open <= whole[k]
         /\ k > marker.count => marker.begun <= whole[k]

(* Lines that a count or a failure already stands for although the log may *)
(* yet lose them: the one being finished, the next one glued to a piece,   *)
(* or that one and the record it is glued to.                              *)
AtRisk == IF tail = "none" THEN 0 ELSE IF tail = "piece" \/ out THEN 1 ELSE 2

(* Every line lost is a failed write's: its own, or the one it ran into.   *)
Counted ==
  /\ recordCount + (IF writing # 0 THEN 1 ELSE 0) <= eventSeq
  /\ Len(whole) <= recordCount + failures + (IF out THEN 1 ELSE 0)
  /\ recordCount + AtRisk <= Len(whole) + failures

(* Once the proxy is done one line at most is still to come.               *)
Closed ==
  session.set =>
    /\ session.count <= recordCount
    /\ recordCount + (IF writing # 0 THEN 1 ELSE 0) <= session.count + 1

LogInv == LogTypeOK /\ Ordered /\ Marked /\ Counted /\ Closed

-----------------------------------------------------------------------------
LEMMA LinesAreEvents ==
  ASSUME LogTypeOK
  PROVE  /\ Len(whole) \in Nat
         /\ DOMAIN whole = 1..Len(whole)
         /\ \A k \in DOMAIN whole : k \in Nat /\ whole[k] \in 1..MaxRecords
<1>1. whole \in [1..Len(whole) -> 1..MaxRecords] /\ Len(whole) \in Nat
  BY LenProperties DEF LogTypeOK
<1>2. QED
  BY <1>1

LEMMA InitLogInv == LogInit => LogInv
<1> SUFFICES ASSUME LogInit PROVE LogInv
  OBVIOUS
<1> USE TrafficAssumption DEF LogInit, Unset, NoMarker
<1>1. whole \in Seq(1..MaxRecords) /\ connectErrors \in Seq(Kinds)
  OBVIOUS
<1>2. out \in BOOLEAN /\ session \in [set : BOOLEAN, count : Nat]
  OBVIOUS
<1>3. marker \in [set : BOOLEAN, count : Nat, begun : Nat, open : Nat]
  OBVIOUS
<1>4. LogTypeOK
  BY <1>1, <1>2, <1>3 DEF LogTypeOK
<1>5. Ordered /\ Marked /\ Counted /\ Closed
  BY DEF Ordered, Marked, Counted, Closed, AtRisk
<1>6. QED
  BY <1>4, <1>5 DEF LogInv

(* What can still be parsed is the log without its last line, or all of it.*)
LEMMA KeptIsAPrefix ==
  ASSUME LogTypeOK, Ordered
  PROVE  /\ Kept \in Seq(1..MaxRecords)
         /\ Len(Kept) = IF tail = "record" THEN Len(whole) - 1 ELSE Len(whole)
         /\ DOMAIN Kept = 1..Len(Kept) /\ Len(Kept) \in Nat
         /\ DOMAIN Kept \subseteq DOMAIN whole
         /\ \A k \in DOMAIN Kept : Kept[k] = whole[k]
<1>1. CASE tail # "record"
  BY <1>1, LinesAreEvents DEF Kept, LogTypeOK
<1>2. CASE tail = "record"
  <2>1. whole \in Seq(1..MaxRecords) /\ Len(whole) \in Nat \ {0}
    BY <1>2, LinesAreEvents, EmptySeq DEF LogTypeOK, Ordered
  <2> DEFINE m == Len(whole) - 1
             S == 1..MaxRecords
  <2>2. m \in Nat /\ \A i \in 1..m : whole[i] \in S
    BY <2>1, LinesAreEvents
  <2>3. Kept = SubSeq(whole, 1, m)
    BY <1>2 DEF Kept
  <2> HIDE DEF m, S
  <2>4. /\ Kept \in Seq(S)
        /\ Len(Kept) = IF 1 <= m THEN m - 1 + 1 ELSE 0
        /\ \A i \in 1..(m - 1 + 1) : Kept[i] = whole[1 + i - 1]
    <3>1. m \in Int /\ 1 \in Int
      BY <2>2
    <3>2. /\ SubSeq(whole, 1, m) \in Seq(S)
          /\ Len(SubSeq(whole, 1, m)) = IF 1 <= m THEN m - 1 + 1 ELSE 0
          /\ \A i \in 1..(m - 1 + 1) : SubSeq(whole, 1, m)[i] = whole[1 + i - 1]
      BY <2>2, <3>1, SubSeqProperties
    <3>3. QED
      BY <2>3, <3>2, Zenon
  <2>5. Len(Kept) = m /\ \A i \in 1..m : Kept[i] = whole[i]
    BY <2>2, <2>4
  <2>6. DOMAIN Kept = 1..m
    BY <2>4, <2>5, LenProperties
  <2>7. m = Len(whole) - 1 /\ 1..m \subseteq DOMAIN whole
    BY <2>1, LinesAreEvents DEF m
  <2>8. QED
    BY <1>2, <2>2, <2>4, <2>5, <2>6, <2>7 DEF S
<1>3. QED
  BY <1>1, <1>2

LEMMA BeginRecordInv == LogInv /\ BeginRecord => LogInv'
<1> SUFFICES ASSUME LogInv, BeginRecord PROVE LogInv'
  OBVIOUS
<1> USE TrafficAssumption DEF LogInv, LogTypeOK, BeginRecord
<1>1. LogTypeOK'
  OBVIOUS
<1>2. Ordered'
  BY DEF Ordered
<1>3. Marked'
  BY DEF Marked, Ordered
<1>4. Counted' /\ Closed'
  BY DEF Counted, Closed, Ordered, AtRisk
<1>5. QED
  BY <1>1, <1>2, <1>3, <1>4

(* When something is written to the log that keeps what it can of it, the  *)
(* lines that are left are still in order and on their sides of the mark.  *)
LEMMA KeepingKeepsOrder ==
  ASSUME LogInv, whole' = Kept, tail' = "piece",
         writing' = 0 \/ (writing' = writing /\ (out => out')), out' => writing' # 0,
         UNCHANGED <<eventSeq, marker>>
  PROVE  Ordered' /\ Marked'
<1> DEFINE n == Len(whole)
           m == Len(whole')
<1>1. /\ n \in Nat /\ m \in Nat /\ m <= n
      /\ DOMAIN whole = 1..n /\ DOMAIN whole' = 1..m
      /\ m = IF tail = "record" THEN n - 1 ELSE n
      /\ \A k \in DOMAIN whole' : k \in DOMAIN whole /\ whole'[k] = whole[k]
  <2>1. LogTypeOK /\ Ordered
    BY DEF LogInv
  <2>2. n \in Nat /\ DOMAIN whole = 1..n
    BY <2>1, LinesAreEvents
  <2>3. /\ m = IF tail = "record" THEN n - 1 ELSE n
        /\ m \in Nat /\ DOMAIN whole' = 1..m
        /\ \A k \in DOMAIN whole' : k \in DOMAIN whole /\ whole'[k] = whole[k]
    BY <2>1, KeptIsAPrefix
  <2> HIDE DEF n, m
  <2>4. m <= n
    BY <2>2, <2>3
  <2>5. QED
    BY <2>2, <2>3, <2>4
<1>2. \A k \in DOMAIN whole : k \in Nat /\ whole[k] \in Nat
  BY LinesAreEvents, TrafficAssumption DEF LogInv
<1>3. Ordered'
  <2>1. /\ writing \in {0, eventSeq} /\ out \in BOOLEAN
        /\ \A k \in DOMAIN whole :
             whole[k] <= eventSeq /\ ((writing # 0 /\ ~out) => whole[k] < writing)
        /\ \A j, k \in DOMAIN whole : j < k => whole[j] < whole[k]
    BY DEF LogInv, LogTypeOK, Ordered
  <2>2. /\ writing' \in {0, eventSeq'}
        /\ out' => (writing' # 0 /\ tail' # "none")
        /\ tail' # "record"
        /\ (writing' # 0 /\ ~out') => (writing # 0 /\ ~out /\ writing' = writing)
    BY <2>1
  <2>3. \A k \in DOMAIN whole' :
          /\ whole'[k] <= eventSeq'
          /\ (writing' # 0 /\ ~out') => whole'[k] < writing'
    BY <1>1, <2>1, <2>2, Zenon
  <2>4. \A j, k \in DOMAIN whole' : j < k => whole'[j] < whole'[k]
    BY <1>1, <2>1, Zenon
  <2>5. QED
    BY <2>2, <2>3, <2>4, Zenon DEF Ordered
<1>4. Marked'
  <2> SUFFICES ASSUME marker.set PROVE Marked'
    BY DEF Marked
  <2>1. marker.count \in Nat /\ marker.open \in Nat /\ marker.begun \in Nat
    BY DEF LogInv, LogTypeOK
  <2>2. /\ m + 1 >= marker.count
        /\ marker.open = 0 => m >= marker.count
    <3>1. /\ marker.count <= n + 1
          /\ tail = "record" => marker.count <= n
          /\ marker.open = 0 => marker.count <= n /\ (tail = "record" => marker.count < n)
      BY DEF LogInv, Marked
    <3> HIDE DEF n, m
    <3>2. m + 1 >= marker.count
      BY <1>1, <2>1, <3>1
    <3>3. marker.open = 0 => m >= marker.count
      BY <1>1, <2>1, <3>1
    <3>4. QED
      BY <3>2, <3>3
  <2>3. (writing' # 0 /\ ~out') => marker.open < writing'
    <3>1. (writing # 0 /\ ~out) => marker.open < writing
      BY DEF LogInv, Marked
    <3>2. out \in BOOLEAN
      BY DEF LogInv, LogTypeOK
    <3>3. QED
      BY <3>1, <3>2
  <2>4. marker.begun <= eventSeq /\ marker.open <= marker.begun
    BY DEF LogInv, Marked
  <2>5. \A k \in DOMAIN whole' :
         /\ k < marker.count =>
              whole[k] <= marker.begun /\ (marker.open # 0 => whole[k] < marker.open)
         /\ k = marker.count =>
              IF marker.open = 0 THEN whole[k] <= marker.begun
              ELSE marker.open <= whole[k]
         /\ k > marker.count => marker.begun <= whole[k]
    BY <1>1 DEF LogInv, Marked
  <2>6. QED
    BY <1>1, <2>1, <2>2, <2>3, <2>4, <2>5 DEF Marked
<1>5. QED
  BY <1>3, <1>4

LEMMA WritePieceInv == LogInv /\ WritePiece => LogInv'
<1> SUFFICES ASSUME LogInv, WritePiece PROVE LogInv'
  OBVIOUS
<1>1. /\ Kept \in Seq(1..MaxRecords)
      /\ Len(Kept) = Len(whole) - 1
      /\ Len(whole) \in Nat
  BY KeptIsAPrefix, LinesAreEvents DEF LogInv, WritePiece
<1>2. LogTypeOK'
  BY <1>1 DEF LogInv, LogTypeOK, WritePiece
<1>3. Ordered' /\ Marked'
  BY KeepingKeepsOrder DEF LogInv, Ordered, WritePiece
<1>4. Counted' /\ Closed'
  BY <1>1 DEF LogInv, LogTypeOK, Counted, Closed, AtRisk, WritePiece
<1>5. QED
  BY <1>2, <1>3, <1>4 DEF LogInv

(* The only step that adds a line: it is longer by the newest event.       *)
LEMMA WriteRecordInv == LogInv /\ WriteRecord => LogInv'
<1> SUFFICES ASSUME LogInv, WriteRecord PROVE LogInv'
  OBVIOUS
<1>1. /\ writing = eventSeq /\ writing \in 1..MaxRecords
      /\ eventSeq \in Nat /\ ~out /\ out'
      /\ UNCHANGED <<eventSeq, writing, recordCount, failures, connectErrors,
                     session, marker>>
  <2>1. /\ writing # 0 /\ ~out /\ out'
        /\ UNCHANGED <<eventSeq, writing, recordCount, failures, connectErrors,
                       session, marker>>
    BY DEF WriteRecord
  <2>2. writing \in {0, eventSeq}
    BY DEF LogInv, Ordered
  <2>3. writing \in 0..MaxRecords
    <3>1. LogTypeOK
      BY Zenon DEF LogInv
    <3>2. QED
      BY <3>1, Zenon DEF LogTypeOK
  <2>4. QED
    BY <2>1, <2>2, <2>3, TrafficAssumption
<1>2. CASE tail # "none" /\ whole' = Kept /\ tail' = "piece"
  <2>1. /\ Kept \in Seq(1..MaxRecords)
        /\ Len(Kept) = IF tail = "record" THEN Len(whole) - 1 ELSE Len(whole)
        /\ Len(whole) \in Nat
    BY KeptIsAPrefix, LinesAreEvents DEF LogInv
  <2>2. out' \in BOOLEAN
    BY Zenon DEF WriteRecord
  <2>3. LogTypeOK'
    BY <1>1, <1>2, <2>1, <2>2 DEF LogInv, LogTypeOK
  <2>4. Ordered' /\ Marked'
    BY <1>1, <1>2, KeepingKeepsOrder DEF LogInv
  <2>5. Counted' /\ Closed'
    BY <1>1, <1>2, <2>1 DEF LogInv, LogTypeOK, Counted, Closed, AtRisk
  <2>6. QED
    BY <2>3, <2>4, <2>5 DEF LogInv
<1>3. CASE tail = "none" /\ whole' = Append(whole, writing) /\ tail' = "record"
  <2> DEFINE n == Len(whole)
  <2>1. /\ n \in Nat
        /\ whole' \in Seq(1..MaxRecords)
        /\ Len(whole') = n + 1
        /\ DOMAIN whole = 1..n /\ DOMAIN whole' = 1..(n + 1)
        /\ \A k \in 1..n : whole'[k] = whole[k]
        /\ whole'[n + 1] = writing
    <3>1. whole \in Seq(1..MaxRecords) /\ writing \in 1..MaxRecords
      BY <1>1 DEF LogInv, LogTypeOK
    <3>2. /\ n \in Nat /\ DOMAIN whole = 1..n
      BY <3>1, LenProperties
    <3>3. /\ whole' \in Seq(1..MaxRecords)
          /\ Len(whole') = n + 1
          /\ \A k \in 1..n : whole'[k] = whole[k]
          /\ whole'[n + 1] = writing
      BY <1>3, <3>1, AppendProperties
    <3>4. QED
      BY <3>2, <3>3, LenProperties
  <2>2. out' \in BOOLEAN
    BY Zenon DEF WriteRecord
  <2>3. LogTypeOK'
    BY <1>1, <1>3, <2>1, <2>2 DEF LogInv, LogTypeOK
  <2>4. \A k \in 1..n : whole[k] \in Nat /\ whole[k] < writing /\ whole[k] <= eventSeq
    <3>1. \A k \in 1..n : whole[k] \in 1..MaxRecords
      BY <2>1, LinesAreEvents DEF LogInv
    <3>2. \A k \in 1..n : whole[k] <= eventSeq /\ whole[k] < writing
      BY <1>1, <2>1 DEF LogInv, Ordered
    <3>3. QED
      BY <3>1, <3>2, TrafficAssumption
  <2>5. Ordered'
    <3>1. \A j, k \in DOMAIN whole : j < k => whole[j] < whole[k]
      BY DEF LogInv, Ordered
    <3>2. whole' # <<>>
      BY <2>1
    <3>3. QED
      BY <1>1, <1>3, <2>1, <2>4, <3>1, <3>2, TrafficAssumption DEF Ordered
  <2>6. Marked'
    <3> SUFFICES ASSUME marker.set PROVE Marked'
      BY <1>1 DEF Marked
    <3>1. marker.count \in Nat /\ marker.open \in Nat /\ marker.begun \in Nat
      BY DEF LogInv, LogTypeOK
    <3>2. /\ marker.count <= n + 1 /\ (marker.open = 0 => marker.count <= n)
          /\ marker.open < writing /\ marker.begun <= writing
          /\ marker.open <= marker.begun
      BY <1>1 DEF LogInv, Marked
    <3>3. \A k \in 1..n :
         /\ k < marker.count =>
              whole[k] <= marker.begun /\ (marker.open # 0 => whole[k] < marker.open)
         /\ k = marker.count =>
              IF marker.open = 0 THEN whole[k] <= marker.begun
              ELSE marker.open <= whole[k]
         /\ k > marker.count => marker.begun <= whole[k]
      BY <2>1 DEF LogInv, Marked
    <3>4. \A k \in 1..(n + 1) :
         /\ k < marker.count =>
              whole'[k] <= marker.begun /\ (marker.open # 0 => whole'[k] < marker.open)
         /\ k = marker.count =>
              IF marker.open = 0 THEN whole'[k] <= marker.begun
              ELSE marker.open <= whole'[k]
         /\ k > marker.count => marker.begun <= whole'[k]
      <4> SUFFICES ASSUME NEW k \in 1..(n + 1)
                   PROVE  /\ k < marker.count => /\ whole'[k] <= marker.begun
                                                 /\ marker.open # 0 => whole'[k] < marker.open
                          /\ k = marker.count =>
                               IF marker.open = 0 THEN whole'[k] <= marker.begun
                               ELSE marker.open <= whole'[k]
                          /\ k > marker.count => marker.begun <= whole'[k]
        OBVIOUS
      <4>1. CASE k \in 1..n
        BY <4>1, <2>1, <3>3
      <4>2. CASE k = n + 1
        BY <4>2, <1>1, <2>1, <3>1, <3>2
      <4>3. QED
        BY <2>1, <4>1, <4>2
    <3>5. QED
      BY <1>1, <1>3, <2>1, <3>1, <3>2, <3>4 DEF Marked
  <2>7. Counted' /\ Closed'
    BY <1>1, <1>3, <2>1 DEF LogInv, LogTypeOK, Counted, Closed, AtRisk
  <2>8. QED
    BY <2>3, <2>5, <2>6, <2>7 DEF LogInv
<1>4. QED
  BY <1>2, <1>3 DEF WriteRecord

LEMMA FinishRecordInv == LogInv /\ FinishRecord => LogInv'
<1> SUFFICES ASSUME LogInv, FinishRecord PROVE LogInv'
  OBVIOUS
<1> USE TrafficAssumption DEF LogInv, LogTypeOK, FinishRecord, CountAfter
<1>1. Len(whole) \in Nat
  BY LinesAreEvents
<1>2. LogTypeOK'
  <2>1. writing # 0 /\ eventSeq \in Nat
    BY DEF Ordered
  <2>2. recordCount' \in 0..MaxRecords
    BY <2>1 DEF Counted
  <2>3. out' \in BOOLEAN
    BY Zenon
  <2>4. QED
    BY <2>2, <2>3
<1>3. Ordered' /\ Marked'
  BY DEF Ordered, Marked
<1>4. Counted' /\ Closed'
  BY <1>1 DEF Ordered, Counted, Closed, AtRisk
<1>5. QED
  BY <1>2, <1>3, <1>4

LEMMA FailRecordInv == LogInv /\ FailRecord => LogInv'
<1> SUFFICES ASSUME LogInv, FailRecord PROVE LogInv'
  OBVIOUS
<1>0. /\ writing # 0 /\ writing' = 0 /\ out' = FALSE
      /\ failures' = failures + 1 /\ recordCount' = recordCount
      /\ UNCHANGED <<eventSeq, connectErrors, session, marker>>
  BY DEF FailRecord, CountAfter
<1>1. /\ Len(whole) \in Nat /\ failures \in Nat /\ recordCount \in Nat
      /\ session.count \in Nat /\ eventSeq \in Nat
      /\ out \in BOOLEAN /\ tail \in {"none", "piece", "record"}
  BY LinesAreEvents, TrafficAssumption DEF LogInv, LogTypeOK
<1>2. (/\ eventSeq \in 0..MaxRecords /\ writing \in 0..MaxRecords
       /\ out \in BOOLEAN /\ recordCount \in 0..MaxRecords /\ failures \in Nat
       /\ connectErrors \in Seq(Kinds)
       /\ session \in [set : BOOLEAN, count : Nat]
       /\ marker \in [set : BOOLEAN, count : Nat, begun : Nat, open : Nat])'
  <2>1. /\ eventSeq \in 0..MaxRecords /\ recordCount \in 0..MaxRecords
        /\ connectErrors \in Seq(Kinds)
        /\ session \in [set : BOOLEAN, count : Nat]
        /\ marker \in [set : BOOLEAN, count : Nat, begun : Nat, open : Nat]
    BY DEF LogInv, LogTypeOK
  <2>2. session' = session
    BY DEF FailRecord
  <2>3. writing' \in 0..MaxRecords /\ failures' \in Nat
    <3>1. 0 \in 0..MaxRecords
      BY TrafficAssumption
    <3>2. failures + 1 \in Nat
      BY <1>1
    <3>3. QED
      BY <1>0, <3>1, <3>2, Zenon
  <2>4. out' \in BOOLEAN
    BY <1>0, Zenon
  <2>5. QED
    BY <1>0, <2>1, <2>2, <2>3, <2>4, Zenon
<1>3. CASE UNCHANGED whole /\ (tail' = tail \/ (out /\ tail' = "none"))
  <2>1. LogTypeOK'
    <3>1. whole \in Seq(1..MaxRecords) /\ tail' \in {"none", "piece", "record"}
      BY <1>1, <1>3 DEF LogInv, LogTypeOK
    <3>2. QED
      BY <1>2, <1>3, <3>1, Zenon DEF LogTypeOK
  <2>2. Ordered' /\ Marked'
    BY <1>0, <1>3 DEF LogInv, Ordered, Marked
  <2>3. AtRisk' <= AtRisk + 1 /\ AtRisk' \in Nat /\ AtRisk \in Nat
    BY <1>0, <1>1, <1>3 DEF AtRisk
  <2>4. Counted' /\ Closed'
    BY <1>0, <1>1, <1>3, <2>3 DEF LogInv, Counted, Closed
  <2>5. QED
    BY <2>1, <2>2, <2>4 DEF LogInv
<1>4. CASE ~out /\ whole' = Kept /\ tail' = "piece"
  <2>1. /\ Kept \in Seq(1..MaxRecords)
        /\ Len(Kept) = IF tail = "record" THEN Len(whole) - 1 ELSE Len(whole)
        /\ Len(Kept) \in Nat
    BY KeptIsAPrefix DEF LogInv
  <2>2. LogTypeOK'
    <3>1. whole' \in Seq(1..MaxRecords) /\ tail' \in {"none", "piece", "record"}
      BY <1>4, <2>1
    <3>2. QED
      BY <1>2, <3>1, Zenon DEF LogTypeOK
  <2>3. Ordered' /\ Marked'
    BY <1>0, <1>4, KeepingKeepsOrder
  <2>4. Counted' /\ Closed'
    <3>1. /\ recordCount + AtRisk <= Len(whole) + failures
          /\ Len(whole) <= recordCount + failures + (IF out THEN 1 ELSE 0)
          /\ recordCount + 1 <= eventSeq
      BY <1>0 DEF LogInv, Counted
    <3>2. AtRisk' = 1 /\ (tail = "record" => AtRisk = 2) /\ AtRisk \in Nat
      BY <1>0, <1>1, <1>4 DEF AtRisk
    <3>3. Len(whole') = Len(Kept)
      BY <1>4
    <3>4. Counted'
      <4> DEFINE n == Len(whole)
                 m == Len(whole')
      <4>1. n \in Nat /\ m = IF tail = "record" THEN n - 1 ELSE n
        BY <1>1, <2>1, <3>3
      <4>2. recordCount + AtRisk <= n + failures /\ n <= recordCount + failures
        BY <1>1, <1>4, <3>1
      <4> HIDE DEF n, m
      <4>3. recordCount + 1 <= m + failures + 1
        BY <1>1, <3>2, <4>1, <4>2
      <4>4. m <= recordCount + failures + 1
        BY <1>1, <4>1, <4>2
      <4> USE DEF m
      <4>5. QED
        BY <1>0, <1>1, <3>1, <3>2, <4>3, <4>4 DEF Counted
    <3>5. Closed'
      BY <1>0, <1>1 DEF LogInv, Closed
    <3>6. QED
      BY <3>4, <3>5
  <2>5. QED
    BY <2>2, <2>3, <2>4 DEF LogInv
<1>5. QED
  BY <1>3, <1>4 DEF FailRecord

LEMMA ConnectErrorInv ==
  LogInv /\ (TcpError \/ ServerConnect \/ ClientDisconnected) => LogInv'
<1> SUFFICES ASSUME LogInv, NEW kinds \in SUBSET Kinds, AppendConnectError(kinds)
             PROVE  LogInv'
  BY DEF TcpError, ServerConnect, ClientDisconnected, TcpKinds, ServerKinds,
         DisconnectKinds, Kinds
<1> USE DEF AppendConnectError
<1>1. LogTypeOK'
  BY DEF LogInv, LogTypeOK
<1>2. Ordered' /\ Marked' /\ Counted' /\ Closed'
  BY DEF LogInv, Ordered, Marked, Counted, Closed, AtRisk
<1>3. QED
  BY <1>1, <1>2 DEF LogInv

LEMMA DoneInv == LogInv /\ Done => LogInv'
  BY TrafficAssumption
  DEF LogInv, LogTypeOK, Ordered, Marked, Counted, Closed, AtRisk, Done

(* A marker counts all there is; the last line is the newest.              *)
LEMMA CaptureMarkerInv == LogInv /\ CaptureMarker => LogInv'
<1> SUFFICES ASSUME LogInv, CaptureMarker PROVE LogInv'
  OBVIOUS
<1> DEFINE n == Len(whole)
<1>1. /\ n \in Nat /\ DOMAIN whole = 1..n
      /\ \A k \in 1..n : whole[k] \in Nat \ {0}
  BY LinesAreEvents, TrafficAssumption DEF LogInv
<1>2. tail = "record" => n \in 1..n
  <2>1. tail = "record" => n # 0
    BY EmptySeq DEF LogInv, Ordered, LogTypeOK
  <2>2. QED
    BY <1>1, <2>1
<1>3. /\ marker' = [set |-> TRUE, count |-> n, begun |-> eventSeq,
                    open |-> IF tail = "record" THEN whole[n] ELSE 0]
      /\ UNCHANGED <<whole, eventSeq, writing, out, tail, recordCount, failures,
                     connectErrors, session>>
  BY DEF CaptureMarker, AfterCount, Parsed
<1>4. /\ marker'.count = n /\ marker'.begun = eventSeq
      /\ marker'.open = IF tail = "record" THEN whole[n] ELSE 0
  BY <1>3
<1>5. LogTypeOK'
  <2>1. eventSeq \in Nat /\ (IF tail = "record" THEN whole[n] ELSE 0) \in Nat
    BY <1>1, <1>2, TrafficAssumption DEF LogInv, LogTypeOK
  <2>2. marker' \in [set : BOOLEAN, count : Nat, begun : Nat, open : Nat]
    BY <1>1, <1>3, <2>1
  <2>3. QED
    BY <1>3, <2>2 DEF LogInv, LogTypeOK
<1>6. Ordered' /\ Counted' /\ Closed'
  BY <1>3 DEF LogInv, Ordered, Counted, Closed, AtRisk
<1>7. Marked'
  <2>1. /\ \A k \in 1..n : /\ whole[k] <= eventSeq
                           /\ (writing # 0 /\ ~out) => whole[k] < writing
        /\ \A j, k \in 1..n : j < k => whole[j] < whole[k]
        /\ writing \in {0, eventSeq} /\ eventSeq \in Nat
    <3>1. eventSeq \in Nat
      BY TrafficAssumption DEF LogInv, LogTypeOK
    <3>2. QED
      BY <1>1, <3>1, Zenon DEF LogInv, Ordered
  <2>2. UNCHANGED <<whole, eventSeq, writing, out, tail>>
    BY <1>3
  <2>3. CASE tail = "record"
    <3>1. PICK o \in Nat \ {0} : o = marker'.open /\ o = whole[n]
      BY <2>3, <1>1, <1>2, <1>4
    <3>2. n \in 1..n
      BY <2>3, <1>2
    <3>3. o <= eventSeq /\ ((writing # 0 /\ ~out) => o < writing)
      BY <2>1, <3>1, <3>2
    <3>4. \A k \in 1..n : /\ k < n => whole[k] <= eventSeq /\ whole[k] < o
                          /\ k = n => o <= whole[k]
                          /\ ~(k > n)
      <4>1. \A k \in 1..n : k < n => whole[k] < o
        BY <2>1, <3>1, <3>2, Zenon
      <4>2. \A k \in 1..n : whole[k] <= eventSeq
        BY <2>1
      <4>3. \A k \in 1..n : k = n => o <= whole[k]
        <5>1. o <= o
          OBVIOUS
        <5>2. QED
          BY <3>1, <5>1, Zenon
      <4>4. \A k \in 1..n : ~(k > n)
        BY <1>1
      <4>5. QED
        BY <4>1, <4>2, <4>3, <4>4, Zenon
    <3>5. n <= n + 1 /\ n <= n
      BY <1>1
    <3>6. QED
      <4>1. /\ marker'.begun <= eventSeq' /\ marker'.open <= marker'.begun
            /\ (writing' # 0 /\ ~out') => marker'.open < writing'
        BY <1>4, <2>1, <2>2, <3>1, <3>3
      <4>2. /\ marker'.count <= Len(whole') + 1 /\ marker'.count <= Len(whole')
            /\ marker'.open # 0
        BY <1>4, <2>2, <3>1, <3>5
      <4>3. \A k \in DOMAIN whole' :
              /\ k < marker'.count =>
                   whole'[k] <= marker'.begun /\ whole'[k] < marker'.open
              /\ k = marker'.count => marker'.open <= whole'[k]
              /\ ~(k > marker'.count)
        BY <1>1, <1>4, <2>2, <3>1, <3>4, Zenon
      <4>4. QED
        BY <4>1, <4>2, <4>3, Zenon DEF Marked
  <2>4. CASE tail # "record"
    <3>1. marker'.open = 0
      BY <2>4, <1>4
    <3>2. (writing # 0 /\ ~out) => 0 < writing
      BY <2>1
    <3>3. QED
      BY <1>1, <1>4, <2>1, <2>2, <2>4, <3>1, <3>2 DEF Marked
  <2>5. QED
    BY <2>3, <2>4
<1>8. QED
  BY <1>5, <1>6, <1>7 DEF LogInv

LEMMA LogStep == LogInv /\ [LogNext]_logVars => LogInv'
<1>1. LogInv /\ UNCHANGED logVars => LogInv'
  BY DEF LogInv, LogTypeOK, Ordered, Marked, Counted, Closed, AtRisk, logVars
<1>2. QED
  BY <1>1, BeginRecordInv, WritePieceInv, WriteRecordInv, FinishRecordInv, FailRecordInv,
     ConnectErrorInv, DoneInv, CaptureMarkerInv DEF LogNext, Addon

LEMMA LogInvariant == LogSpec => []LogInv
  BY InitLogInv, LogStep, PTL DEF LogSpec

-----------------------------------------------------------------------------
LEMMA InvGivesOneStaleRecord == LogInv => AtMostOneStaleRecord
<1> SUFFICES ASSUME LogInv, marker.set, NEW j \in DOMAIN whole, NEW k \in DOMAIN whole,
                    j > marker.count, whole[j] <= marker.begun,
                    k > marker.count, whole[k] <= marker.begun
             PROVE  j = k
  BY DEF AtMostOneStaleRecord, InScope, Parsed
<1>1. j \in Nat /\ k \in Nat /\ whole[j] \in Nat /\ whole[k] \in Nat
  BY LinesAreEvents, TrafficAssumption DEF LogInv
<1>2. marker.count \in Nat /\ marker.begun \in Nat
  BY DEF LogInv, LogTypeOK
<1>3. marker.begun <= whole[j] /\ marker.begun <= whole[k]
  BY <1>1, <1>2 DEF LogInv, Marked
<1>4. ~(j < k) /\ ~(k < j)
  BY <1>1, <1>2, <1>3 DEF LogInv, Ordered
<1>5. QED
  BY <1>1, <1>4

LEMMA InvGivesNewRecords == LogInv => NewRecordsAreInScope
<1> SUFFICES ASSUME LogInv, marker.set, NEW k \in DOMAIN whole, whole[k] > marker.begun,
                    ~(k > marker.count)
             PROVE  /\ k = marker.count
                    /\ marker.open # 0
                    /\ \A i \in DOMAIN whole : whole[i] # marker.open
  BY DEF NewRecordsAreInScope, InScope, Parsed
<1>1. \A i \in DOMAIN whole : i \in Nat /\ whole[i] \in Nat
  BY LinesAreEvents, TrafficAssumption DEF LogInv
<1>2. marker.count \in Nat /\ marker.begun \in Nat /\ marker.open \in Nat
  BY DEF LogInv, LogTypeOK
<1>3. k = marker.count /\ marker.open # 0
  BY <1>1, <1>2 DEF LogInv, Marked
<1>4. ASSUME NEW i \in DOMAIN whole PROVE whole[i] # marker.open
  <2>1. CASE i < k
    BY <2>1, <1>1, <1>2, <1>3 DEF LogInv, Marked
  <2>2. CASE i = k
    BY <2>2, <1>1, <1>2 DEF LogInv, Marked
  <2>3. CASE k < i
    <3>1. whole[k] < whole[i]
      BY <2>3 DEF LogInv, Ordered
    <3>2. marker.open <= marker.begun
      BY DEF LogInv, Marked
    <3>3. QED
      BY <1>1, <1>2, <3>1, <3>2
  <2>4. QED
    BY <1>1, <2>1, <2>2, <2>3
<1>5. QED
  BY <1>3, <1>4

LEMMA InvGivesSession == LogInv => SessionCountsTheLog
<1> SUFFICES ASSUME LogInv PROVE SessionCountsTheLog
  OBVIOUS
<1>1. Len(whole) \in Nat
  BY LinesAreEvents DEF LogInv
<1>2. QED
  BY <1>1 DEF LogInv, LogTypeOK, Ordered, Counted, Closed, AtRisk, SessionCountsTheLog,
              Parsed

(* A marker lets through at most one record of what was there before it,   *)
(* wherever the proxy's writes are interrupted or fail.                    *)
THEOREM MarkerDropsTheOld == LogSpec => []AtMostOneStaleRecord
  BY LogInvariant, InvGivesOneStaleRecord, PTL

(* A marker drops no record of an event that begins after it, but for one  *)
(* that takes the place of a record whose newline was never written and    *)
(* that was lost to the line glued to it.                                  *)
THEOREM MarkerKeepsTheNew == LogSpec => []NewRecordsAreInScope
  BY LogInvariant, InvGivesNewRecords, PTL

(* session.json counts what was appended, up to failures and the last line.*)
THEOREM SessionCount == LogSpec => []SessionCountsTheLog
  BY LogInvariant, InvGivesSession, PTL

-----------------------------------------------------------------------------
(* An accepted card is never taken away, and nothing is opened before one  *)
(* has been accepted.                                                      *)
TakenCard == [run |-> taken, accepted |-> TRUE]

AcceptedFirst ==
  /\ stage \in {"new", "folder", "shared", "clicked", "accepted", "marked"} =>
       opened = 0
  /\ (IsNextcloud /\ stage \in {"clicked", "accepted", "marked"}) => TakenCard \in cards
  /\ (IsNextcloud /\ opened # 0) => (opened = taken /\ TakenCard \in cards)

PageTypeOK ==
  /\ pair \in Pairs /\ attempt \in 1..MaxAttempts
  /\ stage \in WebappStages \cup Ended
  /\ cause \in {None, "product", "timeout", "card", "hub"}
  /\ sent \subseteq 1..MaxAttempts
  /\ cards \subseteq [run : 1..MaxAttempts, accepted : BOOLEAN]
  /\ \A c, d \in cards : c.run = d.run => c = d
  /\ taken \in 0..MaxAttempts /\ opened \in 0..MaxAttempts
  /\ hub \in HubOrigins

PageInv == PageTypeOK /\ IsFiniteSet(cards) /\ AcceptedFirst

USE AttemptsAssumption

-----------------------------------------------------------------------------
LEMMA InitPageInv == Init => PageInv
<1> SUFFICES ASSUME Init PROVE PageInv
  OBVIOUS
<1>1. PageTypeOK
  BY DEF Init, PageTypeOK, WebappStages, HubOrigins
<1>2. IsFiniteSet(cards)
  BY FS_EmptySet DEF Init
<1>3. AcceptedFirst
  BY DEF Init, AcceptedFirst
<1>4. QED
  BY <1>1, <1>2, <1>3 DEF PageInv

LEMMA PrepareFolderInv == PageInv /\ PrepareFolder => PageInv'
  BY DEF PageInv, PageTypeOK, AcceptedFirst, TakenCard, IsNextcloud, PrepareFolder,
         webappVars, To, Fail, WebappStages, Ended

LEMMA SubmitShareInv == PageInv /\ SubmitShare => PageInv'
  BY DEF PageInv, PageTypeOK, AcceptedFirst, TakenCard, IsNextcloud, SubmitShare,
         webappVars, To, Fail, WebappStages, Ended

LEMMA DeliverCardInv == PageInv /\ DeliverCard => PageInv'
<1> SUFFICES ASSUME PageInv, NEW r \in sent \ {c.run : c \in cards},
                    cards' = cards \cup {[run |-> r, accepted |-> FALSE]},
                    UNCHANGED <<pair, attempt, stage, cause, sent, taken, opened, hub>>
             PROVE  PageInv'
  BY DEF DeliverCard
<1>1. IsFiniteSet(cards')
  BY FS_AddElement DEF PageInv
<1>2. cards' \subseteq [run : 1..MaxAttempts, accepted : BOOLEAN]
  <2>1. cards \subseteq [run : 1..MaxAttempts, accepted : BOOLEAN] /\ r \in 1..MaxAttempts
    BY DEF PageInv, PageTypeOK
  <2>2. [run |-> r, accepted |-> FALSE] \in [run : 1..MaxAttempts, accepted : BOOLEAN]
    BY <2>1
  <2>3. QED
    BY <2>1, <2>2, Zenon
<1>3. \A c, d \in cards' : c.run = d.run => c = d
  <2> DEFINE new == [run |-> r, accepted |-> FALSE]
  <2>1. \A c \in cards : c.run # new.run
    OBVIOUS
  <2>2. \A c, d \in cards : c.run = d.run => c = d
    BY DEF PageInv, PageTypeOK
  <2> HIDE DEF new
  <2>3. QED
    BY <2>1, <2>2, cards' = cards \cup {new} DEF new
<1>4. PageTypeOK'
  <2> USE DEF PageInv, PageTypeOK
  <2>1. (pair \in Pairs /\ attempt \in 1..MaxAttempts /\ stage \in WebappStages \cup Ended)'
    OBVIOUS
  <2>2. (/\ cause \in {None, "product", "timeout", "card", "hub"}
         /\ sent \subseteq 1..MaxAttempts)'
    OBVIOUS
  <2>3. (taken \in 0..MaxAttempts /\ opened \in 0..MaxAttempts /\ hub \in HubOrigins)'
    OBVIOUS
  <2>4. QED
    BY <1>2, <1>3, <2>1, <2>2, <2>3, Zenon
<1>5. AcceptedFirst'
  BY DEF PageInv, AcceptedFirst, TakenCard, IsNextcloud
<1>6. QED
  BY <1>1, <1>4, <1>5 DEF PageInv

LEMMA AcceptCardInv == PageInv /\ AcceptCard => PageInv'
<1> SUFFICES ASSUME PageInv, AcceptCard PROVE PageInv'
  OBVIOUS
<1>1. CASE Fail("card") /\ UNCHANGED <<cards, taken, sent, opened, hub>>
  BY <1>1 DEF PageInv, PageTypeOK, AcceptedFirst, TakenCard, IsNextcloud, Fail, Ended
<1>2. CASE \E c \in FindShareCard :
             /\ ~c.accepted
             /\ cards' = (cards \ {c}) \cup {[run |-> c.run, accepted |-> TRUE]}
             /\ taken' = c.run
             /\ To("clicked")
  <2>1. PICK c \in cards :
             /\ ~c.accepted
             /\ cards' = (cards \ {c}) \cup {[run |-> c.run, accepted |-> TRUE]}
             /\ taken' = c.run
             /\ To("clicked")
    BY <1>2 DEF FindShareCard, Matches
  <2>2. c \in [run : 1..MaxAttempts, accepted : BOOLEAN]
    BY DEF PageInv, PageTypeOK
  <2>4. cards' = (cards \ {c}) \cup {[run |-> c.run, accepted |-> TRUE]}
    BY <2>1
  <2>5. IsFiniteSet(cards')
    BY <2>4, FS_AddElement, FS_RemoveElement DEF PageInv
  <2>6. UNCHANGED <<pair, attempt, cause, sent, opened, hub>> /\ stage' = "clicked"
    BY <2>1 DEF AcceptCard, To
  <2>7. cards' \subseteq [run : 1..MaxAttempts, accepted : BOOLEAN]
    <3>1. cards \subseteq [run : 1..MaxAttempts, accepted : BOOLEAN]
      BY DEF PageInv, PageTypeOK
    <3>2. [run |-> c.run, accepted |-> TRUE] \in [run : 1..MaxAttempts, accepted : BOOLEAN]
      BY <2>2
    <3>3. QED
      BY <2>4, <3>1, <3>2, Zenon
  <2>8. \A x, y \in cards' : x.run = y.run => x = y
    <3> DEFINE new == [run |-> c.run, accepted |-> TRUE]
    <3>1. \A x, y \in cards : x.run = y.run => x = y
      BY DEF PageInv, PageTypeOK
    <3>2. new.run = c.run
      OBVIOUS
    <3>3. cards' = (cards \ {c}) \cup {new}
      BY <2>4
    <3> HIDE DEF new
    <3>4. \A x \in cards \ {c} : x.run # new.run
      BY <3>1, <3>2
    <3>5. QED
      BY <3>1, <3>3, <3>4
  <2>14. (pair \in Pairs /\ attempt \in 1..MaxAttempts /\ stage \in WebappStages \cup Ended)'
    BY <2>6 DEF PageInv, PageTypeOK, WebappStages
  <2>15. (/\ cause \in {None, "product", "timeout", "card", "hub"}
          /\ sent \subseteq 1..MaxAttempts)'
    BY <2>6 DEF PageInv, PageTypeOK
  <2>16. (taken \in 0..MaxAttempts /\ opened \in 0..MaxAttempts /\ hub \in HubOrigins)'
    BY <2>1, <2>2, <2>6 DEF PageInv, PageTypeOK
  <2>9. PageTypeOK'
    BY <2>7, <2>8, <2>14, <2>15, <2>16, Zenon DEF PageTypeOK
  <2>10. TakenCard' \in cards'
    BY <2>1, <2>4 DEF TakenCard
  <2>11. opened' = 0
    BY <2>6 DEF PageInv, AcceptedFirst, AcceptCard
  <2>12. AcceptedFirst'
    BY <2>10, <2>11 DEF AcceptedFirst
  <2>13. QED
    BY <2>5, <2>9, <2>12 DEF PageInv
<1>3. CASE Fail("product") /\ UNCHANGED <<cards, taken, sent, opened, hub>>
  BY <1>3 DEF PageInv, PageTypeOK, AcceptedFirst, TakenCard, IsNextcloud, Fail, Ended
<1>4. QED
  BY <1>1, <1>2, <1>3 DEF AcceptCard

LEMMA SeeAcceptedInv == PageInv /\ SeeAccepted => PageInv'
  BY DEF PageInv, PageTypeOK, AcceptedFirst, TakenCard, IsNextcloud, SeeAccepted,
         webappVars, To, Fail, WebappStages, Ended

LEMMA SeeFolderInv == PageInv /\ SeeFolder => PageInv'
<1> SUFFICES ASSUME PageInv, SeeFolder PROVE PageInv'
  OBVIOUS
<1>1. PICK c \in cards : taken' = c.run
  BY DEF SeeFolder, ReceivedFolder
<1>2. c \in [run : 1..MaxAttempts, accepted : BOOLEAN]
  BY DEF PageInv, PageTypeOK
<1>3. PageTypeOK'
  BY <1>1, <1>2 DEF PageInv, PageTypeOK, SeeFolder, To, WebappStages
<1>4. AcceptedFirst'
  BY DEF PageInv, AcceptedFirst, SeeFolder, To, IsNextcloud
<1>5. QED
  BY <1>3, <1>4 DEF PageInv, SeeFolder

LEMMA MarkInv == PageInv /\ Mark => PageInv'
  BY DEF PageInv, PageTypeOK, AcceptedFirst, TakenCard, IsNextcloud, Mark,
         webappVars, To, WebappStages

(* There is one card when Nextcloud's is opened, and an accepted one.      *)
LEMMA OneCard == ASSUME PageInv, NEW c \in FindShareCard PROVE cards = {c}
<1>1. Cardinality(cards) = 1 /\ c \in cards
  BY DEF FindShareCard, Matches
<1>2. PICK x : cards = {x}
  BY <1>1, FS_Singleton DEF PageInv
<1>3. QED
  BY <1>1, <1>2

LEMMA LaunchInv == PageInv /\ Launch => PageInv'
<1> SUFFICES ASSUME PageInv, Launch PROVE PageInv'
  OBVIOUS
<1>1. opened = 0
  BY DEF PageInv, AcceptedFirst, Launch
<1>2. CASE Fail("card") /\ UNCHANGED <<cards, taken, sent, opened, hub>>
  BY <1>2 DEF PageInv, PageTypeOK, AcceptedFirst, TakenCard, IsNextcloud, Fail, Ended
<1>3. CASE \E c \in Launchable, o \in HubOrigins :
             /\ hub' = o
             /\ \/ IsHubLaunchOrigin(o) /\ opened' = c.run /\ To("opened")
                \/ ~IsHubLaunchOrigin(o) /\ opened' = 0 /\ Fail("hub")
  <2>1. PICK c \in Launchable, o \in HubOrigins :
             /\ hub' = o
             /\ \/ IsHubLaunchOrigin(o) /\ opened' = c.run /\ To("opened")
                \/ ~IsHubLaunchOrigin(o) /\ opened' = 0 /\ Fail("hub")
    BY <1>3
  <2>2. c \in cards
    BY DEF Launchable, FindShareCard, Matches, ReceivedFolder
  <2>3. c \in [run : 1..MaxAttempts, accepted : BOOLEAN]
    BY <2>2 DEF PageInv, PageTypeOK
  <2>4. UNCHANGED <<sent, cards, taken, pair>>
    BY <2>1 DEF Launch, To, Fail
  <2>5. PageTypeOK'
    BY <2>1, <2>3, <2>4 DEF PageInv, PageTypeOK, To, Fail, WebappStages, Ended
  <2>6. IsNextcloud => c.run = taken
    <3> SUFFICES ASSUME IsNextcloud PROVE c.run = taken
      OBVIOUS
    <3>1. TakenCard \in cards
      BY DEF PageInv, AcceptedFirst, Launch
    <3>2. cards = {c}
      BY OneCard DEF Launchable
    <3>3. QED
      BY <3>1, <3>2 DEF TakenCard
  <2>7. IsNextcloud => TakenCard \in cards
    BY DEF PageInv, AcceptedFirst, Launch
  <2>8. AcceptedFirst'
    BY <2>1, <2>4, <2>6, <2>7 DEF AcceptedFirst, TakenCard, IsNextcloud, To, Fail
  <2>9. QED
    BY <2>4, <2>5, <2>8 DEF PageInv
<1>4. QED
  BY <1>2, <1>3 DEF Launch

LEMMA ProveInv == PageInv /\ Prove => PageInv'
  BY DEF PageInv, PageTypeOK, AcceptedFirst, TakenCard, IsNextcloud, Prove,
         webappVars, To, Ended

LEMMA TimeOutInv == PageInv /\ TimeOut => PageInv'
  BY DEF PageInv, PageTypeOK, AcceptedFirst, TakenCard, IsNextcloud, TimeOut,
         webappVars, Fail, Ended

LEMMA AgainInv == PageInv /\ Again => PageInv'
  BY DEF PageInv, PageTypeOK, AcceptedFirst, Again, WebappStages, HubOrigins

LEMMA PageStepInv == PageInv /\ [Next]_vars => PageInv'
<1> SUFFICES ASSUME PageInv, [Next]_vars PROVE PageInv'
  OBVIOUS
<1>1. CASE UNCHANGED <<pair, attempt, stage, cause, webappVars>>
  BY <1>1 DEF PageInv, PageTypeOK, AcceptedFirst, TakenCard, IsNextcloud, webappVars
<1>2. CASE PageStep
  BY <1>2, PrepareFolderInv, SubmitShareInv, DeliverCardInv, AcceptCardInv, SeeAcceptedInv,
     SeeFolderInv, LaunchInv, ProveInv, TimeOutInv, AgainInv DEF PageStep
<1>3. CASE Mark
  BY <1>3, MarkInv
<1>4. QED
  BY <1>1, <1>2, <1>3 DEF Next, vars

-----------------------------------------------------------------------------
(* Each step of the tests is a step of the log's specification, or none.   *)
THEOREM TestsOnlyRead == Spec => LogSpec
<1>1. Init => LogInit
  BY DEF Init
<1>2. [Next]_vars => [LogNext]_logVars
  BY DEF Next, vars, LogNext, Mark
<1>3. QED
  BY <1>1, <1>2, PTL DEF Spec, LogSpec

LEMMA BothInvariants == Spec => [](PageInv /\ LogInv)
<1>1. Spec => []PageInv
  BY InitPageInv, PageStepInv, PTL DEF Spec
<1>2. Spec => []LogInv
  BY TestsOnlyRead, LogInvariant, PTL
<1>3. QED
  BY <1>1, <1>2, PTL

(* Every reachable state is well typed: no share is listed twice.          *)
THEOREM WebappTypeCorrect == Spec => []TypeOK
<1>1. PageInv /\ LogInv => TypeOK
  BY DEF PageInv, PageTypeOK, LogInv, TypeOK
<1>2. QED
  BY <1>1, BothInvariants, PTL

(* Whatever cards arrive between the clicks, the one that is opened is the *)
(* one that was accepted.                                                  *)
THEOREM OpensTheAccepted == Spec => []OpenedWhatItAccepted
<1>1. PageInv => OpenedWhatItAccepted
  BY DEF PageInv, AcceptedFirst, TakenCard, OpenedWhatItAccepted
<1>2. QED
  BY <1>1, BothInvariants, PTL

(* The marker of a launch keeps what comes after it, with the same one     *)
(* exception.                                                              *)
THEOREM LaunchMarkerKeepsTheNew == Spec => []NewRecordsAreInScope
  BY TestsOnlyRead, MarkerKeepsTheNew, PTL

=============================================================================
