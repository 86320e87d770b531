----------------------------- MODULE MapProofs -----------------------------
(* What holds of the agent's side of a map and of the frames that carry    *)
(* it, for every number of parts, patience, download, name and length: the *)
(* parts reach Warcraft in order and an honest Warcraft gets ready         *)
(* (MapTransfer), no download or restart takes the file of another         *)
(* (MapCache), and the frames are read as they were written (FrameReader). *)
EXTENDS MapTransfer, MapCache, FrameReader, SequenceTheorems, TLAPS

----------------------------------------------------------------------------
(* The map transfer. *)

LEMMA LongestFacts ==
  /\ Longest \in Nat
  /\ Longest >= PreparationLimit /\ Longest >= StallLimit /\ Longest >= TotalLimit
<1>1. \E n \in Limits : \A m \in Limits : m <= n
  <2>1. /\ PreparationLimit \in Nat /\ StallLimit \in Nat /\ TotalLimit \in Nat
    BY TransferAssumption DEF TransferAssumption
  <2>2. CASE PreparationLimit >= StallLimit /\ PreparationLimit >= TotalLimit
    BY <2>1, <2>2 DEF Limits
  <2>3. CASE StallLimit >= PreparationLimit /\ StallLimit >= TotalLimit
    BY <2>1, <2>3 DEF Limits
  <2>4. CASE TotalLimit >= PreparationLimit /\ TotalLimit >= StallLimit
    BY <2>1, <2>4 DEF Limits
  <2> QED
    BY <2>1, <2>2, <2>3, <2>4
<1>2. Longest \in Limits /\ \A m \in Limits : m <= Longest
  BY <1>1 DEF Longest
<1> QED
  BY <1>2, TransferAssumption DEF Limits, TransferAssumption

(* How many parts of b bytes a bytes take. *)
LEMMA PartCount ==
  ASSUME NEW a \in Nat \ {0}, NEW b \in Nat \ {0}
  PROVE  LET n == (a + b - 1) \div b IN
         n \in Nat \ {0} /\ (n - 1) * b < a /\ a <= n * b
<1> DEFINE s == a + b - 1
           n == s \div b
<1>1. n \in Int /\ s = n * b + (s % b) /\ s % b \in 0..(b - 1)
  OBVIOUS
<1>2. n * b <= s /\ s < n * b + b
  BY <1>1
<1>3. (n - 1) * b = n * b - b
  BY <1>1
<1>4. n > 0
  <2> SUFFICES ASSUME n <= 0 PROVE FALSE
    BY <1>1
  <2>1. n * b <= 0
    BY <1>1
  <2> QED
    BY <1>2, <2>1
<1> QED
  BY <1>1, <1>2, <1>3, <1>4

LEMMA TimesGrows ==
  ASSUME NEW i \in Nat, NEW j \in Nat, NEW b \in Nat, i <= j
  PROVE  i * b <= j * b /\ i * b \in Nat /\ (i + 1) * b = i * b + b
  OBVIOUS

(* An offset at which a part may end. *)
Aligned(n) == n = MapBytes \/ \E k \in Nat : n = k * PartBytes

PartRanges == [start: 0..MapBytes, end: 0..MapBytes]

(* Parts that follow `from', and each other, without a gap. *)
Chain(ranges, from) ==
  \A i \in DOMAIN ranges :
    /\ ranges[i].start = IF i = 1 THEN from ELSE ranges[i - 1].end
    /\ ranges[i].end - ranges[i].start \in 1..PartBytes
    /\ Aligned(ranges[i].end)

LastEnd(ranges, from) == IF ranges = <<>> THEN from ELSE ranges[Len(ranges)].end

PartsInv ==
  /\ Chain(parts, received) /\ Aligned(received) /\ Aligned(next)
  /\ state = "downloading" => next = LastEnd(parts, received)
  /\ state \in {"awaiting", "preparing"} =>
       parts = <<>> /\ received = 0 /\ next = 0 /\ acked = 0
  /\ next < acked + Window + PartBytes
  /\ honest => Aligned(acked) /\ next <= acked + Window

(* What an honest Warcraft reports: ends of parts, and nothing else once   *)
(* its map is complete.                                                    *)
ReportsInv ==
  honest =>
    /\ \A i \in DOMAIN reports :
         /\ reports[i].size <= MapBytes /\ reports[i].flag \in {"has", "continues"}
         /\ reports[i].flag = "continues" => Aligned(reports[i].size)
         /\ Whole(reports[i]) => complete
         /\ state = "verified" => Whole(reports[i])
    /\ \A i, j \in DOMAIN reports : i < j /\ Whole(reports[i]) => Whole(reports[j])
    /\ state = "verified" => complete
    /\ failure \notin {"oversize", "flag", "inconsistent"}

LoadInv ==
  /\ ready = 1 <=> state = "verified"
  /\ task = "running" => state = "preparing"

TransferInv == TransferTypeOK /\ PartsInv /\ ReportsInv /\ LoadInv

LEMMA Numbers ==
  /\ MapBytes \in Nat /\ MapBytes # 0 /\ PartBytes \in Nat /\ PartBytes # 0
  /\ WindowParts \in Nat /\ WindowParts # 0 /\ Window \in Nat
  /\ Window = WindowParts * PartBytes
<1>1. MapBytes \in Nat /\ MapBytes # 0 /\ PartBytes \in Nat /\ PartBytes # 0
      /\ WindowParts \in Nat /\ WindowParts # 0
  BY TransferAssumption DEF TransferAssumption
<1>2. WindowParts * PartBytes \in Nat
  BY <1>1
<1> QED
  BY <1>1, <1>2 DEF Window

LEMMA ChainJoins ==
  ASSUME NEW p \in Seq(PartRanges), NEW q \in Seq(PartRanges), NEW from,
         Chain(p, from), Chain(q, LastEnd(p, from))
  PROVE  /\ p \o q \in Seq(PartRanges) /\ Chain(p \o q, from)
         /\ LastEnd(p \o q, from) = LastEnd(q, LastEnd(p, from))
<1> DEFINE r == p \o q
<1>1. /\ r \in Seq(PartRanges) /\ Len(r) = Len(p) + Len(q)
      /\ Len(p) \in Nat /\ Len(q) \in Nat
      /\ DOMAIN p = 1..Len(p) /\ DOMAIN q = 1..Len(q) /\ DOMAIN r = 1..(Len(p) + Len(q))
      /\ \A i \in 1..(Len(p) + Len(q)) : r[i] = IF i <= Len(p) THEN p[i] ELSE q[i - Len(p)]
  BY ConcatProperties
<1>2. /\ p = <<>> <=> Len(p) = 0
      /\ q = <<>> <=> Len(q) = 0
      /\ r = <<>> <=> Len(r) = 0
  BY <1>1, EmptySeq
<1> HIDE DEF r
<1>3. Chain(r, from)
  <2> SUFFICES ASSUME NEW i \in DOMAIN r
               PROVE  /\ r[i].start = IF i = 1 THEN from ELSE r[i - 1].end
                      /\ r[i].end - r[i].start \in 1..PartBytes
                      /\ Aligned(r[i].end)
    BY DEF Chain
  <2>1. CASE i <= Len(p)
    <3>1. i \in DOMAIN p /\ r[i] = p[i] /\ (i # 1 => r[i - 1] = p[i - 1])
      BY <1>1, <2>1
    <3> QED
      BY <3>1 DEF Chain
  <2>2. CASE i = Len(p) + 1
    <3>1. 1 \in DOMAIN q /\ r[i] = q[1]
      BY <1>1, <2>2
    <3>2. q[1].start = LastEnd(p, from) /\ q[1].end - q[1].start \in 1..PartBytes
          /\ Aligned(q[1].end)
      BY <3>1 DEF Chain
    <3>3. i # 1 => r[i - 1] = p[Len(p)] /\ p # <<>>
      BY <1>1, <1>2, <2>2
    <3>4. i = 1 => p = <<>>
      BY <1>1, <1>2, <2>2
    <3> QED
      BY <3>1, <3>2, <3>3, <3>4 DEF LastEnd
  <2>3. CASE i > Len(p) + 1
    <3>1. i - Len(p) \in DOMAIN q /\ r[i] = q[i - Len(p)] /\ r[i - 1] = q[i - Len(p) - 1]
          /\ i - Len(p) # 1 /\ i # 1
      <4>1. /\ i \in Nat /\ i <= Len(p) + Len(q) /\ i - 1 \in 1..(Len(p) + Len(q))
            /\ ~(i <= Len(p)) /\ ~(i - 1 <= Len(p)) /\ i # 1 /\ i - Len(p) # 1
            /\ (i - 1) - Len(p) = i - Len(p) - 1
        BY <1>1, <2>3
      <4>2. i - Len(p) \in 1..Len(q)
        BY <1>1, <2>3, <4>1
      <4>3. r[i] = q[i - Len(p)] /\ r[i - 1] = q[(i - 1) - Len(p)]
        BY <1>1, <4>1
      <4> QED
        BY <1>1, <4>1, <4>2, <4>3
    <3> QED
      BY <3>1 DEF Chain
  <2> QED
    BY <1>1, <2>1, <2>2, <2>3
<1>4. LastEnd(r, from) = LastEnd(q, LastEnd(p, from))
  <2>1. CASE q = <<>>
    <3>1. Len(r) = Len(p) /\ (p # <<>> => r[Len(r)] = p[Len(p)])
      BY <1>1, <1>2, <2>1
    <3> QED
      BY <1>1, <1>2, <2>1, <3>1 DEF LastEnd
  <2>2. CASE q # <<>>
    <3>1. r[Len(r)] = q[Len(q)] /\ r # <<>>
      BY <1>1, <1>2, <2>2
    <3> QED
      BY <2>2, <3>1 DEF LastEnd
  <2> QED
    BY <2>1, <2>2
<1> QED
  BY <1>1, <1>3, <1>4 DEF r

(* The window that is sent from an offset where a part ends. *)
LEMMA WindowSent ==
  ASSUME parts \in Seq(PartRanges), received \in 0..MapBytes, Chain(parts, received),
         NEW n \in 0..MapBytes, NEW a \in 0..MapBytes, Aligned(n),
         n = LastEnd(parts, received), n < a + Window + PartBytes, SendWindow(n, a)
  PROVE  /\ parts' \in Seq(PartRanges) /\ Chain(parts', received)
         /\ next' = LastEnd(parts', received) /\ next' \in 0..MapBytes /\ Aligned(next')
         /\ next' < a + Window + PartBytes
         /\ Aligned(a) /\ n <= a + Window => next' <= a + Window
<1> DEFINE end == WindowEnd(n, a)
           count == IF n < end THEN (end - n + PartBytes - 1) \div PartBytes ELSE 0
           new == [i \in 1..count |-> Part(n, i)]
<1> USE Numbers
<1>1. /\ end \in Nat /\ end <= MapBytes /\ end <= a + Window
      /\ end = MapBytes \/ end = a + Window
  BY DEF WindowEnd, Least
<1>2. /\ count \in Nat
      /\ n < end => count # 0 /\ (count - 1) * PartBytes < end - n /\ end - n <= count * PartBytes
      /\ ~(n < end) => count = 0
  <2>1. CASE n < end
    <3>1. end - n \in Nat \ {0} /\ PartBytes \in Nat \ {0}
      BY <1>1, <2>1
    <3> QED
      BY <2>1, <3>1, PartCount
  <2>2. CASE ~(n < end)
    BY <2>2
  <2> QED
    BY <2>1, <2>2
<1>3. parts' = parts \o new /\ next' = IF count = 0 THEN n ELSE Part(n, count).end
  BY DEF SendWindow
<1> HIDE DEF end, count
<1>4. CASE count = 0
  <2>1. new = <<>> /\ parts' = parts
    BY <1>3, <1>4, ConcatEmptySeq
  <2> QED
    BY <1>1, <1>3, <1>4, <2>1
<1>5. CASE count # 0
  <2>1. n < end /\ (count - 1) * PartBytes < end - n /\ end - n <= count * PartBytes
    BY <1>2, <1>5
  <2>2. PICK k \in Nat : n = k * PartBytes
    BY <1>1, <2>1 DEF Aligned
  <2>3. ASSUME NEW i \in 1..count
        PROVE  /\ i * PartBytes = (i - 1) * PartBytes + PartBytes /\ i * PartBytes \in Nat
               /\ (i - 1) * PartBytes \in Nat
               /\ n + (i - 1) * PartBytes < end
               /\ n + i * PartBytes = (k + i) * PartBytes
    <3>1. i \in Nat /\ i - 1 \in Nat /\ i - 1 <= count - 1 /\ count - 1 \in Nat
      BY <1>2, <1>5
    <3>2. (i - 1) * PartBytes <= (count - 1) * PartBytes /\ (i - 1) * PartBytes \in Nat
          /\ ((i - 1) + 1) * PartBytes = (i - 1) * PartBytes + PartBytes
      BY <3>1, TimesGrows
    <3>3. (k + i) * PartBytes = k * PartBytes + i * PartBytes
      BY <3>1
    <3>4. (count - 1) * PartBytes \in Nat /\ (i - 1) + 1 = i
      BY <3>1
    <3> QED
      BY <1>1, <2>1, <2>2, <3>1, <3>2, <3>3, <3>4
  <2>4. ASSUME NEW i \in 1..count
        PROVE  /\ Part(n, i) \in PartRanges
               /\ Part(n, i).start = n + (i - 1) * PartBytes
               /\ Part(n, i).end - Part(n, i).start \in 1..PartBytes
               /\ Aligned(Part(n, i).end)
               /\ Part(n, i).end = Least(MapBytes, n + i * PartBytes)
               /\ i < count => Part(n, i).end = n + i * PartBytes
    <3> DEFINE s == (i - 1) * PartBytes
               t == i * PartBytes
    <3>1. s \in Nat /\ t = s + PartBytes /\ n + s < end /\ n + t = (k + i) * PartBytes
      BY <2>3
    <3>2. i < count => n + t < end
      <4> SUFFICES ASSUME i < count PROVE n + t < end
        OBVIOUS
      <4>1. i + 1 \in 1..count /\ (i + 1) - 1 = i
        BY <1>2
      <4>2. n + ((i + 1) - 1) * PartBytes < end
        BY <2>3, <4>1
      <4> QED
        BY <4>1, <4>2
    <3>3. Part(n, i) = [start |-> n + s, end |-> Least(MapBytes, n + t)]
      BY DEF Part
    <3>4. k + i \in Nat
      BY <1>2
    <3>5. Aligned(Least(MapBytes, n + t))
      BY <3>1, <3>4 DEF Aligned, Least
    <3> HIDE DEF s, t
    <3>6. Part(n, i).start = n + s /\ Part(n, i).end = Least(MapBytes, n + t)
      BY <3>3
    <3>9. s \in Nat /\ t = s + PartBytes /\ n + s < end /\ n \in Nat
      BY <3>1
    <3>7. /\ n + s \in 0..MapBytes /\ Least(MapBytes, n + t) \in 0..MapBytes
          /\ Least(MapBytes, n + t) - (n + s) \in 1..PartBytes
          /\ i < count => Least(MapBytes, n + t) = n + t
      BY ONLY <1>1, <3>9, <3>2, Numbers DEF Least
    <3>8. Part(n, i) \in PartRanges
      BY <3>3, <3>7 DEF PartRanges
    <3> QED
      BY <3>5, <3>6, <3>7, <3>8 DEF s, t
  <2>5. new \in Seq(PartRanges) /\ Len(new) = count /\ DOMAIN new = 1..count
        /\ new # <<>> /\ \A i \in 1..count : new[i] = Part(n, i)
    <3>1. \A i \in 1..count : Part(n, i) \in PartRanges
      BY <2>4
    <3> QED
      BY <1>2, <1>5, <3>1
  <2> HIDE DEF new
  <2>6. Chain(new, n)
    <3> SUFFICES ASSUME NEW i \in 1..count
                 PROVE  /\ new[i].start = IF i = 1 THEN n ELSE new[i - 1].end
                        /\ new[i].end - new[i].start \in 1..PartBytes
                        /\ Aligned(new[i].end)
      BY <2>5 DEF Chain
    <3>1. new[i] = Part(n, i) /\ Part(n, i).start = n + (i - 1) * PartBytes
          /\ Part(n, i).end - Part(n, i).start \in 1..PartBytes
          /\ Aligned(Part(n, i).end)
      BY <2>4, <2>5
    <3>2. CASE i = 1
      BY <3>1, <3>2
    <3>3. CASE i # 1
      <4>1. i - 1 \in 1..count /\ i - 1 < count
        BY <1>2, <3>3
      <4>2. new[i - 1] = Part(n, i - 1) /\ Part(n, i - 1).end = n + (i - 1) * PartBytes
        BY <2>4, <2>5, <4>1
      <4> QED
        BY <3>1, <3>3, <4>2
    <3> QED
      BY <3>2, <3>3
  <2>7. parts' \in Seq(PartRanges) /\ Chain(parts', received)
        /\ LastEnd(parts', received) = LastEnd(new, n)
    BY <1>3, <2>5, <2>6, ChainJoins
  <2>8. count \in 1..count
    BY <1>2, <1>5
  <2>9. next' = Part(n, count).end /\ LastEnd(new, n) = Part(n, count).end
    BY <1>3, <1>5, <2>5, <2>8 DEF LastEnd
  <2>10. /\ next' \in 0..MapBytes /\ Aligned(next')
         /\ next' = Least(MapBytes, n + count * PartBytes)
    BY <2>4, <2>8, <2>9 DEF PartRanges
  <2>11. count * PartBytes = (count - 1) * PartBytes + PartBytes /\ (count - 1) * PartBytes \in Nat
    BY <2>3, <2>8
  <2>12. next' < a + Window + PartBytes
    BY <1>1, <2>1, <2>10, <2>11 DEF Least
  <2>13. ASSUME Aligned(a), n <= a + Window
         PROVE  next' <= a + Window
    <3>1. CASE end = MapBytes
      BY <1>1, <2>10, <3>1
    <3>2. CASE end = a + Window /\ end # MapBytes
      <4>1. a # MapBytes
        BY <1>1, <3>2
      <4>2. PICK j \in Nat : a = j * PartBytes
        BY <2>13, <4>1 DEF Aligned
      <4> DEFINE d == j + WindowParts - k
      <4>3. end - n = d * PartBytes /\ d \in Int
        <5>1. (j + WindowParts - k) * PartBytes
                = j * PartBytes + WindowParts * PartBytes - k * PartBytes
          OBVIOUS
        <5> QED
          BY <2>2, <3>2, <4>2, <5>1
      <4> HIDE DEF d
      <4>4. (count - 1) * PartBytes < d * PartBytes
        BY <2>1, <4>3
      <4>5. count - 1 < d
        <5> SUFFICES ASSUME d <= count - 1 PROVE FALSE
          BY <1>2, <4>3
        <5>1. d * PartBytes <= (count - 1) * PartBytes
          BY <1>2, <4>3
        <5> QED
          BY <1>2, <4>3, <4>4, <5>1
      <4>6. count * PartBytes <= d * PartBytes
        BY <1>2, <4>3, <4>5
      <4>7. n + count * PartBytes <= end
        BY <1>1, <1>2, <4>3, <4>6, SMTT(30)
      <4> QED
        BY <1>1, <1>2, <2>10, <3>2, <4>7 DEF Least
    <3> QED
      BY <1>1, <3>1, <3>2
  <2> QED
    BY <2>7, <2>9, <2>10, <2>12, <2>13
<1> QED
  BY <1>4, <1>5

LEMMA TransferInitKept == TransferInit => TransferInv
<1> SUFFICES ASSUME TransferInit PROVE TransferInv
  OBVIOUS
<1> USE Numbers, LongestFacts
<1>1. TransferTypeOK
  <2>1. complete \in BOOLEAN /\ honest \in BOOLEAN
    BY Zenon DEF TransferInit
  <2> QED
    BY <2>1 DEF TransferInit, TransferTypeOK, States, Tasks, Failures
<1>2. Aligned(0)
  <2>1. 0 = 0 * PartBytes
    OBVIOUS
  <2> QED
    BY <2>1 DEF Aligned
<1>3. PartsInv
  BY <1>2 DEF TransferInit, PartsInv, Chain
<1>4. ReportsInv /\ LoadInv
  BY DEF TransferInit, ReportsInv, LoadInv
<1> QED
  BY <1>1, <1>3, <1>4 DEF TransferInv

(* What an honest Warcraft may report in a state. *)
Honestly(r) ==
  /\ r.size <= MapBytes /\ r.flag \in {"has", "continues"}
  /\ r.flag = "continues" => Aligned(r.size)
  /\ Whole(r) <=> complete'

LEMMA ReportKeeps ==
  ASSUME TransferInv, NEW r \in Reports, SendReport(r), received' = received, honest' = honest,
         complete' \in BOOLEAN, complete => complete', honest => Honestly(r)
  PROVE  TransferInv'
<1>1. /\ UNCHANGED <<state, task, next, acked, age, idle, ready, failure, parts>>
      /\ reports' = Append(reports, r)
  BY DEF SendReport, progressVars
<1>2. reports \in Seq(Reports)
  BY DEF TransferInv, TransferTypeOK
<1>3. /\ reports' \in Seq(Reports) /\ DOMAIN reports = 1..Len(reports)
      /\ DOMAIN reports' = 1..(Len(reports) + 1) /\ Len(reports) \in Nat
      /\ \A i \in DOMAIN reports : reports'[i] = reports[i]
      /\ reports'[Len(reports) + 1] = r
  BY <1>1, <1>2, AppendProperties
<1>4. TransferTypeOK'
  BY <1>1, <1>3 DEF TransferInv, TransferTypeOK
<1>5. PartsInv'
  BY <1>1 DEF TransferInv, PartsInv
<1>6. LoadInv'
  BY <1>1 DEF TransferInv, LoadInv
<1>7. ReportsInv'
  <2> SUFFICES ASSUME honest
               PROVE  /\ \A i \in DOMAIN reports' :
                           /\ reports'[i].size <= MapBytes /\ reports'[i].flag \in {"has", "continues"}
                           /\ reports'[i].flag = "continues" => Aligned(reports'[i].size)
                           /\ Whole(reports'[i]) => complete'
                           /\ state = "verified" => Whole(reports'[i])
                      /\ \A i, j \in DOMAIN reports' :
                           i < j /\ Whole(reports'[i]) => Whole(reports'[j])
                      /\ state = "verified" => complete'
                      /\ failure \notin {"oversize", "flag", "inconsistent"}
    BY <1>1 DEF ReportsInv
  <2>1. /\ \A i \in DOMAIN reports :
             /\ reports[i].size <= MapBytes /\ reports[i].flag \in {"has", "continues"}
             /\ reports[i].flag = "continues" => Aligned(reports[i].size)
             /\ Whole(reports[i]) => complete
             /\ state = "verified" => Whole(reports[i])
        /\ \A i, j \in DOMAIN reports : i < j /\ Whole(reports[i]) => Whole(reports[j])
        /\ state = "verified" => complete
        /\ failure \notin {"oversize", "flag", "inconsistent"}
    BY DEF TransferInv, ReportsInv
  <2>2. \A i \in DOMAIN reports' : i \in DOMAIN reports \/ i = Len(reports) + 1
    BY <1>3
  <2>3. /\ r.size <= MapBytes /\ r.flag \in {"has", "continues"}
        /\ r.flag = "continues" => Aligned(r.size)
        /\ Whole(r) <=> complete'
    BY DEF Honestly
  <2>4. state = "verified" => complete'
    BY <2>1
  <2>5. ASSUME NEW i \in DOMAIN reports'
        PROVE  /\ reports'[i].size <= MapBytes /\ reports'[i].flag \in {"has", "continues"}
               /\ reports'[i].flag = "continues" => Aligned(reports'[i].size)
               /\ Whole(reports'[i]) => complete'
               /\ state = "verified" => Whole(reports'[i])
    <3>1. CASE i \in DOMAIN reports
      BY <1>3, <2>1, <3>1
    <3>2. CASE i = Len(reports) + 1
      BY <1>3, <2>3, <2>4, <3>2
    <3> QED
      BY <2>2, <3>1, <3>2
  <2>6. ASSUME NEW i \in DOMAIN reports', NEW j \in DOMAIN reports', i < j, Whole(reports'[i])
        PROVE  Whole(reports'[j])
    <3>1. i \in DOMAIN reports
      BY <1>3, <2>6
    <3>2. CASE j \in DOMAIN reports
      BY <1>3, <2>1, <2>6, <3>1, <3>2
    <3>3. CASE j = Len(reports) + 1
      BY <1>3, <2>1, <2>3, <2>6, <3>1, <3>3
    <3> QED
      BY <2>2, <3>2, <3>3
  <2> QED
    BY <2>1, <2>4, <2>5, <2>6
<1> QED
  BY <1>4, <1>5, <1>6, <1>7 DEF TransferInv

LEMMA WarcraftReportKeeps ==
  ASSUME TransferInv, ReportStatus \/ ReportProgress \/ ReportAnything \/ CompleteMap
  PROVE  TransferInv'
<1> USE Numbers
<1>1. received \in 0..MapBytes /\ complete \in BOOLEAN /\ honest \in BOOLEAN
  BY Zenon DEF TransferInv, TransferTypeOK
<1>2. ASSUME NEW r \in Reports, SendReport(r), UNCHANGED warcraftVars, honest => Honestly(r)
      PROVE  TransferInv'
  <2>1. received' = received /\ honest' = honest /\ complete' = complete
    BY <1>2 DEF warcraftVars
  <2> QED
    BY <1>1, <1>2, <2>1, ReportKeeps
<1>3. CASE ReportStatus
  <2>1. UNCHANGED warcraftVars /\ complete' = complete
    BY <1>3 DEF ReportStatus, warcraftVars
  <2>2. PICK n \in 0..MapBytes :
          SendReport([flag |-> "has", size |-> n]) /\ (complete <=> n = MapBytes)
    <3>1. CASE complete /\ SendReport([flag |-> "has", size |-> MapBytes])
      BY <3>1
    <3>2. CASE ~complete /\ \E n \in 0..(MapBytes - 1) : SendReport([flag |-> "has", size |-> n])
      BY <3>2
    <3> QED
      BY <1>3, <3>1, <3>2 DEF ReportStatus
  <2> DEFINE r == [flag |-> "has", size |-> n]
  <2>3. r \in Reports /\ Honestly(r)
    BY <2>1, <2>2 DEF Reports, Honestly, Whole
  <2> HIDE DEF r
  <2> QED
    BY <1>2, <2>1, <2>2, <2>3 DEF r
<1>4. CASE ReportProgress
  <2> DEFINE r == [flag |-> "continues", size |-> received]
  <2>1. UNCHANGED warcraftVars /\ complete' = complete /\ ~complete /\ SendReport(r)
    BY <1>4 DEF ReportProgress, warcraftVars
  <2>2. Aligned(received)
    BY DEF TransferInv, PartsInv
  <2>3. r \in Reports /\ Honestly(r)
    BY <1>1, <2>1, <2>2 DEF Reports, Honestly, Whole
  <2> HIDE DEF r
  <2> QED
    BY <1>2, <2>1, <2>3
<1>5. CASE ReportAnything
  <2>1. PICK r \in Reports : SendReport(r)
    BY <1>5 DEF ReportAnything
  <2> QED
    BY <1>2, <1>5, <2>1 DEF ReportAnything
<1>6. CASE CompleteMap
  <2> DEFINE r == [flag |-> "has", size |-> MapBytes]
  <2>1. complete' = TRUE /\ received' = received /\ honest' = honest /\ SendReport(r)
    BY <1>6 DEF CompleteMap
  <2>2. r \in Reports /\ Honestly(r)
    BY <2>1 DEF Reports, Honestly, Whole
  <2> HIDE DEF r
  <2> QED
    BY <2>1, <2>2, ReportKeeps
<1> QED
  BY <1>3, <1>4, <1>5, <1>6

LEMMA ReceivePartKeeps == TransferInv /\ ReceivePart => TransferInv'
<1> SUFFICES ASSUME TransferInv, ReceivePart PROVE TransferInv'
  OBVIOUS
<1>1. /\ parts \in Seq(PartRanges) /\ parts # <<>>
      /\ received' = Head(parts).end /\ parts' = Tail(parts)
      /\ UNCHANGED <<state, task, next, acked, age, idle, ready, failure, reports, complete, honest>>
  BY DEF TransferInv, TransferTypeOK, ReceivePart, PartRanges, progressVars
<1>2. /\ Head(parts) = parts[1] /\ parts' \in Seq(PartRanges) /\ Len(parts') = Len(parts) - 1
      /\ Len(parts) \in Nat \ {0} /\ DOMAIN parts = 1..Len(parts)
      /\ DOMAIN parts' = 1..(Len(parts) - 1)
      /\ \A i \in 1..(Len(parts) - 1) : parts'[i] = parts[i + 1]
      /\ parts[1] \in PartRanges
  BY <1>1, HeadTailProperties
<1>3. Chain(parts, received) /\ received' = parts[1].end /\ Aligned(received')
  BY <1>1, <1>2 DEF TransferInv, PartsInv, Chain
<1>4. Chain(parts', received')
  <2> SUFFICES ASSUME NEW i \in DOMAIN parts'
               PROVE  /\ parts'[i].start = IF i = 1 THEN received' ELSE parts'[i - 1].end
                      /\ parts'[i].end - parts'[i].start \in 1..PartBytes
                      /\ Aligned(parts'[i].end)
    BY DEF Chain
  <2>1. i + 1 \in DOMAIN parts /\ i + 1 # 1 /\ parts'[i] = parts[i + 1]
        /\ (i = 1 => parts[(i + 1) - 1] = parts[1])
        /\ (i # 1 => parts'[i - 1] = parts[(i + 1) - 1])
    BY <1>2
  <2> QED
    BY <1>3, <2>1 DEF Chain
<1>5. LastEnd(parts', received') = LastEnd(parts, received)
  <2>1. CASE Len(parts) = 1
    BY <1>1, <1>2, <1>3, <2>1 DEF LastEnd
  <2>2. CASE Len(parts) # 1
    <3>1. parts' # <<>> /\ parts'[Len(parts')] = parts[Len(parts)]
      BY <1>2, <2>2
    <3> QED
      BY <1>1, <3>1 DEF LastEnd
  <2> QED
    BY <2>1, <2>2
<1>6. PartsInv'
  <2>1. state \notin {"awaiting", "preparing"}
    BY <1>1 DEF TransferInv, PartsInv
  <2> QED
    BY <1>1, <1>3, <1>4, <1>5, <2>1 DEF TransferInv, PartsInv
<1>7. TransferTypeOK'
  BY <1>1, <1>2, <1>3 DEF TransferInv, TransferTypeOK, PartRanges
<1>8. ReportsInv' /\ LoadInv'
  BY <1>1 DEF TransferInv, ReportsInv, LoadInv, Whole
<1> QED
  BY <1>6, <1>7, <1>8 DEF TransferInv

LEMMA WindowMoves ==
  ASSUME NEW n \in Nat, NEW a \in Nat, NEW b \in Nat, NEW w \in Nat, NEW p \in Nat, b >= a
  PROVE  (n < a + w + p => n < b + w + p) /\ (n <= a + w => n <= b + w)
  OBVIOUS

LEMMA HandleMapSizeKeeps == TransferInv /\ HandleMapSize => TransferInv'
<1> SUFFICES ASSUME TransferInv, HandleMapSize PROVE TransferInv'
  OBVIOUS
<1> USE Numbers
<1> DEFINE r == Head(reports)
<1>1. /\ reports \in Seq(Reports) /\ reports # <<>> /\ reports' = Tail(reports)
      /\ UNCHANGED <<parts, received, complete, honest>>
  BY DEF TransferInv, TransferTypeOK, HandleMapSize, warcraftVars
<1>2. /\ r = reports[1] /\ r \in Reports /\ 1 \in DOMAIN reports /\ reports' \in Seq(Reports)
      /\ \A i \in DOMAIN reports' : i + 1 \in DOMAIN reports /\ reports'[i] = reports[i + 1] /\ 1 < i + 1
      /\ \A i, j \in DOMAIN reports' : i < j => i + 1 < j + 1
  <2>1. /\ Len(reports) \in Nat \ {0} /\ DOMAIN reports = 1..Len(reports)
        /\ Tail(reports) \in Seq(Reports) /\ Len(Tail(reports)) = Len(reports) - 1
        /\ \A i \in 1..(Len(reports) - 1) : Tail(reports)[i] = reports[i + 1]
        /\ Head(reports) = reports[1] /\ Head(reports) \in Reports
    BY <1>1, HeadTailProperties
  <2>2. DOMAIN Tail(reports) = 1..(Len(reports) - 1)
    BY <2>1
  <2> QED
    BY <1>1, <2>1, <2>2
<1>3. /\ state \in States /\ task \in Tasks /\ next \in 0..MapBytes /\ acked \in 0..MapBytes
      /\ ready \in 0..1 /\ failure \in Failures
  BY DEF TransferInv, TransferTypeOK
<1>4. honest =>
        /\ r.size <= MapBytes /\ r.flag \in {"has", "continues"}
        /\ r.flag = "continues" => Aligned(r.size)
        /\ Whole(r) => complete
        /\ state = "verified" => Whole(r)
  BY <1>2 DEF TransferInv, ReportsInv
<1> HIDE DEF r
<1>5. ASSUME state' = "verified" => state = "verified" \/ Whole(r),
             honest => failure' \notin {"oversize", "flag", "inconsistent"}
      PROVE  ReportsInv'
  <2> SUFFICES ASSUME honest
               PROVE  /\ \A i \in DOMAIN reports' :
                           /\ reports'[i].size <= MapBytes /\ reports'[i].flag \in {"has", "continues"}
                           /\ reports'[i].flag = "continues" => Aligned(reports'[i].size)
                           /\ Whole(reports'[i]) => complete
                           /\ state' = "verified" => Whole(reports'[i])
                      /\ \A i, j \in DOMAIN reports' :
                           i < j /\ Whole(reports'[i]) => Whole(reports'[j])
                      /\ state' = "verified" => complete
                      /\ failure' \notin {"oversize", "flag", "inconsistent"}
    BY <1>1 DEF ReportsInv, Whole
  <2>1. /\ \A i \in DOMAIN reports :
             /\ reports[i].size <= MapBytes /\ reports[i].flag \in {"has", "continues"}
             /\ reports[i].flag = "continues" => Aligned(reports[i].size)
             /\ Whole(reports[i]) => complete
             /\ state = "verified" => Whole(reports[i])
        /\ \A i, j \in DOMAIN reports : i < j /\ Whole(reports[i]) => Whole(reports[j])
        /\ state = "verified" => complete
    BY DEF TransferInv, ReportsInv
  <2>2. ASSUME NEW i \in DOMAIN reports'
        PROVE  /\ reports'[i].size <= MapBytes /\ reports'[i].flag \in {"has", "continues"}
               /\ reports'[i].flag = "continues" => Aligned(reports'[i].size)
               /\ Whole(reports'[i]) => complete
               /\ state' = "verified" => Whole(reports'[i])
    <3>1. i + 1 \in DOMAIN reports /\ reports'[i] = reports[i + 1] /\ 1 < i + 1
      BY <1>2
    <3>2. Whole(r) => Whole(reports[i + 1])
      BY <1>2, <2>1, <3>1
    <3> QED
      BY <1>5, <2>1, <3>1, <3>2
  <2>3. \A i, j \in DOMAIN reports' : i < j /\ Whole(reports'[i]) => Whole(reports'[j])
    BY <1>2, <2>1
  <2>4. state' = "verified" => complete
    BY <1>4, <1>5, <2>1
  <2> QED
    BY <1>5, <2>2, <2>3, <2>4
<1>6. \/ Whole(r) /\ Verify
      \/ r.size > MapBytes /\ Fail("oversize")
      \/ r.size <= MapBytes /\ r.flag = "other" /\ Fail("flag")
      \/ ~Whole(r) /\ r.size <= MapBytes /\ r.flag # "other" /\ Answer(r)
  BY DEF HandleMapSize, r
<1>7. ASSUME NEW why \in {"oversize", "flag", "inconsistent"}, Fail(why), ~honest
      PROVE  TransferInv'
  <2>1. UNCHANGED <<state, task, next, acked, age, idle, ready>> /\ failure' = why
    BY <1>7 DEF Fail, progressVars
  <2>2. TransferTypeOK'
    BY <1>1, <1>2, <2>1 DEF TransferInv, TransferTypeOK, Failures
  <2>3. PartsInv' /\ LoadInv'
    BY <1>1, <2>1 DEF TransferInv, PartsInv, LoadInv
  <2>4. ReportsInv'
    BY <1>1, <1>7 DEF ReportsInv
  <2> QED
    BY <2>2, <2>3, <2>4 DEF TransferInv
<1>8. CASE Whole(r) /\ Verify
  <2>1. /\ state' = "verified" /\ task' \in Tasks /\ task' # "running" /\ ready' = 1
        /\ UNCHANGED <<next, acked, age, idle, failure>>
    <3>1. task' \in Tasks /\ task' # "running"
      BY <1>3, <1>8 DEF Verify, Aborted, Tasks, TransferInv, LoadInv
    <3>2. ready' = 1
      <4>1. ready \in 0..1 /\ (ready = 1 <=> state = "verified")
        BY <1>3 DEF TransferInv, LoadInv
      <4> QED
        BY <1>8, <4>1 DEF Verify, BecomesReady
    <3> QED
      BY <1>8, <3>1, <3>2 DEF Verify
  <2>2. TransferTypeOK'
    BY <1>1, <1>2, <2>1 DEF TransferInv, TransferTypeOK, States
  <2>3. PartsInv' /\ LoadInv'
    BY <1>1, <2>1 DEF TransferInv, PartsInv, LoadInv
  <2>4. ReportsInv'
    BY <1>5, <1>8, <2>1 DEF TransferInv, ReportsInv
  <2> QED
    BY <2>2, <2>3, <2>4 DEF TransferInv
<1>9. CASE ~Whole(r) /\ r.size <= MapBytes /\ r.flag # "other" /\ Answer(r)
  <2>1. CASE state = "verified" /\ Fail("inconsistent")
    BY <1>4, <1>7, <1>9, <2>1
  <2>2. CASE UNCHANGED <<progressVars, ready, failure>>
    <3>1. UNCHANGED <<state, task, next, acked, age, idle, ready, failure>>
      BY <2>2 DEF progressVars
    <3>2. TransferTypeOK'
      BY <1>1, <1>2, <3>1 DEF TransferInv, TransferTypeOK
    <3>3. PartsInv' /\ LoadInv'
      BY <1>1, <3>1 DEF TransferInv, PartsInv, LoadInv
    <3>4. ReportsInv'
      BY <1>5, <3>1 DEF TransferInv, ReportsInv
    <3> QED
      BY <3>2, <3>3, <3>4 DEF TransferInv
  <2>3. CASE state = "awaiting" /\ StartDownload
    <3>1. /\ state' = "preparing" /\ task' = "running" /\ age' = 0
          /\ UNCHANGED <<next, acked, idle, ready, failure>>
      BY <2>3 DEF StartDownload
    <3>2. TransferTypeOK'
      BY <1>1, <1>2, <3>1, LongestFacts DEF TransferInv, TransferTypeOK, States, Tasks
    <3>3. PartsInv' /\ LoadInv'
      BY <1>1, <2>3, <3>1 DEF TransferInv, PartsInv, LoadInv
    <3>4. ReportsInv'
      BY <1>5, <3>1 DEF TransferInv, ReportsInv
    <3> QED
      BY <3>2, <3>3, <3>4 DEF TransferInv
  <2>4. CASE state = "downloading" /\ Acknowledge(r)
    <3>1. /\ acked' \in 0..MapBytes /\ acked' >= acked /\ idle' \in {0, idle}
          /\ acked' = acked \/ (acked' = r.size /\ r.flag = "continues")
          /\ UNCHANGED <<state, task, next, age, ready, failure>>
      BY <1>2, <1>3, <1>9, <2>4 DEF Acknowledge, Reports
    <3>2. TransferTypeOK'
      BY <1>1, <1>2, <3>1, LongestFacts DEF TransferInv, TransferTypeOK
    <3>3. PartsInv'
      <4>0. /\ next < acked + Window + PartBytes
            /\ honest => Aligned(acked) /\ next <= acked + Window
            /\ acked \in Nat /\ acked' \in Nat /\ next \in Nat /\ acked' >= acked
        BY <1>3, <3>1 DEF TransferInv, PartsInv
      <4>1. honest => Aligned(acked')
        BY <1>4, <3>1, <4>0
      <4>2. /\ honest => next <= acked' + Window
            /\ next < acked' + Window + PartBytes
        <5>1. /\ next < acked + Window + PartBytes /\ (honest => next <= acked + Window)
              /\ acked \in Nat /\ acked' \in Nat /\ next \in Nat /\ acked' >= acked
              /\ Window \in Nat /\ PartBytes \in Nat
          BY <4>0
        <5> QED
          BY <5>1, WindowMoves
      <4> QED
        BY <1>1, <2>4, <3>1, <4>1, <4>2 DEF TransferInv, PartsInv
    <3>4. LoadInv'
      BY <3>1 DEF TransferInv, LoadInv
    <3>5. ReportsInv'
      BY <1>5, <3>1 DEF TransferInv, ReportsInv
    <3> QED
      BY <3>2, <3>3, <3>4, <3>5 DEF TransferInv
  <2> QED
    BY <1>9, <2>1, <2>2, <2>3, <2>4 DEF Answer
<1> QED
  BY <1>2, <1>4, <1>6, <1>7, <1>8, <1>9 DEF Reports

(* What leaves the parts, the reports and the session's stage alone. *)
LEMMA QuietKeeps ==
  ASSUME TransferInv, UNCHANGED <<state, next, acked, ready, parts, reports, warcraftVars>>,
         task' \in Tasks, task' = "running" => task = "running",
         age' \in 0..(Longest + 1), idle' \in 0..(Longest + 1), failure' \in Failures,
         failure' \in {"oversize", "flag", "inconsistent"} => failure' = failure
  PROVE  TransferInv'
<1>1. UNCHANGED <<received, complete, honest>>
  BY DEF warcraftVars
<1>2. TransferTypeOK'
  BY <1>1 DEF TransferInv, TransferTypeOK
<1>3. PartsInv' /\ LoadInv'
  BY <1>1 DEF TransferInv, PartsInv, LoadInv
<1>4. ReportsInv'
  BY <1>1 DEF TransferInv, ReportsInv, Whole
<1> QED
  BY <1>2, <1>3, <1>4 DEF TransferInv

(* A window that is sent, by the first tick of a download or a later one.  *)
LEMMA SentKeeps ==
  ASSUME TransferInv, NEW n \in 0..MapBytes, NEW a \in 0..MapBytes, SendWindow(n, a),
         Aligned(n), n = LastEnd(parts, received), n < a + Window + PartBytes,
         honest => Aligned(a) /\ n <= a + Window,
         state' = "downloading", task' \in Tasks \ {"running"}, acked' = a,
         state \in {"preparing", "downloading"},
         age' \in 0..(Longest + 1), idle' \in 0..(Longest + 1),
         UNCHANGED <<ready, failure, reports, warcraftVars>>
  PROVE  TransferInv'
<1>1. UNCHANGED <<received, complete, honest>>
  BY DEF warcraftVars
<1>2. parts \in Seq(PartRanges) /\ received \in 0..MapBytes /\ Chain(parts, received)
      /\ Aligned(received)
  BY DEF TransferInv, TransferTypeOK, PartsInv, PartRanges
<1>3. /\ parts' \in Seq(PartRanges) /\ Chain(parts', received)
      /\ next' = LastEnd(parts', received) /\ next' \in 0..MapBytes /\ Aligned(next')
      /\ next' < a + Window + PartBytes
      /\ Aligned(a) /\ n <= a + Window => next' <= a + Window
  BY <1>2, WindowSent
<1>4. TransferTypeOK'
  BY <1>1, <1>3 DEF TransferInv, TransferTypeOK, PartRanges, States
<1>5. PartsInv'
  BY <1>1, <1>2, <1>3 DEF PartsInv
<1>6. ReportsInv'
  BY <1>1 DEF TransferInv, ReportsInv, Whole
<1>7. LoadInv'
  BY DEF TransferInv, LoadInv
<1> QED
  BY <1>4, <1>5, <1>6, <1>7 DEF TransferInv

LEMMA AdvanceKeeps == TransferInv /\ Advance => TransferInv'
<1> SUFFICES ASSUME TransferInv, Advance PROVE TransferInv'
  OBVIOUS
<1> USE Numbers, LongestFacts
<1>1. /\ task \in Tasks /\ next \in 0..MapBytes /\ acked \in 0..MapBytes
      /\ age \in 0..(Longest + 1) /\ idle \in 0..(Longest + 1)
  BY DEF TransferInv, TransferTypeOK
<1>2. UNCHANGED <<reports, warcraftVars>>
  BY DEF Advance
<1>3. ASSUME NEW why \in {"preparation", "load", "stall", "total"}, Fail(why), UNCHANGED parts
      PROVE  TransferInv'
  BY <1>1, <1>2, <1>3, QuietKeeps DEF Fail, progressVars, Failures
<1>4. CASE state = "downloading" /\ SendWindow(next, acked) /\
           UNCHANGED <<state, task, acked, age, idle, ready, failure>>
  <2>1. task # "running"
    BY <1>4 DEF TransferInv, LoadInv
  <2> QED
    BY <1>1, <1>2, <1>4, <2>1, SentKeeps DEF TransferInv, PartsInv
<1>5. CASE state = "preparing" /\ state' = "downloading" /\ task' = "none" /\ SendWindow(0, 0) /\
           acked' = 0 /\ age' = 0 /\ idle' = 0 /\ UNCHANGED <<ready, failure>>
  <2>1. parts = <<>> /\ received = 0 /\ Aligned(received)
    BY <1>5 DEF TransferInv, PartsInv
  <2>2. LastEnd(parts, received) = 0 /\ Aligned(0)
    BY <2>1 DEF LastEnd
  <2>3. "none" \in Tasks
    BY DEF Tasks
  <2> QED
    BY <1>2, <1>5, <2>2, <2>3, SentKeeps
<1>6. CASE Download
  BY <1>3, <1>4, <1>6 DEF Download, Sends
<1>7. CASE Prepare
  BY <1>3, <1>5, <1>7 DEF Prepare
<1> QED
  BY <1>6, <1>7 DEF Advance

LEMMA TransferStepKept == TransferInv /\ [TransferNext]_transferVars => TransferInv'
<1> SUFFICES ASSUME TransferInv, [TransferNext]_transferVars PROVE TransferInv'
  OBVIOUS
<1>1. /\ task \in Tasks /\ failure \in Failures
      /\ age \in 0..(Longest + 1) /\ idle \in 0..(Longest + 1)
  BY DEF TransferInv, TransferTypeOK
<1>2. CASE WarcraftStep
  BY <1>2, WarcraftReportKeeps, ReceivePartKeeps DEF WarcraftStep
<1>3. CASE HandleMapSize
  BY <1>3, HandleMapSizeKeeps
<1>4. CASE LoadEnds
  <2>1. task' \in {"loaded", "failed"} /\ task' \in Tasks
    BY <1>4 DEF LoadEnds, Tasks
  <2> QED
    BY <1>1, <1>4, <2>1, QuietKeeps DEF LoadEnds
<1>5. CASE Advance
  BY <1>5, AdvanceKeeps
<1>6. CASE Pass
  <2>1. age' \in 0..(Longest + 1) /\ idle' \in 0..(Longest + 1)
    BY <1>1, <1>6, LongestFacts DEF Pass, Older
  <2> QED
    BY <1>1, <1>6, <2>1, QuietKeeps DEF Pass
<1>7. CASE UNCHANGED transferVars
  BY <1>1, <1>7, QuietKeeps DEF transferVars, progressVars
<1> QED
  BY <1>2, <1>3, <1>4, <1>5, <1>6, <1>7 DEF TransferNext

(* The parts, the reports and the room's news agree at every moment of a   *)
(* transfer (TransferInv): what the two theorems below follow from.        *)
THEOREM TransferHolds == TransferSpec => []TransferInv
  BY TransferInitKept, TransferStepKept, PTL DEF TransferSpec

(* Warcraft receives the map in order and without a gap, and the window is *)
(* kept, for maps, parts and windows of any size and whatever it reports.  *)
THEOREM PartsInOrderAlways == TransferSpec => []PartsInOrder
<1>1. TransferInv => PartsInOrder
  BY DEF TransferInv, PartsInv, PartsInOrder, Chain, LastEnd
<1> QED
  BY <1>1, TransferHolds, PTL

(* A Warcraft that keeps to the protocol is rejected in no order of its    *)
(* reports, the load and the ticks, and the room is told that its player   *)
(* is ready once, when it has the map and no load is left running.         *)
THEOREM HonestWarcraftGetsReadyAlways == TransferSpec => []HonestWarcraftGetsReady
<1>1. TransferInv => HonestWarcraftGetsReady
  BY DEF TransferInv, ReportsInv, LoadInv, HonestWarcraftGetsReady
<1> QED
  BY <1>1, TransferHolds, PTL

----------------------------------------------------------------------------
(* The map cache. *)

(* A load has a name for its file from the moment it takes it, and only    *)
(* then; a load of the agent that runs now took a name of its own.         *)
NamesInv ==
  /\ \A i \in Loads : loadStage[i] \in {"idle", "waiting", "installed", "cached", "naming"} =>
       temporary[i] = NoName
  /\ \A i \in Loads : loadStage[i] \in {"opening", "reading", "renaming", "removing"} =>
       temporary[i] # NoName
  /\ \A i \in Loads : temporary[i] # NoName =>
       \E k \in Nat : k < sequence /\ temporary[i] = <<pid, k>>
  /\ \A i, j \in Loads : temporary[i] # NoName /\ temporary[i] = temporary[j] => i = j

FilesInv ==
  \A i \in Loads : loadStage[i] \in {"reading", "renaming"} => temporary[i] \in DOMAIN directory

CacheInv == CacheTypeOK /\ NamesInv /\ FilesInv

LEMMA NameFacts == NoName \notin TemporaryNames
  BY DEF NoName, TemporaryNames

LEMMA LoadSets ==
  /\ \A i \in Loads : i \in Lobbies \/ i \in Sessions
  /\ OwnLobby \in [Loads -> Lobbies] /\ Prefetches \in [Loads -> Stages]
  /\ \A i \in Loads : Prefetches[i] \in {"waiting", "idle"}
<1>1. ASSUME NEW i \in Loads
      PROVE  (IF i \in Lobbies THEN i ELSE CHOOSE l \in Lobbies : TRUE) \in Lobbies
  BY CacheAssumption DEF CacheAssumption, Loads
<1> QED
  BY <1>1 DEF OwnLobby, Prefetches, Loads, Stages

(* A load that goes on to a stage where its file is not in use. *)
LEMMA MovesOn ==
  ASSUME CacheInv, NEW i \in Loads, NEW to \in Stages, Move(i, to),
         UNCHANGED <<lobbyOf, temporary, installed, cacheFile, pid, sequence>>,
         cell' \in [Lobbies -> {"absent", "map"}],
         \/ to \in {"waiting", "installed", "cached", "naming"} /\ temporary[i] = NoName
         \/ to \in Finished
         \/ to = "removing" /\ temporary[i] # NoName,
         directory' = directory
  PROVE  CacheInv'
<1>1. /\ loadStage' \in [Loads -> Stages] /\ loadStage'[i] = to
      /\ \A j \in Loads : j # i => loadStage'[j] = loadStage[j]
  BY DEF CacheInv, CacheTypeOK, Move
<1>2. CacheTypeOK'
  BY <1>1 DEF CacheInv, CacheTypeOK
<1>3. NamesInv'
  <2>1. \A j \in Loads : loadStage'[j] \in {"idle", "waiting", "installed", "cached", "naming"} =>
          temporary[j] = NoName
    BY <1>1 DEF CacheInv, NamesInv, Finished
  <2>2. \A j \in Loads : loadStage'[j] \in {"opening", "reading", "renaming", "removing"} =>
          temporary[j] # NoName
    BY <1>1 DEF CacheInv, NamesInv, Finished
  <2> QED
    BY <2>1, <2>2 DEF CacheInv, NamesInv
<1>4. FilesInv'
  BY <1>1 DEF CacheInv, FilesInv, Finished
<1> QED
  BY <1>2, <1>3, <1>4 DEF CacheInv

(* A load that writes, renames or removes its own file.  Those of other    *)
(* loads stay.                                                             *)
LEMMA OwnFile ==
  ASSUME CacheInv, NEW i \in Loads, NEW to \in Stages, Move(i, to),
         loadStage[i] \in {"opening", "reading", "renaming", "removing"},
         UNCHANGED <<lobbyOf, temporary, installed, pid, sequence>>,
         cell' \in [Lobbies -> {"absent", "map"}], cacheFile' \in Contents,
         \/ to \in Finished \cup {"removing"}
         \/ to \in {"reading", "renaming"} /\ temporary[i] \in DOMAIN directory',
         \A n \in DOMAIN directory : n # temporary[i] => n \in DOMAIN directory',
         DOMAIN directory' \subseteq DOMAIN directory \cup {temporary[i]},
         \A n \in DOMAIN directory' : directory'[n] \in Contents
  PROVE  CacheInv'
<1>1. /\ loadStage' \in [Loads -> Stages] /\ loadStage'[i] = to
      /\ \A j \in Loads : j # i => loadStage'[j] = loadStage[j]
  BY DEF CacheInv, CacheTypeOK, Move
<1>2. temporary[i] \in TemporaryNames /\ temporary[i] # NoName
  BY DEF CacheInv, CacheTypeOK, NamesInv
<1>3. CacheTypeOK'
  BY <1>1, <1>2 DEF CacheInv, CacheTypeOK
<1>4. NamesInv'
  <2>1. \A j \in Loads : loadStage'[j] \in {"idle", "waiting", "installed", "cached", "naming"} =>
          temporary[j] = NoName
    BY <1>1 DEF CacheInv, NamesInv, Finished
  <2>2. \A j \in Loads : loadStage'[j] \in {"opening", "reading", "renaming", "removing"} =>
          temporary[j] # NoName
    BY <1>1, <1>2 DEF CacheInv, NamesInv
  <2> QED
    BY <2>1, <2>2 DEF CacheInv, NamesInv
<1>5. FilesInv'
  <2> SUFFICES ASSUME NEW j \in Loads, loadStage'[j] \in {"reading", "renaming"}
               PROVE  temporary[j] \in DOMAIN directory'
    BY DEF FilesInv
  <2>1. CASE j = i
    BY <1>1, <2>1 DEF Finished
  <2>2. CASE j # i
    <3>1. temporary[j] # temporary[i]
      BY <1>2, <2>2 DEF CacheInv, NamesInv
    <3> QED
      BY <1>1, <2>2, <3>1 DEF CacheInv, FilesInv
  <2> QED
    BY <2>1, <2>2
<1> QED
  BY <1>3, <1>4, <1>5 DEF CacheInv

LEMMA KeepTyped ==
  ASSUME CacheInv, NEW i \in Loads, cell' = [cell EXCEPT ![lobbyOf[i]] = "map"]
  PROVE  cell' \in [Lobbies -> {"absent", "map"}]
  BY DEF CacheInv, CacheTypeOK

LEMMA LookKeeps ==
  ASSUME CacheInv, NEW i \in Loads, LookInstalled(i) \/ LookCached(i)
  PROVE  CacheInv'
<1>1. PICK to \in {"loaded", "cached", "naming"} :
        /\ Move(i, to)
        /\ cell' = cell \/ cell' = [cell EXCEPT ![lobbyOf[i]] = "map"]
  BY DEF LookInstalled, LookCached, Look, Keep, Valid
<1>2. cell' \in [Lobbies -> {"absent", "map"}]
  BY <1>1, KeepTyped DEF CacheInv, CacheTypeOK
<1>3. /\ temporary[i] = NoName /\ directory' = directory
      /\ UNCHANGED <<lobbyOf, temporary, installed, cacheFile, pid, sequence>>
  BY DEF LookInstalled, LookCached, Look, CacheInv, NamesInv
<1>4. to \in Stages /\ (to = "loaded" => to \in Finished)
  BY DEF Stages, Initializing, Finished
<1> QED
  BY <1>1, <1>2, <1>3, <1>4, MovesOn

LEMMA BeginKeeps ==
  ASSUME CacheInv, NEW i \in Loads, GetOrTryInit(i) \/ (\E l \in Lobbies : Request(i, l)) \/ Abort(i)
  PROVE  CacheInv'
<1>1. CASE GetOrTryInit(i)
  <2>1. PICK to \in {"loaded", "installed"} : Move(i, to)
    BY <1>1 DEF GetOrTryInit
  <2>2. to \in Stages /\ (to = "loaded" => to \in Finished)
    BY DEF Stages, Initializing, Finished
  <2>3. /\ temporary[i] = NoName /\ directory' = directory /\ cell' = cell
        /\ UNCHANGED <<lobbyOf, temporary, installed, cacheFile, pid, sequence>>
    BY <1>1 DEF GetOrTryInit, CacheInv, NamesInv
  <2>4. cell' \in [Lobbies -> {"absent", "map"}]
    BY <2>3 DEF CacheInv, CacheTypeOK
  <2> QED
    BY <2>1, <2>2, <2>3, <2>4, MovesOn
<1>2. ASSUME NEW l \in Lobbies, Request(i, l)
      PROVE  CacheInv'
  <2>1. /\ loadStage' \in [Loads -> Stages] /\ loadStage'[i] = "waiting" /\ loadStage[i] = "idle"
        /\ \A j \in Loads : j # i => loadStage'[j] = loadStage[j]
    BY <1>2 DEF CacheInv, CacheTypeOK, Move, Request, Stages
  <2>2. UNCHANGED <<cell, temporary, installed, cacheFile, directory, pid, sequence>>
        /\ lobbyOf' \in [Loads -> Lobbies]
    BY <1>2 DEF CacheInv, CacheTypeOK, Request
  <2>3. CacheTypeOK'
    BY <2>1, <2>2 DEF CacheInv, CacheTypeOK
  <2>4. NamesInv'
    BY <2>1, <2>2 DEF CacheInv, NamesInv
  <2>5. FilesInv'
    BY <2>1, <2>2 DEF CacheInv, FilesInv
  <2> QED
    BY <2>3, <2>4, <2>5 DEF CacheInv
<1>3. CASE Abort(i)
  <2>1. "aborted" \in Stages /\ "aborted" \in Finished
    BY DEF Stages, Finished
  <2>2. cell' \in [Lobbies -> {"absent", "map"}]
    BY <1>3 DEF CacheInv, CacheTypeOK, Abort
  <2> QED
    BY <1>3, <2>1, <2>2, MovesOn DEF Abort
<1> QED
  BY <1>1, <1>2, <1>3

LEMMA TakeNameKeeps ==
  ASSUME CacheInv, NEW i \in Loads, TakeName(i)
  PROVE  CacheInv'
<1>1. /\ loadStage' \in [Loads -> Stages] /\ loadStage'[i] = "opening" /\ loadStage[i] = "naming"
      /\ \A j \in Loads : j # i => loadStage'[j] = loadStage[j]
  BY DEF CacheInv, CacheTypeOK, Move, TakeName, Stages, Initializing
<1>2. /\ sequence \in Nat /\ pid \in ProcessIds /\ sequence' = sequence + 1
      /\ UNCHANGED <<cell, lobbyOf, installed, cacheFile, directory, pid>>
  BY DEF CacheInv, CacheTypeOK, TakeName
<1>3. <<pid, sequence>> \in TemporaryNames /\ <<pid, sequence>> # NoName
  BY <1>2, NameFacts DEF TemporaryNames
<1>4. /\ temporary' \in [Loads -> TemporaryNames \cup {NoName}]
      /\ temporary'[i] = <<pid, sequence>>
      /\ \A j \in Loads : j # i => temporary'[j] = temporary[j]
  BY <1>3 DEF CacheInv, CacheTypeOK, TakeName, TemporaryName
<1>5. CacheTypeOK'
  BY <1>1, <1>2, <1>4 DEF CacheInv, CacheTypeOK
<1>6. NamesInv'
  <2>1. \A j \in Loads : loadStage'[j] \in {"idle", "waiting", "installed", "cached", "naming"} =>
          temporary'[j] = NoName
    BY <1>1, <1>4 DEF CacheInv, NamesInv
  <2>2. \A j \in Loads : loadStage'[j] \in {"opening", "reading", "renaming", "removing"} =>
          temporary'[j] # NoName
    BY <1>1, <1>3, <1>4 DEF CacheInv, NamesInv
  <2>3. ASSUME NEW j \in Loads, temporary'[j] # NoName
        PROVE  \E k \in Nat : k < sequence' /\ temporary'[j] = <<pid', k>>
    BY <1>2, <1>4, <2>3 DEF CacheInv, NamesInv
  <2>4. ASSUME NEW j \in Loads, j # i
        PROVE  temporary'[j] # temporary'[i]
    <3>1. CASE temporary[j] = NoName
      BY <1>3, <1>4, <2>4, <3>1
    <3>2. CASE temporary[j] # NoName
      <4>1. PICK k \in Nat : k < sequence /\ temporary[j] = <<pid, k>>
        BY <3>2 DEF CacheInv, NamesInv
      <4> QED
        BY <1>2, <1>4, <2>4, <4>1
    <3> QED
      BY <3>1, <3>2
  <2>5. \A j, l \in Loads : temporary'[j] # NoName /\ temporary'[j] = temporary'[l] => j = l
    BY <1>4, <2>4 DEF CacheInv, NamesInv
  <2> QED
    BY <2>1, <2>2, <2>3, <2>5 DEF NamesInv
<1>7. FilesInv'
  BY <1>1, <1>2, <1>4 DEF CacheInv, FilesInv
<1> QED
  BY <1>5, <1>6, <1>7 DEF CacheInv

LEMMA DownloadKeeps ==
  ASSUME CacheInv, NEW i \in Loads,
         OpenTemporary(i) \/ ReadResponse(i) \/ Install(i) \/ RemoveTemporary(i)
  PROVE  CacheInv'
<1> DEFINE name == temporary[i]
<1>1. /\ loadStage[i] \in {"opening", "reading", "renaming", "removing"}
      /\ UNCHANGED <<lobbyOf, temporary, installed, pid, sequence>>
  BY DEF OpenTemporary, ReadResponse, Install, RemoveTemporary
<1>2. /\ cacheFile \in Contents /\ (\A n \in DOMAIN directory : directory[n] \in Contents)
      /\ cell \in [Lobbies -> {"absent", "map"}]
  BY DEF CacheInv, CacheTypeOK
<1>3. ASSUME NEW contents \in Contents
      PROVE  /\ DOMAIN With(name, contents) = DOMAIN directory \cup {name}
             /\ \A n \in DOMAIN With(name, contents) : With(name, contents)[n] \in Contents
  BY <1>2 DEF With
<1>4. /\ DOMAIN Without(name) = DOMAIN directory \ {name}
      /\ \A n \in DOMAIN Without(name) : Without(name)[n] \in Contents
  BY <1>2 DEF Without
<1>5. {"partial", "map"} \subseteq Contents
      /\ {"reading", "renaming", "removing", "failed", "loaded"} \subseteq Stages
      /\ {"failed", "loaded"} \subseteq Finished
  BY DEF Contents, Stages, Initializing, Finished
<1>6. CASE OpenTemporary(i)
  <2>1. CASE Move(i, "removing") /\ UNCHANGED directory
    BY <1>1, <1>2, <1>5, <1>6, <2>1, OwnFile DEF OpenTemporary
  <2>2. CASE directory' = With(name, "partial") /\ Move(i, "reading")
    BY <1>1, <1>2, <1>3, <1>5, <1>6, <2>2, OwnFile DEF OpenTemporary
  <2> QED
    BY <1>6, <2>1, <2>2 DEF OpenTemporary
<1>7. CASE ReadResponse(i)
  <2>1. CASE Move(i, "removing") /\ UNCHANGED directory
    BY <1>1, <1>2, <1>5, <1>7, <2>1, OwnFile DEF ReadResponse
  <2>2. CASE Move(i, "renaming") /\ directory' = With(name, "map")
    BY <1>1, <1>2, <1>3, <1>5, <1>7, <2>2, OwnFile DEF ReadResponse
  <2>3. name \in DOMAIN directory
    BY <1>7 DEF ReadResponse, CacheInv, FilesInv
  <2> QED
    BY <1>7, <2>1, <2>2, <2>3 DEF ReadResponse, Verified
<1>8. CASE Install(i)
  <2>1. CASE Move(i, "removing") /\ UNCHANGED <<cell, cacheFile, directory>>
    BY <1>1, <1>2, <1>5, <1>8, <2>1, OwnFile
  <2>2. CASE name \in DOMAIN directory /\ cacheFile' = directory[name] /\
             directory' = Without(name) /\ Keep(i, "map")
    <3>1. cell' \in [Lobbies -> {"absent", "map"}] /\ Move(i, "loaded")
      BY <2>2, KeepTyped DEF Keep
    <3> QED
      BY <1>1, <1>2, <1>4, <1>5, <2>2, <3>1, OwnFile
  <2> QED
    BY <1>8, <2>1, <2>2 DEF Install
<1>9. CASE RemoveTemporary(i)
  <2>1. /\ Move(i, "failed") /\ directory' = Without(name) /\ cell' = cell
        /\ cacheFile' = cacheFile
    BY <1>9 DEF RemoveTemporary
  <2> QED
    BY <1>1, <1>2, <1>4, <1>5, <2>1, OwnFile
<1> QED
  BY <1>6, <1>7, <1>8, <1>9

(* A new agent has no load of the one before it, whose files may be left.  *)
LEMMA FreshLoads ==
  ASSUME loadStage' = Prefetches, lobbyOf' = OwnLobby, temporary' = [i \in Loads |-> NoName],
         cell' = [l \in Lobbies |-> "absent"], installed' \in Contents, cacheFile' \in Contents,
         DOMAIN directory' \subseteq TemporaryNames,
         \A n \in DOMAIN directory' : directory'[n] \in Contents,
         pid' \in ProcessIds, sequence' = 1
  PROVE  CacheInv'
<1>1. CacheTypeOK'
  BY LoadSets DEF CacheTypeOK
<1>2. \A i \in Loads : loadStage'[i] \in {"waiting", "idle"} /\ temporary'[i] = NoName
  BY LoadSets
<1> QED
  BY <1>1, <1>2 DEF CacheInv, NamesInv, FilesInv

LEMMA CacheInitKept == CacheInit => CacheInv
<1> SUFFICES ASSUME CacheInit PROVE CacheInv
  OBVIOUS
<1>1. CacheTypeOK
  BY LoadSets DEF CacheInit, CacheTypeOK, Contents
<1>2. \A i \in Loads : loadStage[i] \in {"waiting", "idle"} /\ temporary[i] = NoName
  BY LoadSets DEF CacheInit
<1> QED
  BY <1>1, <1>2 DEF CacheInv, NamesInv, FilesInv

LEMMA CacheStepKept == CacheInv /\ [CacheNext]_cacheVars => CacheInv'
<1> SUFFICES ASSUME CacheInv, [CacheNext]_cacheVars PROVE CacheInv'
  OBVIOUS
<1>1. ASSUME NEW i \in Loads, LoadStep(i) \/ Abort(i) \/ (\E l \in Lobbies : Request(i, l))
      PROVE  CacheInv'
  BY <1>1, BeginKeeps, LookKeeps, TakeNameKeeps, DownloadKeeps DEF LoadStep
<1>2. CASE RestartAgent
  <2>1. installed' \in Contents /\ cacheFile' \in Contents /\ directory' = directory
    BY <1>2 DEF RestartAgent, CacheInv, CacheTypeOK
  <2>2. DOMAIN directory \subseteq TemporaryNames /\ \A n \in DOMAIN directory : directory[n] \in Contents
    BY DEF CacheInv, CacheTypeOK
  <2> QED
    BY <1>2, <2>1, <2>2, FreshLoads DEF RestartAgent
<1>3. CASE Damage
  <2>1. installed' \in Contents /\ cacheFile' \in Contents
    BY <1>3 DEF Damage, CacheInv, CacheTypeOK, Contents
  <2>2. UNCHANGED <<cell, loadVars, directory, pid, sequence>>
    BY <1>3 DEF Damage
  <2> QED
    BY <2>1, <2>2 DEF CacheInv, CacheTypeOK, NamesInv, FilesInv, loadVars
<1>4. CASE UNCHANGED cacheVars
  BY <1>4 DEF CacheInv, CacheTypeOK, NamesInv, FilesInv, loadVars, cacheVars
<1> QED
  BY <1>1, <1>2, <1>3, <1>4 DEF CacheNext

(* However the loads of any number of lobbies and sessions run, fail, are  *)
(* aborted and leave their files to later agents, no download loses its    *)
(* temporary file to another.                                              *)
THEOREM DownloadsKeepTheirFilesAlways == CacheSpec => []DownloadsKeepTheirFiles
<1>1. CacheInv => DownloadsKeepTheirFiles
  BY DEF CacheInv, NamesInv, FilesInv, DownloadsKeepTheirFiles
<1> QED
  BY <1>1, CacheInitKept, CacheStepKept, PTL DEF CacheSpec

----------------------------------------------------------------------------
(* The frame reader. *)

(* The bytes that were written and not yet returned or dropped. *)
Stream == held \o arrived \o wire

(* The bytes of a part of the stream follow each other: those of a frame   *)
(* in their order, and one frame after the other.                          *)
InOrder(bytes, lengths) ==
  \A i \in DOMAIN bytes :
    /\ bytes[i].at \in 1..bytes[i].length
    /\ bytes[i].frame \in DOMAIN lengths /\ bytes[i].length = lengths[bytes[i].frame]
    /\ \A j \in DOMAIN bytes : i < j /\ j <= i + (bytes[i].length - bytes[i].at) =>
         bytes[j].frame = bytes[i].frame /\ bytes[j].at = bytes[i].at + (j - i)
    /\ \A j \in DOMAIN bytes : i < j /\ j > i + (bytes[i].length - bytes[i].at) =>
         bytes[j].frame > bytes[i].frame
    /\ \A j \in DOMAIN bytes : j = i + (bytes[i].length - bytes[i].at) + 1 =>
         bytes[j].frame = bytes[i].frame + 1 /\ bytes[j].at = 1

(* And it ends with the end of the last frame. *)
ToTheEnd(bytes, lengths) ==
  \A i \in DOMAIN bytes :
    /\ i + (bytes[i].length - bytes[i].at) <= Len(bytes)
    /\ i + (bytes[i].length - bytes[i].at) = Len(bytes) => bytes[i].frame = Len(lengths)

Increasing(frames) ==
  \A i, j \in DOMAIN frames :
    i < j /\ frames[i] # 0 /\ frames[j] # 0 => frames[i] < frames[j]

Known(frames, lengths) == \A j \in DOMAIN frames : frames[j] <= Len(lengths)

(* A frame that begins in what is left was not returned, nor a later one. *)
Ahead(bytes, frames) ==
  \A j \in DOMAIN frames, i \in DOMAIN bytes : bytes[i].at = 1 => frames[j] < bytes[i].frame

(* What is left begins at the first frame not returned yet. *)
FromTheStart(bytes, frames, lengths, short) ==
  /\ frames = [i \in 1..Len(frames) |-> i]
  /\ bytes # <<>> => bytes[1].at = 1 /\ bytes[1].frame = Len(frames) + 1
  /\ bytes = <<>> /\ ~short => Len(frames) = Len(lengths)

(* The parts of the invariant: the bytes, the frames, and a reader that    *)
(* has dropped nothing.                                                    *)
BytesInv ==
  /\ InOrder(Stream, written)
  /\ ~cut => ToTheEnd(Stream, written)
  /\ cut => closed
  /\ outcome = "none" => closed /\ Stream = <<>>

FramesInv ==
  /\ Increasing(delivered) /\ Known(delivered, written)
  /\ Ahead(Stream, delivered)

WholeReadInv ==
  ~dropped =>
    /\ FromTheStart(Stream, delivered, written, cut)
    /\ outcome = "error" => cut \/ JoinTooLong
    /\ held # <<>> => Len(held) < HeaderLength \/ Len(held) < held[1].length

ReaderInv ==
  /\ ReaderTypeOK /\ Len(written) <= MaxFrames
  /\ BytesInv /\ FramesInv /\ WholeReadInv

(* A sequence that begins, after m elements, in the middle of another. *)
IsSuffix(r, s, m) ==
  /\ m \in Nat /\ Len(r) = Len(s) - m
  /\ DOMAIN r = 1..Len(r) /\ DOMAIN s = 1..Len(s) /\ Len(r) \in Nat /\ Len(s) \in Nat
  /\ \A i \in DOMAIN r : r[i] = s[i + m]

LEMMA ThreePieces ==
  ASSUME NEW S, NEW h \in Seq(S), NEW a \in Seq(S), NEW w \in Seq(S)
  PROVE  LET s == h \o a \o w IN
         /\ s \in Seq(S) /\ Len(s) = Len(h) + Len(a) + Len(w)
         /\ Len(h) \in Nat /\ Len(a) \in Nat /\ Len(w) \in Nat
         /\ h \o a \in Seq(S) /\ Len(h \o a) = Len(h) + Len(a)
         /\ DOMAIN s = 1..Len(s) /\ DOMAIN h = 1..Len(h) /\ DOMAIN a = 1..Len(a)
         /\ DOMAIN w = 1..Len(w) /\ DOMAIN (h \o a) = 1..(Len(h) + Len(a))
         /\ \A i \in 1..(Len(h) + Len(a)) :
              (h \o a)[i] = (IF i <= Len(h) THEN h[i] ELSE a[i - Len(h)]) /\ s[i] = (h \o a)[i]
         /\ \A i \in DOMAIN s : i > Len(h) + Len(a) => s[i] = w[i - Len(h) - Len(a)]
<1>1. /\ h \o a \in Seq(S) /\ Len(h \o a) = Len(h) + Len(a)
      /\ \A i \in 1..(Len(h) + Len(a)) : (h \o a)[i] = IF i <= Len(h) THEN h[i] ELSE a[i - Len(h)]
  BY ConcatProperties
<1> DEFINE p == h \o a
           s == p \o w
<1>2. /\ s \in Seq(S) /\ Len(s) = Len(p) + Len(w)
      /\ \A i \in 1..(Len(p) + Len(w)) : s[i] = IF i <= Len(p) THEN p[i] ELSE w[i - Len(p)]
  BY <1>1, ConcatProperties
<1>3. /\ Len(h) \in Nat /\ Len(a) \in Nat /\ Len(w) \in Nat
      /\ DOMAIN h = 1..Len(h) /\ DOMAIN a = 1..Len(a) /\ DOMAIN w = 1..Len(w)
      /\ DOMAIN s = 1..Len(s) /\ DOMAIN p = 1..Len(p)
  BY <1>1, <1>2
<1>4. Len(p) = Len(h) + Len(a)
  BY <1>1
<1> HIDE DEF p, s
<1>5. \A i \in DOMAIN s : i > Len(h) + Len(a) => s[i] = w[i - Len(h) - Len(a)]
  BY <1>2, <1>3, <1>4
<1>6. \A i \in 1..(Len(h) + Len(a)) : s[i] = p[i]
  BY <1>2, <1>3, <1>4
<1> QED
  BY <1>1, <1>2, <1>3, <1>5, <1>6 DEF p, s

LEMMA Shifted ==
  ASSUME NEW i \in Int, NEW j \in Int, NEW n \in Int, NEW m \in Int, NEW l \in Int
  PROVE  /\ i < j <=> i + m < j + m
         /\ j <= i + n <=> j + m <= (i + m) + n
         /\ j > i + n <=> j + m > (i + m) + n
         /\ j = i + n + 1 <=> j + m = (i + m) + n + 1
         /\ j - i = (j + m) - (i + m)
         /\ (i + m) + n <= l <=> i + n <= l - m
         /\ (i + m) + n = l <=> i + n = l - m
  OBVIOUS

(* Bytes that are no longer read move no other. *)
LEMMA InOrderSuffix ==
  ASSUME NEW s \in Seq(Bytes), NEW r \in Seq(Bytes), NEW m, IsSuffix(r, s, m), NEW w,
         InOrder(s, w)
  PROVE  InOrder(r, w) /\ (ToTheEnd(s, w) => ToTheEnd(r, w))
<1>1. \A i \in DOMAIN r : i \in Nat /\ i + m \in DOMAIN s /\ r[i] = s[i + m] /\ i + m \in Nat
  BY DEF IsSuffix
<1>2. \A i \in DOMAIN s : s[i].at \in Nat /\ s[i].length \in Nat
  <2>1. \A i \in DOMAIN s : s[i] \in Bytes
    OBVIOUS
  <2> QED
    BY <2>1, ReaderAssumption DEF Bytes
<1>3. m \in Nat /\ Len(r) = Len(s) - m /\ Len(s) \in Nat
  BY DEF IsSuffix
<1>4. InOrder(r, w)
  <2> SUFFICES ASSUME NEW i \in DOMAIN r
               PROVE  /\ r[i].at \in 1..r[i].length
                      /\ r[i].frame \in DOMAIN w /\ r[i].length = w[r[i].frame]
                      /\ \A j \in DOMAIN r : i < j /\ j <= i + (r[i].length - r[i].at) =>
                           r[j].frame = r[i].frame /\ r[j].at = r[i].at + (j - i)
                      /\ \A j \in DOMAIN r : i < j /\ j > i + (r[i].length - r[i].at) =>
                           r[j].frame > r[i].frame
                      /\ \A j \in DOMAIN r : j = i + (r[i].length - r[i].at) + 1 =>
                           r[j].frame = r[i].frame + 1 /\ r[j].at = 1
    BY DEF InOrder
  <2> DEFINE i2 == i + m
  <2>1. i2 \in DOMAIN s /\ r[i] = s[i2] /\ i2 \in Nat /\ i \in Nat
    BY <1>1
  <2>2. r[i].at \in 1..r[i].length
        /\ r[i].frame \in DOMAIN w /\ r[i].length = w[r[i].frame]
    BY <2>1 DEF InOrder
  <2>3. ASSUME NEW j \in DOMAIN r
        PROVE  /\ i < j /\ j <= i + (r[i].length - r[i].at) =>
                    r[j].frame = r[i].frame /\ r[j].at = r[i].at + (j - i)
               /\ i < j /\ j > i + (r[i].length - r[i].at) => r[j].frame > r[i].frame
               /\ j = i + (r[i].length - r[i].at) + 1 =>
                    r[j].frame = r[i].frame + 1 /\ r[j].at = 1
    <3> DEFINE j2 == j + m
               n == s[i2].length - s[i2].at
    <3>1. j2 \in DOMAIN s /\ r[j] = s[j2] /\ j2 \in Nat /\ j \in Nat
      BY <1>1
    <3>2. /\ i2 < j2 /\ j2 <= i2 + n => s[j2].frame = s[i2].frame /\ s[j2].at = s[i2].at + (j2 - i2)
          /\ i2 < j2 /\ j2 > i2 + n => s[j2].frame > s[i2].frame
          /\ j2 = i2 + n + 1 => s[j2].frame = s[i2].frame + 1 /\ s[j2].at = 1
      BY <2>1, <3>1 DEF InOrder
    <3>3. /\ i < j <=> i2 < j2
          /\ j <= i + n <=> j2 <= i2 + n
          /\ j > i + n <=> j2 > i2 + n
          /\ j = i + n + 1 <=> j2 = i2 + n + 1
          /\ j - i = j2 - i2
      <4>1. n \in Int /\ m \in Nat
        BY <1>2, <1>3, <2>1
      <4> HIDE DEF n
      <4>2. i \in Int /\ j \in Int /\ m \in Int
        BY <2>1, <3>1, <4>1
      <4> QED
        BY <4>1, <4>2, Shifted
    <3> HIDE DEF j2, i2
    <3> QED
      BY <2>1, <3>1, <3>2, <3>3
  <2> QED
    BY <2>2, <2>3
<1>5. ASSUME ToTheEnd(s, w)
      PROVE  ToTheEnd(r, w)
  <2> SUFFICES ASSUME NEW i \in DOMAIN r
               PROVE  /\ i + (r[i].length - r[i].at) <= Len(r)
                      /\ i + (r[i].length - r[i].at) = Len(r) => r[i].frame = Len(w)
    BY DEF ToTheEnd
  <2> DEFINE n == s[i + m].length - s[i + m].at
  <2>1. i + m \in DOMAIN s /\ r[i] = s[i + m] /\ i \in Nat /\ n \in Int
    BY <1>1, <1>2
  <2>2. /\ (i + m) + n <= Len(s)
        /\ (i + m) + n = Len(s) => r[i].frame = Len(w)
    BY <1>5, <2>1 DEF ToTheEnd
  <2>3. i \in Int /\ m \in Int /\ Len(s) \in Int
    BY <1>3, <2>1
  <2> HIDE DEF n
  <2>4. /\ (i + m) + n <= Len(s) <=> i + n <= Len(s) - m
        /\ (i + m) + n = Len(s) <=> i + n = Len(s) - m
    <3> DEFINE l == Len(s)
    <3>1. l \in Int /\ i \in Int /\ m \in Int /\ n \in Int
      BY <2>1, <2>3
    <3> HIDE DEF l
    <3>2. ((i + m) + n <= l <=> i + n <= l - m) /\ ((i + m) + n = l <=> i + n = l - m)
      BY <3>1, Shifted
    <3> QED
      BY <3>2 DEF l
  <2>5. /\ i + n <= Len(r)
        /\ i + n = Len(r) => r[i].frame = Len(w)
    BY <1>3, <2>2, <2>4
  <2> QED
    BY <2>1, <2>5 DEF n
<1> QED
  BY <1>4, <1>5

LEMMA Remainder ==
  ASSUME NEW i \in Int, NEW l \in Int, NEW n \in Int
  PROVE  i + (n - (i - l)) = l + n
  OBVIOUS

(* The frame f, of n bytes, follows the bytes s. *)
IsAppended(s, t, f, n) ==
  /\ n \in Nat /\ n # 0 /\ n >= 1
  /\ Len(s) \in Nat /\ DOMAIN s = 1..Len(s)
  /\ DOMAIN t = 1..(Len(s) + n) /\ Len(t) = Len(s) + n
  /\ \A i \in DOMAIN t :
       \/ i \in DOMAIN s /\ t[i] = s[i]
       \/ /\ i > Len(s) /\ i <= Len(s) + n /\ i - Len(s) \in 1..n /\ i \in Nat
          /\ t[i].frame = f /\ t[i].at = i - Len(s) /\ t[i].length = n

LEMMA FrameAppended ==
  ASSUME NEW s \in Seq(Bytes), NEW n \in Lengths, NEW f \in Nat,
         NEW t \in Seq(Bytes), t = s \o FrameBytes(f, n)
  PROVE  IsAppended(s, t, f, n)
<1> DEFINE new == FrameBytes(f, n)
           l == Len(s)
<1>1. n \in Nat /\ n # 0 /\ n >= 1
  BY ReaderAssumption DEF ReaderAssumption, HeaderLength
<1>3. /\ DOMAIN new = 1..n /\ Len(new) = n
      /\ \A k \in 1..n : new[k].frame = f /\ new[k].at = k /\ new[k].length = n
  BY <1>1 DEF FrameBytes
<1>4. new = [k \in 1..n |-> [frame |-> f, at |-> k, length |-> n]]
  BY DEF FrameBytes
<1>5. /\ l \in Nat /\ DOMAIN s = 1..l /\ DOMAIN t = 1..(l + n) /\ Len(t) = l + n
      /\ \A i \in 1..(l + n) : t[i] = IF i <= l THEN s[i] ELSE new[i - l]
  <2> DEFINE U == Bytes \cup {new[k] : k \in 1..n}
  <2>1. s \in Seq(U) /\ new \in Seq(U)
    BY <1>1, <1>4
  <2> HIDE DEF U, new
  <2>2. /\ Len(s \o new) = Len(s) + Len(new) /\ s \o new \in Seq(U)
        /\ \A i \in 1..(Len(s) + Len(new)) :
             (s \o new)[i] = IF i <= Len(s) THEN s[i] ELSE new[i - Len(s)]
    BY <2>1, ConcatProperties
  <2>3. t = s \o new /\ Len(new) = n
    BY <1>3 DEF new
  <2>4. DOMAIN s = 1..Len(s) /\ DOMAIN t = 1..Len(t) /\ Len(s) \in Nat
    OBVIOUS
  <2> QED
    BY <2>2, <2>3, <2>4
<1> HIDE DEF new, l
<1>6. ASSUME NEW i \in DOMAIN t
      PROVE  \/ i \in DOMAIN s /\ t[i] = s[i]
             \/ /\ i > l /\ i <= l + n /\ i - l \in 1..n /\ i \in Nat
                /\ t[i].frame = f /\ t[i].at = i - l /\ t[i].length = n
  <2>1. CASE i <= l
    BY <1>5, <2>1
  <2>2. CASE i > l
    <3>1. i \in Nat /\ i - l \in 1..n
      BY <1>1, <1>5, <2>2
    <3> DEFINE k == i - l
    <3>2. t[i] = new[k] /\ k \in 1..n
      BY <1>5, <2>2, <3>1
    <3>3. new[k].frame = f /\ new[k].at = k /\ new[k].length = n
      BY <1>3, <3>2
    <3>4. i > l /\ i <= l + n
      BY <1>5, <2>2
    <3> HIDE DEF k
    <3>5. t[i].frame = f /\ t[i].at = k /\ t[i].length = n
      BY <3>2, <3>3
    <3> QED
      BY <3>1, <3>4, <3>5 DEF k
  <2>3. i \in Nat
    BY <1>1, <1>5
  <2> QED
    BY <1>5, <2>1, <2>2, <2>3
<1> QED
  BY <1>1, <1>5, <1>6 DEF l, IsAppended

(* A frame that is written follows whatever was. *)
LEMMA InOrderWrite ==
  ASSUME NEW s \in Seq(Bytes), NEW n \in Lengths, NEW w \in Seq(Lengths), NEW w2,
         InOrder(s, w), ToTheEnd(s, w), w2 = Append(w, n), NEW t \in Seq(Bytes),
         t = s \o FrameBytes(Len(w) + 1, n)
  PROVE  InOrder(t, w2) /\ ToTheEnd(t, w2)
<1> DEFINE l == Len(s)
           f == Len(w) + 1
<1>2. /\ Len(w) \in Nat /\ f \in Nat /\ DOMAIN w = 1..Len(w)
      /\ DOMAIN w2 = 1..f /\ w2[f] = n /\ Len(w2) = f
      /\ \A k \in DOMAIN w : w2[k] = w[k]
  BY AppendProperties
<1> HIDE DEF l, f
<1>3. t = s \o FrameBytes(f, n)
  BY DEF f
<1>4. IsAppended(s, t, f, n)
  BY <1>2, <1>3, FrameAppended
<1>1. n \in Nat /\ n # 0 /\ n >= 1
  BY <1>4 DEF IsAppended
<1>5. l \in Nat /\ DOMAIN s = 1..l /\ DOMAIN t = 1..(l + n) /\ Len(t) = l + n
  BY <1>4 DEF IsAppended, l
<1>6. ASSUME NEW i \in DOMAIN t
      PROVE  \/ i \in DOMAIN s /\ t[i] = s[i]
             \/ /\ i > l /\ i <= l + n /\ i - l \in 1..n /\ i \in Nat
                /\ t[i].frame = f /\ t[i].at = i - l /\ t[i].length = n
  BY <1>4 DEF IsAppended, l
<1>7. ASSUME NEW i \in DOMAIN s
      PROVE  /\ s[i].at \in Nat /\ s[i].length \in Nat /\ i \in Nat
             /\ s[i].at \in 1..s[i].length
             /\ s[i].frame \in 1..Len(w) /\ s[i].length = w[s[i].frame]
             /\ i + (s[i].length - s[i].at) <= l
             /\ i + (s[i].length - s[i].at) = l => s[i].frame = Len(w)
             /\ \A j \in DOMAIN s : i < j /\ j <= i + (s[i].length - s[i].at) =>
                  s[j].frame = s[i].frame /\ s[j].at = s[i].at + (j - i)
             /\ \A j \in DOMAIN s : i < j /\ j > i + (s[i].length - s[i].at) =>
                  s[j].frame > s[i].frame
             /\ \A j \in DOMAIN s : j = i + (s[i].length - s[i].at) + 1 =>
                  s[j].frame = s[i].frame + 1 /\ s[j].at = 1
  <2>1. s[i] \in Bytes /\ i \in Nat
    BY <1>5
  <2>2. s[i].at \in Nat /\ s[i].length \in Nat
    BY <2>1, ReaderAssumption DEF Bytes
  <2>3. /\ i + (s[i].length - s[i].at) <= l
        /\ i + (s[i].length - s[i].at) = l => s[i].frame = Len(w)
    BY DEF ToTheEnd, l
  <2> QED
    BY <1>2, <2>1, <2>2, <2>3 DEF InOrder
<1>8. \A i \in DOMAIN s : s[i].frame \in Nat /\ s[i].frame < f
  BY <1>2, <1>7 DEF f
<1>9. ToTheEnd(t, w2)
  <2> SUFFICES ASSUME NEW i \in DOMAIN t
               PROVE  /\ i + (t[i].length - t[i].at) <= Len(t)
                      /\ i + (t[i].length - t[i].at) = Len(t) => t[i].frame = f
    BY <1>2 DEF ToTheEnd
  <2>1. CASE i \in DOMAIN s /\ t[i] = s[i]
    <3> DEFINE e == i + (s[i].length - s[i].at)
    <3>1. e <= l /\ e \in Int
      BY <1>7, <2>1
    <3> HIDE DEF e
    <3>2. e <= l + n /\ e # l + n
      BY <1>1, <1>5, <3>1
    <3> QED
      BY <1>5, <2>1, <3>2 DEF e
  <2>2. CASE /\ i > l /\ i <= l + n /\ i - l \in 1..n /\ i \in Nat
             /\ t[i].frame = f /\ t[i].at = i - l /\ t[i].length = n
    BY <1>1, <1>5, <2>2, SMTT(20)
  <2> QED
    BY <1>6, <2>1, <2>2
<1>10. InOrder(t, w2)
  <2> SUFFICES ASSUME NEW i \in DOMAIN t
               PROVE  /\ t[i].at \in 1..t[i].length
                      /\ t[i].frame \in DOMAIN w2 /\ t[i].length = w2[t[i].frame]
                      /\ \A j \in DOMAIN t : i < j /\ j <= i + (t[i].length - t[i].at) =>
                           t[j].frame = t[i].frame /\ t[j].at = t[i].at + (j - i)
                      /\ \A j \in DOMAIN t : i < j /\ j > i + (t[i].length - t[i].at) =>
                           t[j].frame > t[i].frame
                      /\ \A j \in DOMAIN t : j = i + (t[i].length - t[i].at) + 1 =>
                           t[j].frame = t[i].frame + 1 /\ t[j].at = 1
    BY DEF InOrder
  <2>1. CASE i \in DOMAIN s /\ t[i] = s[i]
    <3>1. t[i].at \in 1..t[i].length
          /\ t[i].frame \in DOMAIN w2 /\ t[i].length = w2[t[i].frame]
      BY <1>2, <1>7, <2>1 DEF f
    <3> DEFINE e == i + (s[i].length - s[i].at)
    <3>2. e <= l /\ e \in Int /\ (e = l => s[i].frame = Len(w))
          /\ s[i].frame < f /\ s[i].frame \in Nat
      BY <1>7, <1>8, <2>1
    <3>3. ASSUME NEW j \in DOMAIN t
          PROVE  /\ i < j /\ j <= e => t[j].frame = s[i].frame /\ t[j].at = s[i].at + (j - i)
                 /\ i < j /\ j > e => t[j].frame > s[i].frame
                 /\ j = e + 1 => t[j].frame = s[i].frame + 1 /\ t[j].at = 1
      <4>1. CASE j \in DOMAIN s /\ t[j] = s[j]
        BY <1>7, <2>1, <4>1
      <4>2. CASE /\ j > l /\ j <= l + n /\ j - l \in 1..n /\ j \in Nat
                 /\ t[j].frame = f /\ t[j].at = j - l /\ t[j].length = n
        <5> HIDE DEF e
        <5>1. ~(j <= e)
          BY <1>5, <3>2, <4>2
        <5>2. j = e + 1 => e = l /\ j - l = 1
          BY <1>5, <3>2, <4>2
        <5>3. j = e + 1 => f = s[i].frame + 1
          BY <3>2, <5>2 DEF f
        <5> QED
          BY <3>2, <4>2, <5>1, <5>2, <5>3
      <4> QED
        BY <1>6, <4>1, <4>2
    <3> QED
      BY <2>1, <3>1, <3>3, ZenonT(20)
  <2>2. CASE /\ i > l /\ i <= l + n /\ i - l \in 1..n /\ i \in Nat
             /\ t[i].frame = f /\ t[i].at = i - l /\ t[i].length = n
    <3>1. t[i].at \in 1..t[i].length
          /\ t[i].frame \in DOMAIN w2 /\ t[i].length = w2[t[i].frame]
      BY <1>2, <2>2 DEF f
    <3>2. i + (t[i].length - t[i].at) = l + n
      <4>1. i + (n - (i - l)) = l + n
        BY <1>1, <1>5, <2>2, Remainder
      <4> QED
        BY <2>2, <4>1
    <3>3. ASSUME NEW j \in DOMAIN t
          PROVE  /\ j <= l + n
                 /\ i < j => t[j].frame = t[i].frame /\ t[j].at = t[i].at + (j - i)
      <4>1. CASE j \in DOMAIN s /\ t[j] = s[j]
        BY <1>1, <1>5, <2>2, <4>1
      <4>2. CASE /\ j > l /\ j <= l + n /\ j - l \in 1..n /\ j \in Nat
                 /\ t[j].frame = f /\ t[j].at = j - l /\ t[j].length = n
        BY <1>5, <2>2, <4>2, SMTT(20)
      <4> QED
        BY <1>6, <4>1, <4>2
    <3>4. \A j \in DOMAIN t : ~(j > l + n) /\ j # (l + n) + 1
      BY <1>1, <1>5
    <3> QED
      BY <3>1, <3>2, <3>3, <3>4
  <2> QED
    BY <1>6, <2>1, <2>2
<1> QED
  BY <1>9, <1>10

StaysBehind(frames, bytes, lengths) ==
  Increasing(frames) /\ Known(frames, lengths) /\ Ahead(bytes, frames)

(* The reading of one frame: the frames returned stay behind what is left. *)
LEMMA FrameReturned ==
  ASSUME NEW s \in Seq(Bytes), NEW t \in Seq(Bytes), NEW n \in Nat, IsSuffix(t, s, n),
         NEW w, InOrder(s, w), DOMAIN w = 1..Len(w), NEW d \in Seq(Nat), s # <<>>,
         s[1].at = 1 => n = s[1].length,
         NEW e, e = Append(d, IF s[1].at = 1 THEN s[1].frame ELSE 0),
         Increasing(d), Known(d, w), Ahead(s, d), Len(w) \in Nat
  PROVE  StaysBehind(e, t, w)
<1> DEFINE x == IF s[1].at = 1 THEN s[1].frame ELSE 0
           l == Len(d)
<1>1. 1 \in DOMAIN s /\ s[1] \in Bytes /\ s[1].frame \in 1..Len(w)
  <2>1. 1 \in DOMAIN s
    BY EmptySeq
  <2> QED
    BY <2>1 DEF InOrder
<1>2. x \in Nat /\ x <= Len(w)
  BY <1>1
<1>3. /\ l \in Nat /\ DOMAIN d = 1..l /\ DOMAIN e = 1..(l + 1) /\ e[l + 1] = x
      /\ \A k \in 1..l : e[k] = d[k] /\ d[k] \in Nat
  BY <1>2, AppendProperties
<1>4. s[1].at = 1 => \A k \in 1..l : d[k] < s[1].frame
  BY <1>1, <1>3 DEF Ahead
<1>5. x # 0 => \A k \in 1..l : d[k] < x
  BY <1>4
<1> HIDE DEF l, x
<1>6. Increasing(e)
  <2> SUFFICES ASSUME NEW i \in 1..(l + 1), NEW j \in 1..(l + 1), i < j, e[i] # 0, e[j] # 0
               PROVE  e[i] < e[j]
    BY <1>3 DEF Increasing
  <2>0. i \in 1..l /\ (j \in 1..l \/ j = l + 1)
    BY <1>3, SMTT(30)
  <2>1. CASE j \in 1..l
    <3>1. i \in DOMAIN d /\ j \in DOMAIN d /\ e[i] = d[i] /\ e[j] = d[j]
      BY <1>3, <2>0, <2>1
    <3> QED
      BY <3>1 DEF Increasing
  <2>2. CASE j = l + 1
    <3>1. e[i] = d[i] /\ e[j] = x
      BY <1>3, <2>0, <2>2
    <3> QED
      BY <1>5, <2>0, <3>1
  <2> QED
    BY <2>0, <2>1, <2>2
<1>7. Known(e, w)
  BY <1>2, <1>3 DEF Known
<1>8. Ahead(t, e)
  <2> SUFFICES ASSUME NEW j \in 1..(l + 1), NEW i \in DOMAIN t, t[i].at = 1
               PROVE  e[j] < t[i].frame
    BY <1>3 DEF Ahead
  <2> DEFINE k == i + n
  <2>1. k \in DOMAIN s /\ t[i] = s[k] /\ i \in Nat /\ k > n /\ k \in Nat /\ i >= 1
    BY DEF IsSuffix
  <2>2. s[k].at = 1 /\ s[k].frame \in 1..Len(w)
    BY <2>1 DEF InOrder
  <2> HIDE DEF k
  <2>3. CASE j \in 1..l
    BY <1>3, <2>1, <2>2, <2>3 DEF Ahead
  <2>4. CASE j = l + 1
    <3>1. CASE s[1].at = 1
      <4>1. n = s[1].length /\ 1 < k /\ 1 + (n - 1) = n
        <5>1. s[1].at \in 1..s[1].length
          BY <1>1 DEF InOrder
        <5> QED
          BY <2>1, <3>1, <5>1
      <4>2. k > 1 + (s[1].length - s[1].at)
        BY <2>1, <3>1, <4>1
      <4>3. s[k].frame > s[1].frame
        BY <1>1, <2>1, <4>1, <4>2 DEF InOrder
      <4> QED
        BY <1>1, <1>3, <2>1, <2>2, <2>4, <3>1, <4>3 DEF x
    <3>2. CASE s[1].at # 1
      BY <1>3, <2>1, <2>2, <2>4, <3>2 DEF x
    <3> QED
      BY <3>1, <3>2
  <2> QED
    BY <1>3, <2>3, <2>4
<1> QED
  BY <1>6, <1>7, <1>8 DEF StaysBehind

(* A read that starts with a frame ends with it. *)
LEMMA WholeFrameReturned ==
  ASSUME NEW s \in Seq(Bytes), NEW t \in Seq(Bytes), NEW n \in Nat, IsSuffix(t, s, n),
         NEW w, InOrder(s, w), NEW d \in Seq(Nat), s # <<>>, n = s[1].length,
         NEW c, c = FALSE => ToTheEnd(s, w), FromTheStart(s, d, w, c),
         NEW e, e = Append(d, s[1].frame)
  PROVE  FromTheStart(t, e, w, c)
<1> DEFINE l == Len(d)
<1>1. 1 \in DOMAIN s /\ s[1].at = 1 /\ s[1].frame = l + 1 /\ s[1].at \in 1..n
  <2>1. 1 \in DOMAIN s
    BY EmptySeq
  <2> QED
    BY <2>1 DEF InOrder, FromTheStart
<1>2. /\ l \in Nat /\ DOMAIN e = 1..(l + 1) /\ e[l + 1] = l + 1 /\ Len(e) = l + 1
      /\ \A k \in 1..l : e[k] = d[k] /\ d[k] = k
  <2>1. DOMAIN d = 1..l /\ l \in Nat /\ s[1].frame \in Nat
    BY <1>1
  <2>2. \A k \in 1..l : d[k] = k
    BY DEF FromTheStart
  <2> QED
    BY <1>1, <2>1, <2>2, AppendProperties
<1> HIDE DEF l
<1>3. e = [i \in 1..Len(e) |-> i]
  <2>1. \A k \in 1..(l + 1) : e[k] = k
    BY <1>2
  <2>2. e \in Seq(Nat)
    BY <1>1, <1>2
  <2> DEFINE g == [i \in 1..(l + 1) |-> i]
  <2>3. g \in Seq(Nat) /\ Len(g) = l + 1 /\ \A k \in 1..(l + 1) : g[k] = k
    BY <1>2
  <2> HIDE DEF g
  <2>4. e = g
    BY <1>2, <2>1, <2>2, <2>3, SeqEqual
  <2> QED
    BY <1>2, <2>4 DEF g
<1>4. 1 + (n - 1) = n /\ 1 + (s[1].length - s[1].at) = n
  BY <1>1
<1>5. ASSUME t # <<>>
      PROVE  t[1].at = 1 /\ t[1].frame = Len(e) + 1
  <2>1. 1 \in DOMAIN t
    BY <1>5, EmptySeq
  <2>2. n + 1 \in DOMAIN s /\ t[1] = s[n + 1]
    <3>1. t[1] = s[1 + n] /\ Len(s) \in Nat /\ DOMAIN s = 1..Len(s) /\ Len(t) = Len(s) - n
          /\ DOMAIN t = 1..Len(t) /\ Len(t) \in Nat
      BY <2>1 DEF IsSuffix
    <3>2. 1 + n = n + 1
      OBVIOUS
    <3>3. n + 1 <= Len(s) /\ n + 1 >= 1
      BY <2>1, <3>1
    <3>4. n + 1 \in DOMAIN s
      BY <3>1, <3>3
    <3> QED
      BY <3>1, <3>2, <3>4
  <2>3. s[n + 1].frame = s[1].frame + 1 /\ s[n + 1].at = 1
    BY <1>1, <1>4, <2>2 DEF InOrder
  <2> QED
    BY <1>1, <1>2, <2>2, <2>3
<1>6. ASSUME t = <<>>, ~c
      PROVE  Len(e) = Len(w)
  <2>1. n = Len(s)
    BY <1>6 DEF IsSuffix
  <2>2. s[1].frame = Len(w)
    <3>1. c = FALSE
      BY <1>6
    <3> QED
      BY <1>1, <1>4, <2>1, <3>1 DEF ToTheEnd
  <2> QED
    BY <1>1, <1>2, <2>2
<1> QED
  BY <1>3, <1>5, <1>6 DEF FromTheStart

LEMMA SameSequence ==
  ASSUME NEW S, NEW s \in Seq(S), NEW t \in Seq(S), Len(s) = Len(t),
         \A i \in 1..Len(s) : s[i] = t[i]
  PROVE  s = t
BY SeqEqual

Joined(x, y) == x \o y

Associative(T) ==
  \A x, y, z \in T : Joined(x, y) \in T /\ Joined(Joined(x, y), z) = Joined(x, Joined(y, z))

LEMMA SequencesAssociate == \A S : Associative(Seq(S))
<1> SUFFICES ASSUME NEW S, NEW x \in Seq(S), NEW y \in Seq(S), NEW z \in Seq(S)
             PROVE  x \o y \in Seq(S) /\ (x \o y) \o z = x \o (y \o z)
  BY DEF Associative, Joined
<1>1. x \o y \in Seq(S)
  BY ConcatProperties
<1>2. (x \o y) \o z = x \o (y \o z)
  BY ConcatAssociative
<1> QED
  BY <1>1, <1>2

LEMMA FourPieces ==
  ASSUME NEW S, NEW h \in Seq(S), NEW a \in Seq(S), NEW u \in Seq(S), NEW v \in Seq(S)
  PROVE  Joined(Joined(h, Joined(a, u)), v) = Joined(Joined(h, a), Joined(u, v))
<1> DEFINE T == Seq(S)
<1>1. Associative(T)
  BY SequencesAssociate
<1> HIDE DEF T
<1>2. h \in T /\ a \in T /\ u \in T /\ v \in T
  BY DEF T
<1>3. Joined(a, u) \in T /\ Joined(u, v) \in T
  BY <1>1, <1>2 DEF Associative
<1>4. Joined(Joined(h, Joined(a, u)), v) = Joined(h, Joined(Joined(a, u), v))
  BY <1>1, <1>2, <1>3 DEF Associative
<1>5. Joined(Joined(a, u), v) = Joined(a, Joined(u, v))
  BY <1>1, <1>2 DEF Associative
<1>6. Joined(Joined(h, a), Joined(u, v)) = Joined(h, Joined(a, Joined(u, v)))
  BY <1>1, <1>2, <1>3 DEF Associative
<1> QED
  BY <1>4, <1>5, <1>6

(* What is left of a sequence after n elements. *)
IsRest(T, p, n, r) ==
  /\ r \in T /\ Len(r) = Len(p) - n
  /\ \A i \in 1..(Len(p) - n) : r[i] = p[i + n]

LEMMA SubSeqFrom ==
  ASSUME NEW S, NEW p \in Seq(S), NEW n \in 0..Len(p), NEW r, r = SubSeq(p, n + 1, Len(p))
  PROVE  IsRest(Seq(S), p, n, r)
<1> DEFINE l == Len(p)
           m == n + 1
<1>1. l \in Nat /\ n \in Nat /\ n <= l /\ m \in Int /\ m >= 1 /\ \A i \in m..l : p[i] \in S
  <2>1. l \in Nat /\ n \in Nat /\ n <= l /\ m \in Int /\ m >= 1
    OBVIOUS
  <2>2. \A i \in m..l : i \in 1..l
    BY <2>1
  <2> QED
    BY <2>1, <2>2
<1>2. l \in Int /\ r = SubSeq(p, m, l)
  BY <1>1
<1> HIDE DEF l, m
<1>3. /\ r \in Seq(S) /\ Len(r) = (IF m <= l THEN l - m + 1 ELSE 0)
      /\ \A i \in 1..(l - m + 1) : r[i] = p[m + i - 1]
  <2>1. m \in Int /\ l \in Int /\ \A i \in m..l : p[i] \in S
    BY <1>1, <1>2
  <2>2. /\ SubSeq(p, m, l) \in Seq(S)
        /\ Len(SubSeq(p, m, l)) = (IF m <= l THEN l - m + 1 ELSE 0)
        /\ \A i \in 1..(l - m + 1) : SubSeq(p, m, l)[i] = p[m + i - 1]
    BY <2>1, SubSeqProperties
  <2> QED
    BY <1>2, <2>2
<1>4. m = n + 1 /\ l = Len(p)
  BY DEF m, l
<1>5. l - m + 1 = l - n /\ Len(r) = l - n
  BY <1>1, <1>3, <1>4
<1>6. ASSUME NEW i \in 1..(l - n)
      PROVE  r[i] = p[i + n]
  <2>1. i \in Nat /\ m + i - 1 = i + n
    BY <1>1, <1>4
  <2>2. r[i] = p[m + i - 1]
    BY <1>3, <1>5
  <2> QED
    BY <2>1, <2>2
<1> QED
  BY <1>3, <1>4, <1>5, <1>6 DEF IsRest

(* Bytes that are not held any longer. *)
Lost(T, h, a, w, n, r) ==
  /\ r \in T /\ <<>> \o r \o w \in T
  /\ IsSuffix(<<>> \o r \o w, h \o a \o w, n)

LEMMA PiecesLost ==
  ASSUME NEW S, NEW h \in Seq(S), NEW a \in Seq(S), NEW w \in Seq(S),
         NEW n \in Nat, n <= Len(h \o a), NEW r, r = SubSeq(h \o a, n + 1, Len(h \o a))
  PROVE  Lost(Seq(S), h, a, w, n, r)
<1> DEFINE p == h \o a
           s == p \o w
           t == r \o w
<1>1. p \in Seq(S) /\ s \in Seq(S)
  BY ConcatProperties
<1> HIDE DEF p
<1>2. /\ Len(p) \in Nat /\ n + 1 \in 1..(Len(p) + 1)
      /\ n + 1 \in Int /\ Len(p) \in Int
  BY <1>1 DEF p
<1>3. /\ r \in Seq(S)
      /\ Len(r) = Len(p) - n
      /\ \A i \in 1..(Len(p) - n) : r[i] = p[i + n]
  <2>1. r = SubSeq(p, n + 1, Len(p)) /\ n \in 0..Len(p)
    BY <1>2 DEF p
  <2> QED
    <3>1. IsRest(Seq(S), p, n, r)
      BY <1>1, <2>1, SubSeqFrom
    <3> QED
      BY <3>1 DEF IsRest
<1>4. <<>> \o r = r
  BY <1>3, ConcatEmptySeq
<1>5. /\ t \in Seq(S) /\ Len(t) = Len(r) + Len(w)
      /\ \A i \in 1..(Len(r) + Len(w)) : t[i] = IF i <= Len(r) THEN r[i] ELSE w[i - Len(r)]
  BY <1>3, ConcatProperties, SMTT(20)
<1>6. /\ s \in Seq(S) /\ Len(s) = Len(p) + Len(w)
      /\ \A i \in 1..(Len(p) + Len(w)) : s[i] = IF i <= Len(p) THEN p[i] ELSE w[i - Len(p)]
  BY <1>1, ConcatProperties
<1>7. /\ DOMAIN t = 1..Len(t) /\ DOMAIN s = 1..Len(s) /\ Len(w) \in Nat /\ Len(r) \in Nat
      /\ Len(t) \in Nat /\ Len(s) \in Nat
  BY <1>3, <1>5, <1>6
<1> HIDE DEF s, t
<1>8. ASSUME NEW i \in DOMAIN t
      PROVE  t[i] = s[i + n]
  <2>1. i \in Nat /\ i \in 1..(Len(r) + Len(w)) /\ i + n \in 1..(Len(p) + Len(w))
    <3>1. i \in 1..(Len(r) + Len(w)) /\ i \in Nat
      BY <1>5, <1>7
    <3>2. i + n <= Len(p) + Len(w) /\ i + n >= 1 /\ i + n \in Nat
      <4> DEFINE lp == Len(p)
                 lw == Len(w)
                 lr == Len(r)
      <4>1. lr = lp - n /\ i <= lr + lw /\ lp \in Nat /\ lw \in Nat /\ i \in Nat /\ i >= 1
        BY <1>2, <1>3, <1>7, <3>1
      <4> HIDE DEF lp, lw, lr
      <4>2. i + n <= lp + lw /\ i + n >= 1 /\ i + n \in Nat
        BY <4>1
      <4> QED
        BY <4>2 DEF lp, lw
    <3> QED
      BY <1>2, <1>7, <3>1, <3>2
  <2>2. CASE i <= Len(r)
    <3>1. i + n <= Len(p) /\ i \in 1..(Len(p) - n)
      BY <1>2, <1>3, <2>1, <2>2, SMTT(30)
    <3> QED
      BY <1>3, <1>5, <1>6, <2>1, <2>2, <3>1
  <2>3. CASE i > Len(r)
    <3>1. ~(i + n <= Len(p)) /\ ~(i <= Len(r)) /\ i - Len(r) = (i + n) - Len(p)
      BY <1>2, <1>3, <2>1, <2>3, SMTT(20)
    <3>2. t[i] = w[i - Len(r)] /\ s[i + n] = w[(i + n) - Len(p)]
      BY <1>5, <1>6, <2>1, <3>1
    <3> QED
      BY <3>1, <3>2
  <2> QED
    BY <1>3, <1>7, <2>1, <2>2, <2>3
<1>9. Len(t) = Len(s) - n
  BY <1>2, <1>3, <1>5, <1>6, <1>7
<1>10. IsSuffix(t, s, n)
  BY <1>7, <1>8, <1>9 DEF IsSuffix
<1> QED
  BY <1>3, <1>4, <1>5, <1>10 DEF p, s, t, Lost

(* A piece that arrives is the next one of the stream. *)
Moves(T, h, a, w, k) ==
  /\ a \o SubSeq(w, 1, k) \in T /\ SubSeq(w, k + 1, Len(w)) \in T
  /\ h \o (a \o SubSeq(w, 1, k)) \o SubSeq(w, k + 1, Len(w)) = h \o a \o w

LEMMA PieceMoves ==
  ASSUME NEW S, NEW h \in Seq(S), NEW a \in Seq(S), NEW w \in Seq(S), NEW k \in 1..Len(w)
  PROVE  Moves(Seq(S), h, a, w, k)
<1> DEFINE u == SubSeq(w, 1, k)
           v == SubSeq(w, k + 1, Len(w))
<1>1. /\ u \in Seq(S) /\ Len(u) = k /\ \A i \in 1..k : u[i] = w[i]
  BY SubSeqProperties
<1>2. /\ v \in Seq(S) /\ Len(v) = Len(w) - k /\ \A i \in 1..(Len(w) - k) : v[i] = w[i + k]
  <2>1. k \in 0..Len(w)
    OBVIOUS
  <2> QED
    <3>1. IsRest(Seq(S), w, k, v)
      BY <2>1, SubSeqFrom
    <3> QED
      BY <3>1 DEF IsRest
<1>3. a \o u \in Seq(S)
  BY <1>1, ConcatProperties
<1>4. u \o v = w
  <2>1. /\ u \o v \in Seq(S) /\ Len(u \o v) = Len(u) + Len(v)
        /\ \A i \in 1..(Len(u) + Len(v)) : (u \o v)[i] = IF i <= Len(u) THEN u[i] ELSE v[i - Len(u)]
    BY <1>1, <1>2, ConcatProperties
  <2>2. Len(u \o v) = Len(w) /\ Len(w) \in Nat /\ k \in Nat
    BY <1>1, <1>2, <2>1
  <2> HIDE DEF u, v
  <2>3. ASSUME NEW i \in 1..Len(w)
        PROVE  (u \o v)[i] = w[i]
    <3>1. i \in Nat /\ i \in 1..(Len(u) + Len(v))
      BY <2>1, <2>2
    <3>2. CASE i <= k
      BY <1>1, <2>1, <3>1, <3>2
    <3>3. CASE i > k
      <4>1. i - k \in 1..(Len(w) - k) /\ (i - k) + k = i
        BY <2>2, <3>1, <3>3
      <4>2. (u \o v)[i] = v[i - k]
        BY <1>1, <2>1, <2>2, <3>1, <3>3
      <4> QED
        BY <1>2, <4>1, <4>2
    <3> QED
      BY <2>2, <3>1, <3>2, <3>3
  <2> QED
    BY <2>1, <2>2, <2>3, SeqEqual
<1> HIDE DEF u, v
<1>5. u \in Seq(S) /\ v \in Seq(S)
  BY <1>1, <1>2
<1>6. h \o (a \o u) \o v = h \o a \o (u \o v)
  <2>1. Joined(Joined(h, Joined(a, u)), v) = Joined(Joined(h, a), Joined(u, v))
    BY <1>5, FourPieces
  <2>2. Joined(Joined(h, Joined(a, u)), v) = h \o (a \o u) \o v
    BY DEF Joined
  <2>3. Joined(Joined(h, a), Joined(u, v)) = h \o a \o (u \o v)
    BY DEF Joined
  <2> QED
    BY <2>1, <2>2, <2>3
<1> QED
  BY <1>3, <1>4, <1>5, <1>6 DEF u, v, Moves

(* A frame follows what Warcraft wrote before it. *)
Follows(T, h, a, w, f) == w \o f \in T /\ h \o a \o (w \o f) = (h \o a \o w) \o f

LEMMA FrameFollows ==
  ASSUME NEW S, NEW h \in Seq(S), NEW a \in Seq(S), NEW w \in Seq(S), NEW f \in Seq(S)
  PROVE  Follows(Seq(S), h, a, w, f)
<1> DEFINE T == Seq(S)
<1>1. Associative(T)
  BY SequencesAssociate
<1> HIDE DEF T
<1>2. h \in T /\ a \in T /\ w \in T /\ f \in T
  BY DEF T
<1>3. Joined(h, a) \in T /\ Joined(w, f) \in T
  BY <1>1, <1>2 DEF Associative
<1>4. Joined(Joined(Joined(h, a), w), f) = Joined(Joined(h, a), Joined(w, f))
  BY <1>1, <1>2, <1>3 DEF Associative
<1> QED
  BY <1>3, <1>4 DEF Joined, T, Follows

LEMMA Pieces ==
  ASSUME ReaderTypeOK
  PROVE  /\ wire \in Seq(Bytes) /\ arrived \in Seq(Bytes) /\ held \in Seq(Bytes)
         /\ Taken \in Seq(Bytes) /\ Stream \in Seq(Bytes) /\ Len(Taken) \in Nat
         /\ Stream = Taken \o wire /\ Len(Taken) <= Len(Stream)
         /\ DOMAIN Taken = 1..Len(Taken) /\ DOMAIN Stream = 1..Len(Stream) /\ Len(Stream) \in Nat
         /\ \A i \in 1..Len(Taken) : Stream[i] = Taken[i]
<1>1. wire \in Seq(Bytes) /\ arrived \in Seq(Bytes) /\ held \in Seq(Bytes)
  BY DEF ReaderTypeOK
<1>2. Stream = Taken \o wire
  BY DEF Stream, Taken
<1>3. Taken \in Seq(Bytes)
  BY <1>1, ConcatProperties DEF Taken
<1>4. /\ Stream \in Seq(Bytes) /\ Len(Stream) = Len(Taken) + Len(wire)
      /\ \A i \in 1..(Len(Taken) + Len(wire)) :
           Stream[i] = IF i <= Len(Taken) THEN Taken[i] ELSE wire[i - Len(Taken)]
  BY <1>1, <1>2, <1>3, ConcatProperties
<1>5. Len(Taken) \in Nat /\ Len(wire) \in Nat /\ DOMAIN Taken = 1..Len(Taken)
      /\ DOMAIN Stream = 1..Len(Stream) /\ Len(Stream) \in Nat
  BY <1>1, <1>3, <1>4
<1>6. \A i \in 1..Len(Taken) : Stream[i] = Taken[i]
  BY <1>4, <1>5
<1> QED
  BY <1>1, <1>2, <1>3, <1>4, <1>5, <1>6

LEMMA FramesAreNumbers ==
  ASSUME ReaderTypeOK
  PROVE  delivered \in Seq(Nat) /\ (~dropped => delivered \in Seq(1..MaxFrames))
<1>1. MaxFrames \in Nat /\ dropped \in BOOLEAN
      /\ delivered \in Seq((IF dropped THEN 0 ELSE 1)..MaxFrames)
  BY ReaderAssumption DEF ReaderTypeOK
<1>2. CASE dropped
  <2>1. delivered \in Seq(0..MaxFrames)
    BY <1>1, <1>2
  <2>2. \A j \in DOMAIN delivered : delivered[j] \in Nat
    BY <1>1, <2>1
  <2> QED
    BY <1>2, <2>1, <2>2
<1>3. CASE ~dropped
  <2>1. delivered \in Seq(1..MaxFrames)
    BY <1>1, <1>3
  <2>2. \A j \in DOMAIN delivered : delivered[j] \in Nat
    BY <1>1, <2>1
  <2> QED
    BY <2>1, <2>2
<1> QED
  BY <1>2, <1>3

LEMMA FramesAreBytes ==
  ASSUME NEW f \in 1..MaxFrames, NEW n \in Lengths
  PROVE  FrameBytes(f, n) \in Seq(Bytes) /\ FrameBytes(f, n) # <<>>
<1>1. n \in Nat /\ n >= 2
  BY ReaderAssumption DEF ReaderAssumption, HeaderLength
<1>2. \A k \in 1..n : [frame |-> f, at |-> k, length |-> n] \in Bytes
  BY <1>1 DEF Bytes
<1>3. FrameBytes(f, n) \in Seq(Bytes) /\ Len(FrameBytes(f, n)) = n
  BY <1>1, <1>2 DEF FrameBytes
<1> QED
  BY <1>1, <1>3, EmptySeq

LEMMA Initially == ReaderInit => ReaderInv
<1> SUFFICES ASSUME ReaderInit PROVE ReaderInv
  OBVIOUS
<1>1. ReaderTypeOK /\ Len(written) <= MaxFrames
  <2>1. written \in Seq(Lengths) /\ wire \in Seq(Bytes) /\ arrived \in Seq(Bytes) /\ held \in Seq(Bytes)
        /\ delivered \in Seq((IF dropped THEN 0 ELSE 1)..MaxFrames) /\ Len(written) = 0
    <3>1. \A S : <<>> \in Seq(S)
      BY EmptySeq
    <3>2. Len(<<>>) = 0
      OBVIOUS
    <3> QED
      BY <3>1, <3>2, Zenon DEF ReaderInit
  <2>2. 0 <= MaxFrames
    BY ReaderAssumption
  <2>3. ReaderTypeOK
    BY <2>1 DEF ReaderInit, ReaderTypeOK
  <2> QED
    BY <2>1, <2>2, <2>3
<1>2. Stream = <<>>
  <2>1. <<>> \in Seq(Bytes)
    BY EmptySeq
  <2> QED
    BY <2>1, ConcatEmptySeq DEF Stream, ReaderInit
<1>3. Len(<<>>) = 0 /\ DOMAIN <<>> = {}
  OBVIOUS
<1>4. BytesInv /\ FramesInv
  BY <1>2, <1>3 DEF ReaderInit, BytesInv, FramesInv, InOrder, ToTheEnd, Increasing, Known, Ahead
<1>5. WholeReadInv
  <2>1. <<>> = [i \in 1..0 |-> i]
    OBVIOUS
  <2> QED
    BY <1>2, <1>3, <2>1 DEF ReaderInit, WholeReadInv, FromTheStart
<1> QED
  BY <1>1, <1>4, <1>5 DEF ReaderInv

LEMMA WriteKeeps ==
  ASSUME ReaderInv, NEW n \in Lengths, WriteFrame(n)
  PROVE  ReaderInv'
<1> DEFINE f == Len(written) + 1
           s == Stream
           t == Stream'
           d == delivered
<1>1. /\ written \in Seq(Lengths) /\ d \in Seq((IF dropped THEN 0 ELSE 1)..MaxFrames)
      /\ ~closed /\ ~cut /\ written' = Append(written, n) /\ Len(written) < MaxFrames
  BY DEF ReaderInv, ReaderTypeOK, BytesInv, WriteFrame
<1>2. /\ Len(written) \in Nat /\ f \in Nat /\ f \in 1..MaxFrames
      /\ written' \in Seq(Lengths) /\ Len(written') = f /\ DOMAIN written = 1..Len(written)
      /\ DOMAIN written' = 1..f /\ \A k \in 1..Len(written) : written'[k] = written[k]
  <2>1. Len(written) \in Nat /\ f \in 1..MaxFrames /\ DOMAIN written = 1..Len(written)
    BY <1>1, ReaderAssumption
  <2> QED
    BY <1>1, <2>1, AppendProperties
<1>3. FrameBytes(f, n) \in Seq(Bytes) /\ FrameBytes(f, n) # <<>>
  BY <1>2, FramesAreBytes
<1>4. /\ s \in Seq(Bytes) /\ wire \in Seq(Bytes) /\ arrived \in Seq(Bytes) /\ held \in Seq(Bytes)
  BY Pieces DEF ReaderInv
<1>5. wire' = wire \o FrameBytes(f, n) /\ held' = held /\ arrived' = arrived
  BY DEF WriteFrame
<1>6. wire' \in Seq(Bytes) /\ t = s \o FrameBytes(f, n)
  <2> DEFINE b == FrameBytes(f, n)
  <2> HIDE DEF b
  <2>0. b \in Seq(Bytes)
    BY <1>3 DEF b
  <2>1. Follows(Seq(Bytes), held, arrived, wire, b)
    BY <1>4, <2>0, FrameFollows
  <2> QED
    BY <1>5, <2>1 DEF b, Stream, Follows
<1>7. t \in Seq(Bytes)
  BY <1>3, <1>4, <1>6, ConcatProperties
<1> HIDE DEF s, t, f
<1>8. InOrder(s, written) /\ ToTheEnd(s, written)
  BY <1>1 DEF ReaderInv, BytesInv, s
<1>9. InOrder(t, written') /\ ToTheEnd(t, written')
  <2>1. t = s \o FrameBytes(Len(written) + 1, n)
    BY <1>6 DEF f
  <2> QED
    BY <1>1, <1>4, <1>7, <1>8, <2>1, InOrderWrite
<1>10. /\ n \in Nat /\ n >= 1 /\ Len(s) \in Nat /\ DOMAIN s = 1..Len(s)
       /\ DOMAIN t = 1..(Len(s) + n) /\ Len(t) = Len(s) + n
       /\ \A i \in DOMAIN t :
            \/ i \in DOMAIN s /\ t[i] = s[i]
            \/ i > Len(s) /\ i \in Nat /\ t[i].frame = f /\ t[i].at = i - Len(s)
  <2>1. IsAppended(s, t, f, n)
    BY <1>2, <1>4, <1>6, <1>7, FrameAppended
  <2> QED
    BY <2>1 DEF IsAppended
<1>11. UNCHANGED <<selected, dropped, arrived, held, delivered, closed, cut, outcome>>
  BY DEF WriteFrame
<1>12. ReaderTypeOK' /\ Len(written') <= MaxFrames
  <2>1. ReaderTypeOK
    BY DEF ReaderInv
  <2>2. Len(written') <= MaxFrames
    BY <1>2, ReaderAssumption
  <2> QED
    BY <1>2, <1>6, <1>11, <2>1, <2>2 DEF ReaderTypeOK
<1>13. BytesInv'
  <2>1. outcome # "none"
    BY <1>1 DEF ReaderInv, BytesInv
  <2> QED
    BY <1>1, <1>9, <1>11, <2>1 DEF BytesInv, t
<1>14. FramesInv'
  <2>1. Increasing(d) /\ Known(d, written) /\ Ahead(s, d)
    BY DEF ReaderInv, FramesInv, s
  <2>2. DOMAIN d = 1..Len(d) /\ \A j \in DOMAIN d : d[j] \in Nat
    <3>1. d \in Seq(Nat)
      BY FramesAreNumbers DEF ReaderInv
    <3> HIDE DEF d
    <3> QED
      BY <3>1
  <2>3. Known(d, written') /\ \A j \in DOMAIN d : d[j] < f
    BY <1>2, <2>1, <2>2 DEF Known, f
  <2>4. Ahead(t, d)
    BY <1>10, <2>1, <2>3 DEF Ahead
  <2> QED
    BY <1>11, <2>1, <2>3, <2>4 DEF FramesInv, t
<1>15. WholeReadInv'
  <2> SUFFICES ASSUME ~dropped
               PROVE  /\ FromTheStart(t, d, written', cut)
                      /\ outcome = "error" => cut \/ JoinTooLong'
                      /\ held # <<>> => Len(held) < HeaderLength \/ Len(held) < held[1].length
    BY <1>11 DEF WholeReadInv, t
  <2>1. /\ FromTheStart(s, d, written, cut)
        /\ outcome = "error" => JoinTooLong
        /\ held # <<>> => Len(held) < HeaderLength \/ Len(held) < held[1].length
    BY <1>1 DEF ReaderInv, WholeReadInv, s
  <2>2. outcome = "error" => JoinTooLong'
    <3> SUFFICES ASSUME JoinTooLong PROVE JoinTooLong'
      BY <2>1
    <3>1. ~selected /\ written # <<>> /\ written[1] > Limit
      BY DEF JoinTooLong
    <3>2. 1 \in DOMAIN written
      BY <1>1, <3>1, EmptySeq
    <3>3. 1 \in DOMAIN written' /\ written'[1] = written[1] /\ written' # <<>>
      BY <1>2, <3>2 DEF f
    <3> QED
      BY <1>11, <3>1, <3>3 DEF JoinTooLong
  <2>3. 1 \in DOMAIN t /\ t # <<>>
    BY <1>10
  <2>4. t[1].at = 1 /\ t[1].frame = Len(d) + 1
    <3>1. CASE s = <<>>
      <4>1. Len(d) = Len(written) /\ Len(s) = 0
        BY <1>1, <2>1, <3>1 DEF FromTheStart
      <4>2. 1 \notin DOMAIN s /\ 1 - Len(s) = 1
        BY <1>10, <4>1
      <4> QED
        BY <1>10, <2>3, <4>1, <4>2 DEF f
    <3>2. CASE s # <<>>
      <4>1. 1 \in DOMAIN s
        BY <1>4, <3>2, EmptySeq
      <4>2. t[1] = s[1]
        BY <1>10, <2>3, <4>1
      <4> QED
        BY <2>1, <3>2, <4>2 DEF FromTheStart
    <3> QED
      BY <3>1, <3>2
  <2>5. FromTheStart(t, d, written', cut)
    BY <2>1, <2>3, <2>4 DEF FromTheStart
  <2> QED
    BY <2>1, <2>2, <2>5
<1> QED
  BY <1>12, <1>13, <1>14, <1>15 DEF ReaderInv

(* A step of which the bytes left to read notice nothing. *)
LEMMA SameStreamKeeps ==
  ASSUME ReaderInv, ReaderTypeOK', Stream' = Stream,
         UNCHANGED <<selected, dropped, written, delivered, closed, cut, outcome>>,
         ~dropped /\ held' # <<>> => Len(held') < HeaderLength \/ Len(held') < held'[1].length
  PROVE  ReaderInv'
<1>1. BytesInv' /\ FramesInv' /\ Len(written') <= MaxFrames
  BY DEF ReaderInv, BytesInv, FramesInv
<1>2. WholeReadInv'
  BY DEF ReaderInv, WholeReadInv, JoinTooLong
<1> QED
  BY <1>1, <1>2 DEF ReaderInv

LEMMA ArriveKeeps == ReaderInv /\ Arrive => ReaderInv'
<1> SUFFICES ASSUME ReaderInv, Arrive PROVE ReaderInv'
  OBVIOUS
<1>1. PICK k \in 1..Len(wire) : /\ arrived' = arrived \o SubSeq(wire, 1, k)
                                /\ wire' = SubSeq(wire, k + 1, Len(wire))
  BY DEF Arrive
<1>2. UNCHANGED <<selected, dropped, written, held, delivered, closed, cut, outcome>>
  BY DEF Arrive
<1>3. wire \in Seq(Bytes) /\ arrived \in Seq(Bytes) /\ held \in Seq(Bytes) /\ ReaderTypeOK
  BY DEF ReaderInv, ReaderTypeOK
<1>4. /\ arrived \o SubSeq(wire, 1, k) \in Seq(Bytes)
      /\ SubSeq(wire, k + 1, Len(wire)) \in Seq(Bytes)
      /\ held \o (arrived \o SubSeq(wire, 1, k)) \o SubSeq(wire, k + 1, Len(wire))
           = held \o arrived \o wire
  <2>1. Moves(Seq(Bytes), held, arrived, wire, k)
    BY <1>3, PieceMoves
  <2> QED
    BY <2>1 DEF Moves
<1>5. arrived' \in Seq(Bytes) /\ wire' \in Seq(Bytes)
  BY <1>1, <1>4
<1>6. ReaderTypeOK'
  BY <1>2, <1>3, <1>5 DEF ReaderTypeOK
<1>7. Stream' = Stream
  BY <1>1, <1>2, <1>4 DEF Stream
<1>8. ~dropped /\ held' # <<>> => Len(held') < HeaderLength \/ Len(held') < held'[1].length
  BY <1>2 DEF ReaderInv, WholeReadInv
<1> QED
  BY <1>2, <1>6, <1>7, <1>8, SameStreamKeeps

(* What a read finds when it starts where it should. *)
LEMMA FirstByte ==
  ASSUME ReaderInv, Taken # <<>>
  PROVE  /\ Stream # <<>> /\ 1 \in DOMAIN Stream /\ Stream[1] = Taken[1] /\ Stream[1] \in Bytes
         /\ Stream[1].at \in 1..Stream[1].length /\ Stream[1].frame \in DOMAIN written
         /\ Stream[1].length = written[Stream[1].frame]
         /\ ~dropped => Stream[1].at = 1
<1> DEFINE s == Stream
           t == Taken
<1>1. /\ t \in Seq(Bytes) /\ s \in Seq(Bytes) /\ Len(t) \in Nat /\ Len(t) <= Len(s) /\ Len(s) \in Nat
      /\ DOMAIN t = 1..Len(t) /\ DOMAIN s = 1..Len(s) /\ \A i \in 1..Len(t) : s[i] = t[i]
  BY Pieces DEF ReaderInv
<1>2. InOrder(s, written) /\ (~dropped => FromTheStart(s, delivered, written, cut))
  BY DEF ReaderInv, BytesInv, WholeReadInv
<1>3. t # <<>>
  OBVIOUS
<1> HIDE DEF s, t
<1>4. 1 \in DOMAIN t /\ 1 \in DOMAIN s /\ s[1] = t[1]
  BY <1>1, <1>3, EmptySeq
<1>5. s # <<>> /\ s[1] \in Bytes
  <2>1. Len(s) # 0
    BY <1>1, <1>4
  <2> QED
    BY <1>1, <1>4, <2>1, EmptySeq
<1>6. /\ s[1].at \in 1..s[1].length /\ s[1].frame \in DOMAIN written
      /\ s[1].length = written[s[1].frame]
  BY <1>2, <1>4 DEF InOrder
<1>7. ~dropped => s[1].at = 1
  BY <1>2, <1>5 DEF FromTheStart
<1> QED
  BY <1>4, <1>5, <1>6, <1>7 DEF s, t

LEMMA TakeKeeps ==
  ReaderInv /\ outcome = "reading" /\ TakePiece /\ UNCHANGED streamVars => ReaderInv'
<1> SUFFICES ASSUME ReaderInv, TakePiece, UNCHANGED streamVars PROVE ReaderInv'
  OBVIOUS
<1>1. /\ held' = Taken /\ arrived' = <<>> /\ UNCHANGED <<delivered, outcome>> /\ arrived # <<>>
      /\ UNCHANGED <<selected, dropped, written, wire, closed, cut>>
  BY DEF TakePiece, streamVars
<1>2. wire \in Seq(Bytes) /\ Taken \in Seq(Bytes) /\ ReaderTypeOK
  BY Pieces DEF ReaderInv
<1>3. ReaderTypeOK'
  <2>1. arrived' \in Seq(Bytes)
    BY <1>1, EmptySeq
  <2> QED
    BY <1>1, <1>2, <2>1 DEF ReaderTypeOK
<1>4. Stream' = Stream
  <2>1. Stream' = Taken \o <<>> \o wire
    BY <1>1 DEF Stream
  <2>2. Taken \o <<>> = Taken
    BY <1>2, ConcatEmptySeq
  <2> QED
    BY <1>2, <2>1, <2>2, Pieces
<1>5. ASSUME ~dropped, Taken # <<>>
      PROVE  Len(Taken) < HeaderLength \/ Len(Taken) < Taken[1].length
  <2>1. Taken[1].at = 1
    BY <1>5, FirstByte
  <2>2. CASE \E n \in Lengths : Declares(Taken, n) /\ WithinLimit(n) /\ Len(Taken) < Needed(n)
    <3>1. PICK n \in Lengths : Declares(Taken, n) /\ Len(Taken) < n
      BY <2>2 DEF Needed
    <3> QED
      BY <2>1, <3>1 DEF Declares
  <2> QED
    BY <2>2 DEF TakePiece
<1>6. ~dropped /\ held' # <<>> => Len(held') < HeaderLength \/ Len(held') < held'[1].length
  BY <1>1, <1>5
<1> QED
  BY <1>1, <1>3, <1>4, <1>6, SameStreamKeeps

LEMMA SeqOfMore ==
  ASSUME NEW S, NEW T, S \subseteq T, NEW s \in Seq(S)
  PROVE  s \in Seq(T)
<1>1. Len(s) \in Nat /\ s \in [1..Len(s) -> T]
  OBVIOUS
<1> QED
  BY <1>1

LEMMA DropKeeps == ReaderInv /\ DropRead => ReaderInv'
<1> SUFFICES ASSUME ReaderInv, DropRead PROVE ReaderInv'
  OBVIOUS
<1>1. /\ held' = <<>> /\ dropped' = TRUE /\ outcome = "reading"
      /\ UNCHANGED <<selected, written, wire, closed, cut, arrived, delivered, outcome>>
  BY DEF DropRead, streamVars
<1>2. wire \in Seq(Bytes) /\ arrived \in Seq(Bytes) /\ held \in Seq(Bytes) /\ ReaderTypeOK
      /\ Stream \in Seq(Bytes)
  BY Pieces DEF ReaderInv
<1>3. ReaderTypeOK'
  <2>1. held' \in Seq(Bytes)
    BY <1>1, EmptySeq
  <2>2. delivered' \in Seq((IF dropped' THEN 0 ELSE 1)..MaxFrames)
    <3>1. delivered \in Seq((IF dropped THEN 0 ELSE 1)..MaxFrames)
          /\ (IF dropped THEN 0 ELSE 1)..MaxFrames \subseteq 0..MaxFrames
      BY <1>2 DEF ReaderTypeOK
    <3>2. delivered \in Seq(0..MaxFrames)
      BY <3>1, SeqOfMore
    <3> QED
      BY <1>1, <3>2
  <2> QED
    BY <1>1, <1>2, <2>1, <2>2 DEF ReaderTypeOK
<1> DEFINE m == Len(held)
           t == <<>> \o arrived \o wire
<1>4. t \in Seq(Bytes) /\ IsSuffix(t, Stream, m)
  <2>1. /\ m \in Nat /\ m <= Len(held \o arrived)
        /\ arrived = SubSeq(held \o arrived, m + 1, Len(held \o arrived))
    <3> DEFINE p == held \o arrived
    <3>1. /\ p \in Seq(Bytes) /\ Len(p) = m + Len(arrived) /\ m \in Nat /\ Len(arrived) \in Nat
          /\ \A i \in 1..(m + Len(arrived)) : p[i] = IF i <= m THEN held[i] ELSE arrived[i - m]
      BY <1>2, ConcatProperties
    <3> HIDE DEF p, m
    <3>2. m \in 0..Len(p)
      BY <3>1
    <3> DEFINE r == SubSeq(p, m + 1, Len(p))
    <3>3. r \in Seq(Bytes) /\ Len(r) = Len(p) - m /\ \A i \in 1..(Len(p) - m) : r[i] = p[i + m]
      <4>1. IsRest(Seq(Bytes), p, m, r)
        BY <3>1, <3>2, SubSeqFrom
      <4> QED
        BY <4>1 DEF IsRest
    <3> HIDE DEF r
    <3>4. Len(r) = Len(arrived)
      BY <3>1, <3>3
    <3>5. ASSUME NEW i \in 1..Len(arrived)
          PROVE  arrived[i] = r[i]
      <4>1. i \in 1..(Len(p) - m) /\ i + m \in 1..(m + Len(arrived)) /\ ~(i + m <= m) /\ (i + m) - m = i
        BY <3>1
      <4>2. p[i + m] = arrived[(i + m) - m]
        BY <3>1, <4>1
      <4> QED
        BY <3>3, <4>1, <4>2
    <3>6. arrived = r
      BY <1>2, <3>3, <3>4, <3>5, SeqEqual
    <3> QED
      BY <3>1, <3>2, <3>6 DEF p, r
  <2> HIDE DEF m
  <2>2. Lost(Seq(Bytes), held, arrived, wire, m, arrived)
    BY <1>2, <2>1, PiecesLost
  <2> QED
    BY <2>2 DEF Stream, Lost
<1>5. Stream' = t
  BY <1>1 DEF Stream
<1> HIDE DEF m, t
<1>6. InOrder(t, written) /\ (~cut => ToTheEnd(t, written))
  <2>1. InOrder(Stream, written) /\ (~cut => ToTheEnd(Stream, written))
    BY DEF ReaderInv, BytesInv
  <2> QED
    BY <1>2, <1>4, <2>1, InOrderSuffix
<1>7. Ahead(t, delivered)
  <2>1. Ahead(Stream, delivered)
    BY DEF ReaderInv, FramesInv
  <2>2. \A i \in DOMAIN t : i + m \in DOMAIN Stream /\ t[i] = Stream[i + m]
    BY <1>4 DEF IsSuffix
  <2> QED
    BY <2>1, <2>2 DEF Ahead
<1>8. BytesInv' /\ FramesInv'
  BY <1>1, <1>5, <1>6, <1>7 DEF ReaderInv, BytesInv, FramesInv
<1>9. WholeReadInv' /\ Len(written') <= MaxFrames
  BY <1>1 DEF ReaderInv, WholeReadInv
<1> QED
  BY <1>3, <1>8, <1>9 DEF ReaderInv

(* What Warcraft did not send is missing at the end. *)
LEMMA EndIsCut ==
  ASSUME NEW S, NEW p \in Seq(S), NEW w \in Seq(S), NEW k \in 0..Len(w)
  PROVE  /\ SubSeq(w, 1, k) \in Seq(S) /\ p \o SubSeq(w, 1, k) \in Seq(S)
         /\ \A i \in DOMAIN (p \o SubSeq(w, 1, k)) :
              i \in DOMAIN (p \o w) /\ (p \o SubSeq(w, 1, k))[i] = (p \o w)[i]
         /\ ~(k < Len(w)) => SubSeq(w, 1, k) = w
<1> DEFINE u == SubSeq(w, 1, k)
           t == p \o u
           s == p \o w
<1>1. k \in Nat /\ Len(w) \in Nat /\ k <= Len(w) /\ Len(p) \in Nat
  OBVIOUS
<1>2. /\ u \in Seq(S) /\ Len(u) = k /\ \A i \in 1..k : u[i] = w[i]
  BY <1>1, SubSeqProperties
<1> HIDE DEF u
<1>3. /\ t \in Seq(S) /\ Len(t) = Len(p) + k
      /\ \A i \in 1..(Len(p) + k) : t[i] = IF i <= Len(p) THEN p[i] ELSE u[i - Len(p)]
  BY <1>2, ConcatProperties
<1>4. /\ s \in Seq(S) /\ Len(s) = Len(p) + Len(w)
      /\ \A i \in 1..(Len(p) + Len(w)) : s[i] = IF i <= Len(p) THEN p[i] ELSE w[i - Len(p)]
  BY ConcatProperties
<1>5. DOMAIN t = 1..(Len(p) + k) /\ DOMAIN s = 1..(Len(p) + Len(w))
  BY <1>3, <1>4
<1> HIDE DEF s, t
<1>6. ASSUME NEW i \in DOMAIN t
      PROVE  i \in DOMAIN s /\ t[i] = s[i]
  <2>1. i \in 1..(Len(p) + k) /\ i \in 1..(Len(p) + Len(w)) /\ i \in Nat
    BY <1>1, <1>5
  <2>2. CASE i <= Len(p)
    BY <1>3, <1>4, <1>5, <2>1, <2>2
  <2>3. CASE ~(i <= Len(p))
    <3>1. i - Len(p) \in 1..k
      BY <1>1, <2>1, <2>3
    <3>2. t[i] = u[i - Len(p)] /\ s[i] = w[i - Len(p)]
      BY <1>3, <1>4, <2>1, <2>3
    <3> QED
      BY <1>2, <1>5, <2>1, <3>1, <3>2
  <2> QED
    BY <2>2, <2>3
<1>7. ASSUME ~(k < Len(w))
      PROVE  u = w
  <2>1. k = Len(w)
    BY <1>1, <1>7
  <2> QED
    BY <1>2, <2>1, SeqEqual
<1> QED
  BY <1>2, <1>3, <1>6, <1>7 DEF s, t, u

Ends(T, p, w, k, u) ==
  /\ u \in T /\ p \o u \in T
  /\ ~(k < Len(w)) => u = w
  /\ \A i \in DOMAIN (p \o u) : i \in DOMAIN (p \o w) /\ (p \o u)[i] = (p \o w)[i]

LEMMA EndsEarly ==
  ASSUME NEW S, NEW p \in Seq(S), NEW w \in Seq(S), NEW k \in 0..Len(w), NEW u, u = SubSeq(w, 1, k)
  PROVE  Ends(Seq(S), p, w, k, u)
BY EndIsCut DEF Ends

LEMMA CloseKeeps == ReaderInv /\ CloseStream => ReaderInv'
<1> SUFFICES ASSUME ReaderInv, CloseStream PROVE ReaderInv'
  OBVIOUS
<1>1. PICK k \in 0..Len(wire) : wire' = SubSeq(wire, 1, k) /\ cut' = (k < Len(wire))
  BY DEF CloseStream
<1>2. /\ UNCHANGED <<selected, dropped, written, arrived, held, delivered, outcome>>
      /\ closed' = TRUE /\ ~closed
  BY DEF CloseStream
<1>3. /\ wire \in Seq(Bytes) /\ Taken \in Seq(Bytes) /\ Stream = Taken \o wire
      /\ Stream \in Seq(Bytes) /\ ReaderTypeOK
  BY Pieces DEF ReaderInv
<1>4. Ends(Seq(Bytes), Taken, wire, k, wire')
  BY <1>1, <1>3, EndsEarly
<1>5. Stream' = Taken \o wire' /\ (~cut' => wire' = wire)
  BY <1>1, <1>2, <1>4 DEF Stream, Taken, Ends
<1> DEFINE s == Stream
           t == Stream'
<1>6. wire' \in Seq(Bytes) /\ t \in Seq(Bytes)
      /\ \A i \in DOMAIN t : i \in DOMAIN s /\ t[i] = s[i]
  BY <1>3, <1>4, <1>5 DEF Ends
<1>7. ~cut /\ outcome # "none" /\ (~cut' => t = s)
  BY <1>2, <1>3, <1>4, <1>5 DEF ReaderInv, BytesInv
<1>8. ReaderTypeOK'
  <2>1. cut' \in BOOLEAN /\ closed' \in BOOLEAN
    BY <1>1, <1>2
  <2> QED
    BY <1>2, <1>3, <1>6, <2>1 DEF ReaderTypeOK
<1>9. InOrder(s, written) /\ ToTheEnd(s, written) /\ Ahead(s, delivered)
  BY <1>7 DEF ReaderInv, BytesInv, FramesInv
<1>10. WholeReadInv'
  <2> SUFFICES ASSUME ~dropped
               PROVE  /\ FromTheStart(t, delivered, written, cut')
                      /\ outcome = "error" => cut' \/ JoinTooLong
                      /\ held # <<>> => Len(held) < HeaderLength \/ Len(held) < held[1].length
    BY <1>2 DEF WholeReadInv, JoinTooLong
  <2>1. /\ FromTheStart(s, delivered, written, cut)
        /\ outcome = "error" => JoinTooLong
        /\ held # <<>> => Len(held) < HeaderLength \/ Len(held) < held[1].length
    BY <1>7 DEF ReaderInv, WholeReadInv
  <2> HIDE DEF s, t
  <2>2. t # <<>> => t[1] = s[1] /\ s # <<>>
    <3> SUFFICES ASSUME t # <<>> PROVE t[1] = s[1] /\ s # <<>>
      OBVIOUS
    <3>1. 1 \in DOMAIN t
      BY <1>6, EmptySeq
    <3>2. 1 \in DOMAIN s /\ t[1] = s[1]
      BY <1>6, <3>1
    <3>3. s # <<>>
      BY <3>2
    <3> QED
      BY <3>2, <3>3
  <2>3. FromTheStart(t, delivered, written, cut')
    <3>1. t = <<>> /\ ~cut' => s = <<>> /\ ~cut
      BY <1>7
    <3> QED
      BY <2>1, <2>2, <3>1 DEF FromTheStart
  <2> QED
    BY <2>1, <2>3
<1> HIDE DEF s, t
<1>11. InOrder(t, written)
  BY <1>6, <1>9 DEF InOrder
<1>12. Ahead(t, delivered)
  BY <1>6, <1>9 DEF Ahead
<1>13. BytesInv' /\ FramesInv'
  <2>1. Increasing(delivered) /\ Known(delivered, written)
    BY DEF ReaderInv, FramesInv
  <2> QED
    BY <1>2, <1>7, <1>9, <1>11, <1>12, <2>1 DEF BytesInv, FramesInv, t
<1>14. Len(written') <= MaxFrames
  BY <1>2 DEF ReaderInv
<1> QED
  BY <1>8, <1>10, <1>13, <1>14 DEF ReaderInv

(* A read that fails has met a frame over the limit or the end of the bytes. *)
LEMMA FailureKeeps ==
  ReaderInv /\ ReadNext /\ (RefuseHeader \/ EndOfStream) => ReaderInv'
<1> SUFFICES ASSUME ReaderInv, ReadNext, RefuseHeader \/ EndOfStream PROVE ReaderInv'
  OBVIOUS
<1>0. outcome = "reading" /\ (selected \/ delivered = <<>>) /\ UNCHANGED streamVars
  BY DEF ReadNext
<1>1. /\ UNCHANGED <<selected, dropped, written, wire, closed, cut, arrived, held, delivered>>
      /\ outcome' \in {"none", "error"}
  BY <1>0 DEF RefuseHeader, EndOfStream, streamVars
<1>2. Stream' = Stream /\ ReaderTypeOK' /\ Len(written') <= MaxFrames
  BY <1>1 DEF Stream, ReaderInv, ReaderTypeOK
<1>3. held \in Seq(Bytes) /\ Stream \in Seq(Bytes) /\ Taken \in Seq(Bytes)
      /\ Stream = Taken \o wire /\ Len(Taken) \in Nat
  BY Pieces DEF ReaderInv
<1>4. ASSUME arrived = <<>>, wire = <<>>
      PROVE  Stream = held /\ Taken = held
  <2>1. held \o <<>> = held
    BY <1>3, ConcatEmptySeq
  <2> QED
    BY <1>4, <2>1 DEF Stream, Taken
<1>5. outcome' = "none" => closed /\ Stream = <<>>
  BY <1>4 DEF RefuseHeader, EndOfStream
<1>6. BytesInv' /\ FramesInv'
  BY <1>1, <1>2, <1>5 DEF ReaderInv, BytesInv, FramesInv
<1>7. ASSUME ~dropped, outcome' = "error", RefuseHeader
      PROVE  JoinTooLong
  <2>1. Len(Taken) >= 2 /\ Taken # <<>>
    BY <1>3, <1>7, EmptySeq DEF RefuseHeader, HeaderLength
  <2>2. Taken[1].at = 1 /\ Taken[1].frame \in DOMAIN written
        /\ Taken[1].length = written[Taken[1].frame]
    BY <1>7, <2>1, FirstByte
  <2>3. PICK n \in Lengths : Declares(Taken, n) /\ ~WithinLimit(n)
    BY <1>7, <2>2 DEF RefuseHeader
  <2>4. n = Taken[1].length /\ ~selected /\ ~(n <= Limit)
    BY <2>2, <2>3 DEF Declares, WithinLimit
  <2>5. FromTheStart(Stream, delivered, written, cut) /\ Stream # <<>> /\ Stream[1] = Taken[1]
    BY <1>7, <2>1, FirstByte DEF ReaderInv, WholeReadInv
  <2>6. Taken[1].frame = 1
    <3>1. delivered = <<>> /\ Len(delivered) = 0
      BY <1>0, <2>4
    <3> QED
      BY <2>5, <3>1 DEF FromTheStart
  <2>7. written # <<>>
    BY <2>2
  <2>8. n \in Nat /\ Limit \in Nat
    BY ReaderAssumption DEF ReaderAssumption
  <2> QED
    BY <2>2, <2>4, <2>6, <2>7, <2>8 DEF JoinTooLong
<1>8. ASSUME ~dropped, outcome' = "error", EndOfStream
      PROVE  cut
  <2> SUFFICES ASSUME ~cut PROVE FALSE
    OBVIOUS
  <2>1. held # <<>> /\ Stream = held /\ Taken = held
    BY <1>4, <1>8 DEF EndOfStream
  <2>2. 1 \in DOMAIN held /\ held[1].at = 1 /\ held[1] \in Bytes
    BY <1>8, <2>1, FirstByte
  <2>3. held[1].length \in Nat /\ held[1].length >= 2
    BY <2>2, ReaderAssumption DEF ReaderAssumption, Bytes, HeaderLength
  <2>4. 1 + (held[1].length - held[1].at) <= Len(held)
    <3>1. ToTheEnd(held, written)
      BY <2>1 DEF ReaderInv, BytesInv
    <3> QED
      BY <2>2, <3>1 DEF ToTheEnd
  <2>5. held[1].length <= Len(held) /\ Len(held) \in Nat
    BY <1>3, <2>2, <2>3, <2>4
  <2>6. Len(held) < 2 \/ Len(held) < held[1].length
    BY <1>8, <2>1 DEF ReaderInv, WholeReadInv, HeaderLength
  <2> QED
    BY <2>3, <2>5, <2>6
<1>9. WholeReadInv'
  <2>1. ASSUME ~dropped
        PROVE  outcome' = "error" => cut \/ JoinTooLong
    BY <1>7, <1>8, <2>1
  <2> QED
    BY <1>1, <1>2, <2>1 DEF ReaderInv, WholeReadInv, JoinTooLong
<1> QED
  BY <1>2, <1>6, <1>9 DEF ReaderInv

LEMMA ReturnKeeps ==
  ReaderInv /\ outcome = "reading" /\ ReturnFrame /\ UNCHANGED streamVars => ReaderInv'
<1> SUFFICES ASSUME ReaderInv, outcome = "reading", ReturnFrame, UNCHANGED streamVars
             PROVE  ReaderInv'
  OBVIOUS
<1> DEFINE s == Stream
           t == Stream'
           x == IF Taken[1].at = 1 THEN Taken[1].frame ELSE 0
<1>1. PICK n \in Lengths : /\ Declares(Taken, n) /\ Len(Taken) >= n
                           /\ arrived' = SubSeq(Taken, n + 1, Len(Taken))
                           /\ delivered' = Append(delivered, x)
  BY DEF ReturnFrame, Needed, Unread
<1>2. /\ held' = <<>> /\ Len(Taken) >= 2
      /\ UNCHANGED <<selected, dropped, written, wire, closed, cut, outcome>>
  BY DEF ReturnFrame, streamVars, HeaderLength
<1>3. /\ wire \in Seq(Bytes) /\ arrived \in Seq(Bytes) /\ held \in Seq(Bytes) /\ s \in Seq(Bytes)
      /\ Taken \in Seq(Bytes) /\ Len(Taken) \in Nat /\ s = Taken \o wire /\ ReaderTypeOK
  BY Pieces DEF ReaderInv
<1>4. n \in Nat /\ Taken # <<>>
  BY <1>2, <1>3, EmptySeq, ReaderAssumption DEF ReaderAssumption
<1>5. /\ s # <<>> /\ 1 \in DOMAIN s /\ s[1] = Taken[1] /\ s[1] \in Bytes
      /\ s[1].frame \in DOMAIN written /\ (~dropped => s[1].at = 1)
  BY <1>4, FirstByte
<1>6. s[1].at = 1 => n = s[1].length
  BY <1>1, <1>5 DEF Declares
<1>7. arrived' \in Seq(Bytes) /\ t \in Seq(Bytes) /\ IsSuffix(t, s, n)
  <2>0. n <= Len(held \o arrived)
        /\ arrived' = SubSeq(held \o arrived, n + 1, Len(held \o arrived))
    BY <1>1, <1>3, <1>4 DEF Taken
  <2>1. Lost(Seq(Bytes), held, arrived, wire, n, arrived')
    BY <1>3, <1>4, <2>0, PiecesLost
  <2>2. t = <<>> \o arrived' \o wire
    BY <1>2 DEF Stream
  <2> QED
    BY <2>1, <2>2 DEF Stream, Lost
<1>8. /\ delivered \in Seq(Nat) /\ written \in Seq(Lengths) /\ DOMAIN written = 1..Len(written)
      /\ Len(written) \in Nat /\ Len(written) <= MaxFrames
  <2>1. written \in Seq(Lengths) /\ Len(written) <= MaxFrames
    BY DEF ReaderInv, ReaderTypeOK
  <2>2. delivered \in Seq(Nat)
    BY <1>3, FramesAreNumbers
  <2> QED
    BY <2>1, <2>2
<1>9. InOrder(s, written) /\ (~cut => ToTheEnd(s, written))
      /\ Increasing(delivered) /\ Known(delivered, written) /\ Ahead(s, delivered)
  BY DEF ReaderInv, BytesInv, FramesInv
<1>10. ReaderTypeOK'
  <2>1. held' \in Seq(Bytes)
    BY <1>2, EmptySeq
  <2>2. s[1].frame \in 1..MaxFrames /\ MaxFrames \in Nat
    BY <1>5, ReaderAssumption DEF Bytes
  <2>3. delivered' \in Seq((IF dropped THEN 0 ELSE 1)..MaxFrames)
    <3>1. delivered \in Seq((IF dropped THEN 0 ELSE 1)..MaxFrames)
      BY <1>3 DEF ReaderTypeOK
    <3>2. x \in (IF dropped THEN 0 ELSE 1)..MaxFrames
      BY <1>5, <2>2
    <3> DEFINE F == (IF dropped THEN 0 ELSE 1)..MaxFrames
    <3> HIDE DEF x, F
    <3>3. delivered \in Seq(F) /\ x \in F
      BY <3>1, <3>2 DEF F
    <3>4. Append(delivered, x) \in Seq(F)
      BY <3>3, AppendProperties
    <3> QED
      BY <1>1, <3>4 DEF F
  <2>4. selected' = selected /\ dropped' = dropped
    BY <1>2
  <2> QED
    BY <1>2, <1>3, <1>7, <2>1, <2>3, <2>4 DEF ReaderTypeOK
<1> HIDE DEF s, t
<1>11. InOrder(t, written) /\ (~cut => ToTheEnd(t, written))
  BY <1>3, <1>7, <1>9, InOrderSuffix
<1>12. delivered' = Append(delivered, IF s[1].at = 1 THEN s[1].frame ELSE 0)
  BY <1>1, <1>5
<1>13. Increasing(delivered') /\ Known(delivered', written) /\ Ahead(t, delivered')
  <2>1. StaysBehind(delivered', t, written)
    BY <1>3, <1>4, <1>5, <1>6, <1>7, <1>8, <1>9, <1>12, FrameReturned
  <2> QED
    BY <2>1 DEF StaysBehind
<1>14. BytesInv' /\ FramesInv' /\ Len(written') <= MaxFrames
  <2>1. outcome' # "none" /\ (cut => closed)
    BY <1>2 DEF ReaderInv, BytesInv
  <2> QED
    BY <1>2, <1>8, <1>11, <1>13, <2>1 DEF BytesInv, FramesInv, t
<1>15. WholeReadInv'
  <2> SUFFICES ASSUME ~dropped
               PROVE  FromTheStart(t, delivered', written, cut)
    BY <1>2 DEF WholeReadInv, t
  <2>1. s[1].at = 1 /\ n = s[1].length /\ delivered' = Append(delivered, s[1].frame)
    BY <1>5, <1>6, <1>12
  <2>2. FromTheStart(s, delivered, written, cut)
    BY DEF ReaderInv, WholeReadInv, s
  <2>3. cut = FALSE => ToTheEnd(s, written)
    BY <1>9
  <2> QED
    BY <1>3, <1>4, <1>5, <1>7, <1>8, <1>9, <2>1, <2>2, <2>3, WholeFrameReturned
<1> QED
  BY <1>10, <1>14, <1>15 DEF ReaderInv

(* The session that begins goes on where the join frame ended. *)
LEMMA SessionKeeps == ReaderInv /\ (JoinTimesOut \/ SessionBegins) => ReaderInv'
<1> SUFFICES ASSUME ReaderInv, JoinTimesOut \/ SessionBegins PROVE ReaderInv'
  OBVIOUS
<1>1. /\ UNCHANGED <<dropped, written, wire, closed, cut, arrived, held, delivered>>
      /\ outcome = "reading" /\ outcome' \in {"reading", "timeout"} /\ selected' \in BOOLEAN
  BY DEF JoinTimesOut, SessionBegins, streamVars, ReaderInv, ReaderTypeOK
<1>2. Stream' = Stream /\ ReaderTypeOK' /\ Len(written') <= MaxFrames
  BY <1>1 DEF Stream, ReaderInv, ReaderTypeOK
<1>3. BytesInv' /\ FramesInv'
  BY <1>1, <1>2 DEF ReaderInv, BytesInv, FramesInv
<1>4. WholeReadInv'
  BY <1>1, <1>2 DEF ReaderInv, WholeReadInv
<1> QED
  BY <1>2, <1>3, <1>4 DEF ReaderInv

LEMMA ReaderSteps == ReaderInv /\ [ReaderNext]_readerVars => ReaderInv'
<1> SUFFICES ASSUME ReaderInv, [ReaderNext]_readerVars PROVE ReaderInv'
  OBVIOUS
<1>1. CASE \E n \in Lengths : WriteFrame(n)
  BY <1>1, WriteKeeps
<1>2. CASE Arrive
  BY <1>2, ArriveKeeps
<1>3. CASE CloseStream
  BY <1>3, CloseKeeps
<1>4. CASE ReadNext
  BY <1>4, TakeKeeps, ReturnKeeps, FailureKeeps DEF ReadNext
<1>5. CASE DropRead
  BY <1>5, DropKeeps
<1>7. CASE JoinTimesOut \/ SessionBegins
  BY <1>7, SessionKeeps
<1>6. CASE UNCHANGED readerVars
  <2>1. UNCHANGED <<selected, dropped, written, wire, closed, cut, arrived, held, delivered, outcome>>
    BY <1>6 DEF readerVars, streamVars
  <2>2. Stream' = Stream /\ ReaderTypeOK'
    BY <2>1 DEF Stream, ReaderInv, ReaderTypeOK
  <2>3. ~dropped /\ held' # <<>> => Len(held') < HeaderLength \/ Len(held') < held'[1].length
    BY <2>1 DEF ReaderInv, WholeReadInv
  <2> QED
    BY <2>1, <2>2, <2>3, SameStreamKeeps
<1> QED
  BY <1>1, <1>2, <1>3, <1>4, <1>5, <1>6, <1>7 DEF ReaderNext

LEMMA ReaderInvMeans == ReaderInv => ReadsInStep
<1> SUFFICES ASSUME ReaderInv PROVE ReadsInStep
  OBVIOUS
<1>1. ~dropped => InStep
  BY DEF ReaderInv, WholeReadInv, FromTheStart, InStep
<1>2. ~dropped /\ outcome = "none" /\ ~cut => Len(delivered) = Len(written)
  BY DEF ReaderInv, BytesInv, WholeReadInv, FromTheStart
<1>3. \A i, j \in DOMAIN delivered :
        i < j /\ delivered[i] # 0 /\ delivered[j] # 0 => delivered[i] < delivered[j]
  BY DEF ReaderInv, FramesInv, Increasing
<1> QED
  BY <1>1, <1>2, <1>3 DEF ReadsInStep, ReaderInv

(* However TCP cuts the stream in pieces, and however often a read is      *)
(* dropped (FrameReader::read_next, main.rs:740): as long as no read was   *)
(* dropped with bytes it had taken, the frames returned are those Warcraft *)
(* wrote, in order and without gaps, and a read fails only on a join frame *)
(* over the limit or a stream that ended inside a frame; and no session    *)
(* returns a frame again.                                                  *)
THEOREM ReadsInStepAlways == ReaderSpec => []ReadsInStep
<1>1. ReaderInit => ReaderInv
  BY Initially
<1>2. ReaderInv /\ [ReaderNext]_readerVars => ReaderInv'
  BY ReaderSteps
<1>3. ReaderInv => ReadsInStep
  BY ReaderInvMeans
<1> QED
  BY <1>1, <1>2, <1>3, PTL DEF ReaderSpec
=============================================================================
