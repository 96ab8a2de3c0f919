----------------------------- MODULE LidarProofs -----------------------------
(* Proofs about the two parts of lidardata_pub: Ls01aDriver, for buffers   *)
(* and pieces of any size, any number of scans, errors and calls and any   *)
(* noise (ScansAlwaysSent: that does not hold both a start and an end);    *)
(* and, independently of it, SerialPort, for any number of threads,        *)
(* any calls of theirs and any device that comes and goes.                 *)
EXTENDS Ls01aDriver, SerialPort, SequenceTheorems, FiniteSetTheorems,
        WellFoundedInduction, TLAPS

-----------------------------------------------------------------------------
(* Lemmas about the parser.                                                *)

\* The loop of SendLidarData finds the first start there is.
LEMMA LeastIsIn ==
  ASSUME NEW S \in SUBSET Nat, S # {}
  PROVE  Least(S) \in S /\ \A k \in S : Least(S) <= k
<1>1. \E R : /\ IsWellFoundedOn(R, Nat)
             /\ \A k, l \in Nat : k < l => <<k, l>> \in R
  <2>1. \A k, l \in Nat : k < l => <<k, l>> \in OpToRel(<, Nat)
    BY Zenon DEF OpToRel
  <2>2. QED
    BY <2>1, NatLessThanWellFounded, Zenon
<1>2. PICK R : /\ IsWellFoundedOn(R, Nat)
               /\ \A k, l \in Nat : k < l => <<k, l>> \in R
  BY <1>1
<1>3. S \subseteq Nat
  OBVIOUS
<1>4. PICK m \in S : \A k \in S : ~(<<k, m>> \in R)
  <2>1. IsWellFoundedOn(R, Nat)
    BY <1>2
  <2>2. QED
    BY <2>1, WFMin
<1>5. ASSUME NEW k \in S
      PROVE  m <= k
  <2>1. m \in Nat /\ k \in Nat
    BY <1>3
  <2>2. ~(k < m)
    BY <1>2, <1>4, <2>1, Zenon
  <2>3. QED
    BY <2>1, <2>2
<1>6. QED
  BY <1>5 DEF Least

\* Erasing a scan shortens the cells.
LEMMA EraseScanShortens ==
  ASSUME NEW cells \in Seq(Int), Len(cells) >= NeedRead
  PROVE  EraseScan(cells) \in Seq(Int) /\ Len(EraseScan(cells)) <= Len(cells)
<1>1. ASSUME NEW n \in Nat, n <= Len(cells)
      PROVE  LET erased == SubSeq(cells, n + 1, Len(cells))
             IN  erased \in Seq(Int) /\ Len(erased) <= Len(cells)
  BY <1>1
<1>2. NeedRead \in Nat /\ NeedRead <= Len(cells)
  BY DEF NeedRead
<1>3. QED
  BY <1>1, <1>2 DEF EraseScan

-----------------------------------------------------------------------------
(* The limit of the serial buffer.                                         *)

(* A read gives BufferSize cells at most, and Insert looks at the limit    *)
(* under the same lock that covers the append.                             *)
BufferInv ==
  /\ wire \in Seq(Int) /\ scans \in Nat /\ i \in Nat
  /\ chunk \in Seq(Int) /\ Len(chunk) <= BufferSize
  /\ m_vecBuffer \in Seq(Int) /\ SerialBufferBounded

bufferVars == <<wire, scans, i, chunk, m_vecBuffer>>

LEMMA BufferInvInit == DriverInit => BufferInv
  BY DriverAssumption DEF DriverInit, BufferInv, SerialBufferBounded

LEMMA BufferInvStep ==
  ASSUME BufferInv, [DriverNext]_driverVars
  PROVE  BufferInv'
<1> USE DEF lidarVars, flagVars, readerVars, senderVars, userVars
<1>1. CASE UNCHANGED bufferVars
  BY <1>1 DEF bufferVars, BufferInv, SerialBufferBounded
<1>2. CASE LidarScan
  <2>1. Scan(scans + 1) \in Seq(Int)
    BY DEF BufferInv, Scan, StartAck, EndAck
  <2>2. QED
    BY <1>2, <2>1 DEF LidarScan, BufferInv, SerialBufferBounded
<1>3. ASSUME NEW c \in Noise, LidarNoise(c)
      PROVE  BufferInv'
  BY <1>3, DriverAssumption DEF LidarNoise, BufferInv, SerialBufferBounded
<1>4. CASE ReadSome
  <2>1. PICK n \in 1..BufferSize :
          /\ n <= Len(wire)
          /\ chunk' = SubSeq(wire, 1, n)
          /\ wire' = SubSeq(wire, n + 1, Len(wire))
    BY <1>4 DEF ReadSome
  <2>2. /\ chunk' \in Seq(Int) /\ Len(chunk') = n
        /\ wire' \in Seq(Int)
    BY <2>1, DriverAssumption, SMTT(40) DEF BufferInv
  <2>3. QED
    BY <1>4, <2>2, DriverAssumption DEF ReadSome, BufferInv, SerialBufferBounded
<1>5. CASE ReadError
  BY <1>5 DEF ReadError, BufferInv, SerialBufferBounded
<1>6. CASE Insert
  <2>1. Len(<<>>) <= BufferSize
    BY DriverAssumption
  <2>2. CASE HasRoom(m_vecBuffer)
    <3>1. m_vecBuffer' = m_vecBuffer \o chunk /\ Len(m_vecBuffer) < Limit
      BY <1>6, <2>2 DEF Insert, HasRoom
    <3>2. /\ m_vecBuffer' \in Seq(Int)
          /\ Len(m_vecBuffer') = Len(m_vecBuffer) + Len(chunk)
      BY <3>1 DEF BufferInv
    <3>3. Len(m_vecBuffer') < Limit + BufferSize
      BY <3>1, <3>2, DriverAssumption DEF BufferInv
    <3>4. QED
      BY <1>6, <2>1, <3>2, <3>3 DEF Insert, BufferInv, SerialBufferBounded
  <2>3. CASE ~HasRoom(m_vecBuffer)
    BY <1>6, <2>1, <2>3 DEF Insert, BufferInv, SerialBufferBounded
  <2>4. QED
    BY <2>2, <2>3
<1>7. CASE Parse
  <2> DEFINE j    == Least(Starts)
             rest == SubSeq(m_vecBuffer, j + 1, Len(m_vecBuffer))
  <2>1. j \in Nat /\ j < Len(m_vecBuffer)
    <3>1. Starts \in SUBSET Nat /\ Starts # {}
      BY <1>7 DEF Parse, Starts, BufferInv
    <3>2. j \in Starts
      BY <3>1, LeastIsIn
    <3>3. QED
      BY <3>2 DEF Starts, BufferInv
  <2>2. rest \in Seq(Int) /\ Len(rest) = Len(m_vecBuffer) - j
    BY <2>1 DEF BufferInv
  <2>3. CASE Len(rest) >= NeedRead /\ IsValid(SubSeq(rest, 1, NeedRead))
    <3>1. m_vecBuffer' = EraseScan(rest) /\ i' = 0
      BY <1>7, <2>3 DEF Parse
    <3>2. EraseScan(rest) \in Seq(Int) /\ Len(EraseScan(rest)) <= Len(rest)
      BY <2>2, <2>3, EraseScanShortens
    <3>3. QED
      BY <1>7, <2>1, <2>2, <3>1, <3>2, DriverAssumption
      DEF Parse, BufferInv, SerialBufferBounded
  <2>4. CASE ~(Len(rest) >= NeedRead /\ IsValid(SubSeq(rest, 1, NeedRead)))
    <3>1. m_vecBuffer' = rest /\ i' = j + 1
      BY <1>7, <2>4 DEF Parse
    <3>2. QED
      BY <1>7, <2>1, <2>2, <3>1, DriverAssumption, SMTT(40)
      DEF Parse, BufferInv, SerialBufferBounded
  <2>5. QED
    BY <2>3, <2>4
<1>8. CASE ParseEnds
  BY <1>8 DEF ParseEnds, BufferInv, SerialBufferBounded
<1>9. CASE \/ ReadLidarData \/ ReadTop \/ ReadNothing \/ Restart
           \/ SendTop \/ Publish \/ UserNext \/ UNCHANGED driverVars
  BY <1>1, <1>9
  DEF bufferVars, driverVars, ReadLidarData, Command, ReadTop, ReadNothing,
      Restart, SendTop, Publish, UserNext, InitialEvClient, Start, SetScanFlag,
      Stop, StopScan, Destroy
<1>10. QED
  BY <1>2, <1>3, <1>4, <1>5, <1>6, <1>7, <1>8, <1>9
  DEF DriverNext, LidarNext, ReaderNext, SenderNext

(* The limit of ReadLidarData and one read more bound the buffer, however  *)
(* slow the sending thread is.                                             *)
THEOREM SerialBufferStaysBounded == DriverSpec => []SerialBufferBounded
<1>1. BufferInv => SerialBufferBounded
  BY DEF BufferInv
<1>2. QED
  BY <1>1, BufferInvInit, BufferInvStep, PTL DEF DriverSpec

-----------------------------------------------------------------------------
(* What a Stop is worth.                                                   *)

\* The commands a reader at a place may still send without seeing m_scanFlag.
Remaining(at) ==
  IF at \in {"read", "restop"} THEN 3
  ELSE IF at = "restart" THEN 2
  ELSE IF at \in {"begin", "rescan"} THEN 1
  ELSE 0

(* While m_scanFlag is not set, what the reader has sent since the Stop    *)
(* and what it may still send make up one restart at most.                 *)
CommandsBounded ==
  /\ late \in Nat /\ late <= 3
  /\ ~m_scanFlag => late + Remaining(reader) <= 3

(* A lidar that has taken the stop is one whose user is not about to start *)
(* it.                                                                     *)
StopTaken ==
  /\ user = "stop" => ~m_scanFlag
  /\ stopped => ~m_scanFlag /\ user # "start"
  /\ stopped /\ late = 0 => lidar = "stop"

StopInv == CommandsBounded /\ StopTaken

LEMMA RemainingBounded ==
  ASSUME NEW at
  PROVE  Remaining(at) \in 0..3
  BY DEF Remaining

LEMMA StopInvInit == DriverInit => StopInv
<1> SUFFICES ASSUME DriverInit
             PROVE  StopInv
  OBVIOUS
<1>1. reader = "begin" /\ late = 0
  BY DEF DriverInit
<1>2. Remaining("begin") = 1
  BY DEF Remaining
<1>3. CommandsBounded
  BY <1>1, <1>2 DEF CommandsBounded
<1>4. user = "idle" /\ ~stopped
  BY DEF DriverInit
<1>5. StopTaken
  BY <1>4 DEF StopTaken
<1>6. QED
  BY <1>3, <1>5 DEF StopInv

\* A command of the reader counts against what it may still send.
LEMMA CommandStep ==
  ASSUME StopInv, NEW from, NEW cmd, NEW to, Command(from, cmd, to),
         Remaining(from) = Remaining(to) + 1
  PROVE  StopInv'
<1>1. /\ reader = from /\ reader' = to
      /\ late' = IF m_scanFlag THEN late ELSE late + 1
      /\ UNCHANGED <<m_scanFlag, user, stopped>>
  BY DEF Command, flagVars, userVars
<1>2. Remaining(to) \in 0..3
  BY RemainingBounded
<1>3. late \in Nat /\ late <= 3
  BY DEF StopInv, CommandsBounded
<1>4. CASE m_scanFlag
  <2>1. late' = late /\ m_scanFlag' /\ ~stopped' /\ user' # "stop"
    BY <1>1, <1>4 DEF StopInv, StopTaken
  <2>2. QED
    BY <1>3, <2>1 DEF StopInv, CommandsBounded, StopTaken
<1>5. CASE ~m_scanFlag
  <2>1. late' = late + 1 /\ late + Remaining(from) <= 3
    BY <1>1, <1>5 DEF StopInv, CommandsBounded
  <2>2. late' \in Nat /\ late' <= 3 /\ late' + Remaining(to) <= 3 /\ late' # 0
    BY <1>2, <1>3, <2>1
  <2>3. CommandsBounded'
    BY <1>1, <2>2 DEF CommandsBounded
  <2>4. StopTaken'
    BY <1>1, <2>2 DEF StopInv, StopTaken
  <2>5. QED
    BY <2>3, <2>4 DEF StopInv
<1>6. QED
  BY <1>4, <1>5

\* A step after which the reader may not send more than before.
LEMMA NoCommandStep ==
  ASSUME StopInv,
         \/ Remaining(reader') <= Remaining(reader)
         \/ m_scanFlag,
         UNCHANGED <<late, m_scanFlag, user, stopped, lidar>>
  PROVE  StopInv'
<1>1. Remaining(reader) \in 0..3 /\ Remaining(reader') \in 0..3
  BY RemainingBounded
<1>2. CommandsBounded'
  BY <1>1 DEF StopInv, CommandsBounded
<1>3. StopTaken'
  BY DEF StopInv, StopTaken
<1>4. QED
  BY <1>2, <1>3 DEF StopInv

LEMMA StopInvStep ==
  ASSUME StopInv, [DriverNext]_driverVars
  PROVE  StopInv'
<1> USE DEF lidarVars, flagVars, readerVars, senderVars, userVars
<1>1. CASE ReadLidarData
  <2>1. Remaining("begin") = Remaining("top") + 1
    BY DEF Remaining
  <2>2. QED
    BY <1>1, <2>1, CommandStep DEF ReadLidarData
<1>2. CASE Restart
  <2>1. /\ Remaining("restop") = Remaining("restart") + 1
        /\ Remaining("restart") = Remaining("rescan") + 1
        /\ Remaining("rescan") = Remaining("top") + 1
    BY DEF Remaining
  <2>2. QED
    BY <1>2, <2>1, CommandStep DEF Restart
<1>3. CASE ReadTop
  <2>1. UNCHANGED <<late, m_scanFlag, user, stopped, lidar>>
    BY <1>3 DEF ReadTop
  <2>2. CASE m_scanFlag
    BY <2>1, <2>2, NoCommandStep
  <2>3. CASE ~m_scanFlag
    <3>1. reader' = "done"
      BY <1>3, <2>3 DEF ReadTop, Scanning
    <3>2. Remaining(reader') <= Remaining(reader)
      BY <3>1, RemainingBounded DEF Remaining
    <3>3. QED
      BY <2>1, <3>2, NoCommandStep
  <2>4. QED
    BY <2>2, <2>3
<1>4. CASE ReadSome \/ ReadNothing \/ ReadError \/ Insert
  <2>1. UNCHANGED <<late, m_scanFlag, user, stopped, lidar>>
    BY <1>4 DEF ReadSome, ReadNothing, ReadError, Insert
  <2>2. \/ reader = "read" /\ reader' \in {"append", "restop", "top"}
        \/ reader = "append" /\ reader' = "top"
    BY <1>4 DEF ReadSome, ReadNothing, ReadError, Insert
  <2>3. Remaining(reader') <= Remaining(reader)
    BY <2>2 DEF Remaining
  <2>4. QED
    BY <2>1, <2>3, NoCommandStep
<1>5. CASE Start
  <2>1. UNCHANGED <<late, m_scanFlag, reader>> /\ ~stopped' /\ user' = "start"
    BY <1>5 DEF Start
  <2>2. CommandsBounded' /\ StopTaken'
    BY <2>1 DEF StopInv, CommandsBounded, StopTaken
  <2>3. QED
    BY <2>2 DEF StopInv
<1>6. CASE SetScanFlag
  <2>1. /\ UNCHANGED <<late, stopped>> /\ m_scanFlag' /\ user' = "idle"
        /\ user = "start"
    BY <1>6 DEF SetScanFlag
  <2>2. CommandsBounded'
    BY <2>1 DEF StopInv, CommandsBounded
  <2>3. ~stopped'
    BY <2>1 DEF StopInv, StopTaken
  <2>4. StopTaken'
    BY <2>1, <2>3 DEF StopTaken
  <2>5. QED
    BY <2>2, <2>4 DEF StopInv
<1>7. CASE Stop
  <2>1. late' = 0 /\ reader' = reader
    BY <1>7 DEF Stop
  <2>2. Remaining(reader') \in 0..3
    BY RemainingBounded
  <2>3. CommandsBounded'
    BY <2>1, <2>2 DEF CommandsBounded
  <2>4. ~m_scanFlag' /\ ~stopped'
    BY <1>7 DEF Stop
  <2>5. StopTaken'
    BY <2>4 DEF StopTaken
  <2>6. QED
    BY <2>3, <2>5 DEF StopInv
<1>8. CASE StopScan
  <2>1. UNCHANGED <<late, m_scanFlag, reader>>
    BY <1>8 DEF StopScan
  <2>2. CommandsBounded'
    BY <2>1 DEF StopInv, CommandsBounded
  <2>3. user = "stop" /\ user' = "idle" /\ stopped' = (lidar' = "stop")
    BY <1>8 DEF StopScan
  <2>4. StopTaken'
    BY <2>1, <2>3 DEF StopInv, StopTaken
  <2>5. QED
    BY <2>2, <2>4 DEF StopInv
<1>9. CASE Destroy
  <2>1. /\ UNCHANGED <<late, m_scanFlag, reader, stopped, lidar>>
        /\ user' = "join"
    BY <1>9 DEF Destroy
  <2>2. CommandsBounded' /\ StopTaken'
    BY <2>1 DEF StopInv, CommandsBounded, StopTaken
  <2>3. QED
    BY <2>2 DEF StopInv
<1>10. CASE InitialEvClient \/ SenderNext \/ LidarNext \/ UNCHANGED driverVars
  <2>1. UNCHANGED <<late, m_scanFlag, user, stopped, lidar, reader>>
    BY <1>10
    DEF InitialEvClient, SenderNext, SendTop, Parse, ParseEnds, Publish,
        LidarNext, LidarScan, LidarNoise, driverVars
  <2>2. Remaining(reader') <= Remaining(reader)
    BY <2>1, RemainingBounded
  <2>3. QED
    BY <2>1, <2>2, NoCommandStep
<1>11. QED
  BY <1>1, <1>2, <1>3, <1>4, <1>5, <1>6, <1>7, <1>8, <1>9, <1>10
  DEF DriverNext, ReaderNext, UserNext

(* After a Stop the reader sends the commands of one restart at most, and  *)
(* without them the lidar that has taken the stop stays stopped: however   *)
(* the three threads and the errors of the port interleave.                *)
THEOREM StopAlwaysHolds == DriverSpec => []StopHolds
<1>1. StopInv => StopHolds
  BY DEF StopInv, CommandsBounded, StopTaken, StopHolds
<1>2. QED
  BY <1>1, StopInvInit, StopInvStep, PTL DEF DriverSpec

-----------------------------------------------------------------------------
(* The scans that are published.                                           *)

\* Noise does not put together what looks like a scan.
NoiseIsNoScan == ~({StartAck, EndAck} \subseteq Noise)

\* Where a scan seems to begin.
Windows(w) == {p \in 1..(Len(w) - 2) : w[p] = StartAck /\ w[p + 2] = EndAck}

(* The stream w, behind the scans t that have been taken out of it: what   *)
(* looks like a scan is one that was sent, newer than those before it.     *)
ScansAhead(w, t, n) ==
  /\ \A p \in Windows(w) : w[p + 1] \in 1..n
  /\ \A p \in Windows(w) : \A k \in 1..Len(t) : t[k] < w[p + 1]
  /\ \A p, q \in Windows(w) : p < q => w[p + 1] < w[q + 1]
  /\ \A k \in 1..Len(t) : t[k] \in 1..n
  /\ \A k, l \in 1..Len(t) : k < l => t[k] < t[l]

\* A start is noise or that of a whole scan.
StartsAreWhole(w) ==
  StartAck \notin Noise => \A p \in 1..Len(w) : w[p] = StartAck => p + 2 <= Len(w)

LEMMA RestOfCells ==
  ASSUME NEW w \in Seq(Int), NEW d \in 0..Len(w)
  PROVE  /\ SubSeq(w, d + 1, Len(w)) \in Seq(Int)
         /\ Len(SubSeq(w, d + 1, Len(w))) = Len(w) - d
         /\ \A x \in 1..(Len(w) - d) : SubSeq(w, d + 1, Len(w))[x] = w[x + d]
<1>1. d + 1 \in 1..(Len(w) + 1) /\ Len(w) \in (d + 1 - 1)..Len(w)
  OBVIOUS
<1>2. /\ SubSeq(w, d + 1, Len(w)) \in Seq(Int)
      /\ Len(SubSeq(w, d + 1, Len(w))) = Len(w) - (d + 1) + 1
      /\ \A x \in 1..(Len(w) - (d + 1) + 1) :
           SubSeq(w, d + 1, Len(w))[x] = w[(d + 1) + x - 1]
  BY <1>1, SubSeqProperties
<1>3. Len(w) - (d + 1) + 1 = Len(w) - d
  OBVIOUS
<1>4. \A x \in 1..(Len(w) - d) : (d + 1) + x - 1 = x + d
  OBVIOUS
<1>5. QED
  BY <1>2, <1>3, <1>4

\* Cells are taken off at the front.
LEMMA WindowsOfRest ==
  ASSUME NEW w \in Seq(Int), NEW d \in 0..Len(w), NEW r \in Seq(Int),
         Len(r) = Len(w) - d, \A x \in 1..(Len(w) - d) : r[x] = w[x + d],
         NEW p \in Windows(r)
  PROVE  p + d \in Windows(w) /\ r[p + 1] = w[(p + d) + 1]
<1>1. p \in 1..(Len(r) - 2) /\ r[p] = StartAck /\ r[p + 2] = EndAck
  BY DEF Windows
<1>2. /\ p \in 1..(Len(w) - d) /\ p + 1 \in 1..(Len(w) - d)
      /\ p + 2 \in 1..(Len(w) - d)
  <2>1. \A m, x \in Int : x \in 1..(m - 2) =>
          x \in 1..m /\ x + 1 \in 1..m /\ x + 2 \in 1..m
    OBVIOUS
  <2>2. Len(w) - d \in Int /\ p \in Int /\ p \in 1..((Len(w) - d) - 2)
    BY <1>1
  <2>3. QED
    BY <2>1, <2>2
<1>3. (p + 1) + d = (p + d) + 1 /\ (p + 2) + d = (p + d) + 2
  BY <1>1
<1>4. r[p] = w[p + d] /\ r[p + 1] = w[(p + d) + 1] /\ r[p + 2] = w[(p + d) + 2]
  <2>1. /\ r[p] = w[p + d] /\ r[p + 1] = w[(p + 1) + d]
        /\ r[p + 2] = w[(p + 2) + d]
    BY <1>2
  <2>2. QED
    BY <1>3, <2>1
<1>5. p + d \in 1..(Len(w) - 2)
  <2>1. \A m, e, x \in Int : e >= 0 /\ x \in 1..((m - e) - 2) => x + e \in 1..(m - 2)
    OBVIOUS
  <2>2. Len(w) \in Int /\ d \in Int /\ d >= 0 /\ p \in Int
    BY <1>1
  <2>3. p \in 1..((Len(w) - d) - 2)
    BY <1>1
  <2>4. QED
    BY <2>1, <2>2, <2>3, Zenon
<1>6. QED
  BY <1>1, <1>4, <1>5 DEF Windows

LEMMA FrontErased ==
  ASSUME NEW w \in Seq(Int), NEW d \in 0..Len(w), NEW t, NEW n, ScansAhead(w, t, n),
         StartsAreWhole(w)
  PROVE  /\ ScansAhead(SubSeq(w, d + 1, Len(w)), t, n)
         /\ StartsAreWhole(SubSeq(w, d + 1, Len(w)))
<1> DEFINE r == SubSeq(w, d + 1, Len(w))
<1>1. /\ r \in Seq(Int) /\ Len(r) = Len(w) - d
      /\ \A x \in 1..(Len(w) - d) : r[x] = w[x + d]
  BY RestOfCells
<1> HIDE DEF r
<1>2. \A p \in Windows(r) : p + d \in Windows(w) /\ r[p + 1] = w[(p + d) + 1]
  BY <1>1, WindowsOfRest
<1>3. \A p \in Windows(r) : r[p + 1] \in 1..n
  BY <1>2 DEF ScansAhead
<1>4. \A p \in Windows(r) : \A k \in 1..Len(t) : t[k] < r[p + 1]
  BY <1>2 DEF ScansAhead
<1>5. ASSUME NEW p \in Windows(r), NEW q \in Windows(r), p < q
      PROVE  r[p + 1] < r[q + 1]
  <2>1. p \in Int /\ q \in Int
    BY DEF Windows
  <2>2. p + d < q + d
    BY <1>5, <2>1
  <2>3. w[(p + d) + 1] < w[(q + d) + 1]
    BY <1>2, <2>2 DEF ScansAhead
  <2>4. QED
    BY <1>2, <2>3
<1>6. StartsAreWhole(r)
  <2> SUFFICES ASSUME StartAck \notin Noise, NEW p \in 1..Len(r), r[p] = StartAck
               PROVE  p + 2 <= Len(r)
    BY DEF StartsAreWhole
  <2>1. p + d \in 1..Len(w) /\ w[p + d] = StartAck
    <3>1. \A m, e, x \in Int : e >= 0 /\ x \in 1..(m - e) => x + e \in 1..m
      OBVIOUS
    <3>2. Len(w) \in Int /\ d \in Int /\ d >= 0 /\ p \in Int
      OBVIOUS
    <3>3. p \in 1..(Len(w) - d)
      BY <1>1
    <3>4. p + d \in 1..Len(w)
      BY <3>1, <3>2, <3>3, Zenon
    <3>5. QED
      BY <1>1, <3>3, <3>4
  <2>2. (p + d) + 2 <= Len(w)
    BY <2>1 DEF StartsAreWhole
  <2>3. QED
    BY <1>1, <2>2
<1>7. ScansAhead(r, t, n)
  BY <1>3, <1>4, <1>5 DEF ScansAhead
<1>8. QED
  BY <1>6, <1>7 DEF r

\* A scan is taken, with all that comes before it.
LEMMA ScanTaken ==
  ASSUME NEW w \in Seq(Int), NEW p \in Windows(w), NEW t \in Seq(Int), NEW n \in Nat,
         ScansAhead(w, t, n), StartsAreWhole(w)
  PROVE  /\ ScansAhead(SubSeq(w, (p + 2) + 1, Len(w)), Append(t, w[p + 1]), n)
         /\ StartsAreWhole(SubSeq(w, (p + 2) + 1, Len(w)))
<1> DEFINE r == SubSeq(w, (p + 2) + 1, Len(w))
           a == Append(t, w[p + 1])
<1>1. p \in 1..(Len(w) - 2) /\ p + 2 \in 0..Len(w)
  BY DEF Windows
<1>2. ScansAhead(r, t, n) /\ StartsAreWhole(r)
  BY <1>1, FrontErased
<1>3. /\ r \in Seq(Int) /\ Len(r) = Len(w) - (p + 2)
      /\ \A x \in 1..(Len(w) - (p + 2)) : r[x] = w[x + (p + 2)]
  BY <1>1, RestOfCells
<1>4. w[p + 1] \in 1..n
  BY DEF ScansAhead
<1>5. /\ Len(a) = Len(t) + 1 /\ a[Len(t) + 1] = w[p + 1]
      /\ \A k \in 1..Len(t) : a[k] = t[k]
      /\ Len(t) \in Nat
  BY <1>4, AppendProperties
<1> HIDE DEF r, a
<1>6. \A k \in 1..Len(a) : k \in 1..Len(t) \/ k = Len(t) + 1
  BY <1>5
<1>7. \A k \in 1..Len(t) : t[k] < w[p + 1]
  BY DEF ScansAhead
<1>8. ASSUME NEW q \in Windows(r)
      PROVE  \A k \in 1..Len(a) : a[k] < r[q + 1]
  <2>1. q + (p + 2) \in Windows(w) /\ r[q + 1] = w[(q + (p + 2)) + 1]
    BY <1>1, <1>3, WindowsOfRest
  <2>2. p < q + (p + 2)
    BY <1>1 DEF Windows
  <2>3. w[p + 1] < r[q + 1]
    BY <2>1, <2>2 DEF ScansAhead
  <2>4. \A k \in 1..Len(t) : t[k] < r[q + 1]
    BY <1>2 DEF ScansAhead
  <2>5. QED
    BY <1>5, <1>6, <2>3, <2>4
<1>9. \A k \in 1..Len(a) : a[k] \in 1..n
  <2>1. \A k \in 1..Len(t) : t[k] \in 1..n
    BY DEF ScansAhead
  <2>2. QED
    BY <1>4, <1>5, <1>6, <2>1
<1>10. ASSUME NEW k \in 1..Len(a), NEW l \in 1..Len(a), k < l
       PROVE  a[k] < a[l]
  <2>1. \A x, y \in 1..Len(t) : x < y => t[x] < t[y]
    BY DEF ScansAhead
  <2>2. k \in 1..Len(t)
    BY <1>5, <1>10
  <2>3. CASE l \in 1..Len(t)
    BY <1>5, <1>10, <2>1, <2>2, <2>3
  <2>4. CASE l = Len(t) + 1
    BY <1>5, <1>7, <2>2, <2>4
  <2>5. QED
    BY <1>6, <2>3, <2>4
<1>11. ScansAhead(r, a, n)
  BY <1>2, <1>8, <1>9, <1>10 DEF ScansAhead
<1>12. QED
  BY <1>2, <1>11 DEF r, a

\* The lidar sends a scan.
LEMMA ScanSent ==
  ASSUME NEW w \in Seq(Int), NEW t, NEW n \in Nat, ScansAhead(w, t, n),
         StartsAreWhole(w)
  PROVE  ScansAhead(w \o Scan(n + 1), t, n + 1) /\ StartsAreWhole(w \o Scan(n + 1))
<1> DEFINE r == w \o Scan(n + 1)
           m == Len(w)
<1>1. /\ r \in Seq(Int) /\ Len(r) = m + 3 /\ m \in Nat
      /\ \A x \in 1..m : r[x] = w[x]
      /\ r[m + 1] = StartAck /\ r[m + 2] = n + 1 /\ r[m + 3] = EndAck
  <2>1. /\ Scan(n + 1) \in Seq(Int) /\ Len(Scan(n + 1)) = 3
        /\ Scan(n + 1)[1] = StartAck /\ Scan(n + 1)[2] = n + 1
        /\ Scan(n + 1)[3] = EndAck
    BY DEF Scan, StartAck, EndAck
  <2>2. /\ r \in Seq(Int) /\ Len(r) = m + Len(Scan(n + 1))
        /\ \A x \in 1..(m + Len(Scan(n + 1))) :
             r[x] = IF x <= m THEN w[x] ELSE Scan(n + 1)[x - m]
    BY <2>1, ConcatProperties
  <2>3. m \in Nat
    OBVIOUS
  <2> HIDE DEF r, m
  <2>4. \A x \in 1..m : x \in 1..(m + 3) /\ x <= m
    BY <2>3
  <2>5. /\ m + 1 \in 1..(m + 3) /\ ~(m + 1 <= m) /\ m + 1 - m = 1
        /\ m + 2 \in 1..(m + 3) /\ ~(m + 2 <= m) /\ m + 2 - m = 2
        /\ m + 3 \in 1..(m + 3) /\ ~(m + 3 <= m) /\ m + 3 - m = 3
    BY <2>3
  <2>6. \A x \in 1..m : r[x] = w[x]
    BY <2>2, <2>1, <2>4
  <2>11. \A x \in 1..(m + 3) : r[x] = IF x <= m THEN w[x] ELSE Scan(n + 1)[x - m]
    <3>1. m + Len(Scan(n + 1)) = m + 3
      BY <2>1
    <3>2. QED
      BY <2>2, <3>1, Zenon
  <2>7. r[m + 1] = StartAck
    <3>1. PICK y \in 1..(m + 3) : y = m + 1
      BY <2>5
    <3>2. ~(y <= m) /\ y - m = 1
      BY <2>3, <3>1
    <3>4. r[y] = Scan(n + 1)[1]
      BY <2>11, <3>2
    <3>3. QED
      BY <2>1, <3>1, <3>4
  <2>8. r[m + 2] = n + 1
    <3>1. PICK y \in 1..(m + 3) : y = m + 2
      BY <2>5
    <3>2. ~(y <= m) /\ y - m = 2
      BY <2>3, <3>1
    <3>4. r[y] = Scan(n + 1)[2]
      BY <2>11, <3>2
    <3>3. QED
      BY <2>1, <3>1, <3>4
  <2>9. r[m + 3] = EndAck
    <3>1. PICK y \in 1..(m + 3) : y = m + 3
      BY <2>5
    <3>2. ~(y <= m) /\ y - m = 3
      BY <2>3, <3>1
    <3>4. r[y] = Scan(n + 1)[3]
      BY <2>11, <3>2
    <3>3. QED
      BY <2>1, <3>1, <3>4
  <2>10. QED
    BY <2>1, <2>2, <2>3, <2>6, <2>7, <2>8, <2>9
<1>2. m = Len(w)
  OBVIOUS
<1> HIDE DEF r, m
<1>3. ASSUME NEW p \in Windows(r)
      PROVE  \/ p \in Windows(w) /\ r[p + 1] = w[p + 1]
             \/ p = m + 1 /\ r[p + 1] = n + 1
  <2>1. p \in 1..(m + 1) /\ r[p] = StartAck /\ r[p + 2] = EndAck
    BY <1>1 DEF Windows
  <2>2. CASE p = m + 1
    <3>1. p + 1 = m + 2
      BY <1>1, <2>2
    <3>2. QED
      BY <1>1, <2>2, <3>1
  <2>3. CASE p = m
    <3>1. p + 2 = m + 2
      BY <1>1, <2>3
    <3>2. n + 1 = EndAck
      BY <1>1, <2>1, <3>1
    <3>3. QED
      BY <3>2 DEF EndAck
  <2>4. CASE p = m - 1
    <3>1. p + 2 = m + 1
      BY <1>1, <2>4
    <3>2. StartAck = EndAck
      BY <1>1, <2>1, <3>1
    <3>3. QED
      BY <3>2 DEF StartAck, EndAck
  <2>5. CASE p <= m - 2
    <3>1. p \in 1..m /\ p + 1 \in 1..m /\ p + 2 \in 1..m /\ p \in 1..(m - 2)
      BY <1>1, <2>1, <2>5
    <3>2. QED
      BY <1>1, <1>2, <2>1, <3>1 DEF Windows
  <2>6. QED
    BY <1>1, <2>1, <2>2, <2>3, <2>4, <2>5
<1>4. \A x \in 1..n : x \in 1..(n + 1) /\ x < n + 1
  OBVIOUS
<1>5. n + 1 \in 1..(n + 1)
  OBVIOUS
<1>6. /\ \A p \in Windows(w) : w[p + 1] \in 1..n
      /\ \A p \in Windows(w) : \A k \in 1..Len(t) : t[k] < w[p + 1]
      /\ \A p, q \in Windows(w) : p < q => w[p + 1] < w[q + 1]
      /\ \A k \in 1..Len(t) : t[k] \in 1..n
      /\ \A k, l \in 1..Len(t) : k < l => t[k] < t[l]
  BY DEF ScansAhead
<1>7. \A p \in Windows(r) : r[p + 1] \in 1..(n + 1)
  BY <1>3, <1>4, <1>5, <1>6
<1>8. \A p \in Windows(r) : \A k \in 1..Len(t) : t[k] < r[p + 1]
  BY <1>3, <1>4, <1>6
<1>9. ASSUME NEW p \in Windows(r), NEW q \in Windows(r), p < q
      PROVE  r[p + 1] < r[q + 1]
  <2>1. \A x \in Windows(w) : x \in Int /\ x < m + 1
    BY <1>1, <1>2 DEF Windows
  <2>2. p \in Windows(w) /\ r[p + 1] = w[p + 1]
    <3>1. CASE p = m + 1
      <4>1. q \in 1..(m + 1)
        BY <1>1 DEF Windows
      <4>2. QED
        BY <1>1, <1>9, <3>1, <4>1
    <3>2. QED
      BY <1>3, <3>1
  <2>3. CASE q \in Windows(w) /\ r[q + 1] = w[q + 1]
    BY <1>6, <1>9, <2>2, <2>3
  <2>4. CASE q = m + 1 /\ r[q + 1] = n + 1
    BY <1>4, <1>6, <2>2, <2>4
  <2>5. QED
    BY <1>3, <2>3, <2>4
<1>10. \A k \in 1..Len(t) : t[k] \in 1..(n + 1)
  BY <1>4, <1>6
<1>11. ScansAhead(r, t, n + 1)
  BY <1>6, <1>7, <1>8, <1>9, <1>10 DEF ScansAhead
<1>12. StartsAreWhole(r)
  <2> SUFFICES ASSUME StartAck \notin Noise, NEW p \in 1..Len(r), r[p] = StartAck
               PROVE  p + 2 <= Len(r)
    BY DEF StartsAreWhole
  <2>1. CASE p \in 1..m
    <3>1. w[p] = StartAck
      BY <1>1, <2>1
    <3>2. p + 2 <= m
      BY <1>2, <2>1, <3>1 DEF StartsAreWhole
    <3>3. QED
      BY <1>1, <2>1, <3>2
  <2>2. CASE p = m + 1
    BY <1>1, <2>2
  <2>3. CASE p = m + 2
    <3>1. n + 1 = StartAck
      BY <1>1, <2>3
    <3>2. QED
      BY <3>1 DEF StartAck
  <2>4. CASE p = m + 3
    <3>1. StartAck = EndAck
      BY <1>1, <2>4
    <3>2. QED
      BY <3>1 DEF StartAck, EndAck
  <2>5. QED
    BY <1>1, <2>1, <2>2, <2>3, <2>4
<1>13. QED
  BY <1>11, <1>12 DEF r

\* It sends noise.
LEMMA NoiseSent ==
  ASSUME NoiseIsNoScan, NEW w \in Seq(Int), NEW t, NEW n, ScansAhead(w, t, n),
         StartsAreWhole(w), NEW c \in Noise, c \in Int
  PROVE  ScansAhead(Append(w, c), t, n) /\ StartsAreWhole(Append(w, c))
<1> DEFINE r == Append(w, c)
           m == Len(w)
<1>1. /\ r \in Seq(Int) /\ Len(r) = m + 1 /\ m \in Nat
      /\ \A x \in 1..m : r[x] = w[x]
      /\ r[m + 1] = c
  BY AppendProperties
<1>2. m = Len(w)
  OBVIOUS
<1> HIDE DEF r, m
<1>3. ASSUME NEW p \in Windows(r)
      PROVE  p \in Windows(w) /\ r[p + 1] = w[p + 1]
  <2>1. p \in 1..(m - 1) /\ r[p] = StartAck /\ r[p + 2] = EndAck
    <3>1. p \in 1..(Len(r) - 2) /\ r[p] = StartAck /\ r[p + 2] = EndAck
      BY DEF Windows
    <3>2. Len(r) - 2 = m - 1
      BY <1>1
    <3>3. QED
      BY <3>1, <3>2
  <2>2. CASE p = m - 1
    <3>1. p + 2 = m + 1 /\ p \in 1..m
      BY <1>1, <2>1, <2>2
    <3>2. c = EndAck /\ w[p] = StartAck
      BY <1>1, <2>1, <3>1
    <3>3. StartAck \notin Noise
      BY <3>2 DEF NoiseIsNoScan
    <3>4. p + 2 <= m
      BY <1>2, <3>1, <3>2, <3>3 DEF StartsAreWhole
    <3>5. QED
      BY <1>1, <3>1, <3>4
  <2>3. CASE p <= m - 2
    <3>1. p \in 1..m /\ p + 1 \in 1..m /\ p + 2 \in 1..m /\ p \in 1..(m - 2)
      BY <1>1, <2>1, <2>3
    <3>2. QED
      BY <1>1, <1>2, <2>1, <3>1 DEF Windows
  <2>4. QED
    BY <1>1, <2>1, <2>2, <2>3
<1>4. ScansAhead(r, t, n)
  <2>1. \A p \in Windows(r) : r[p + 1] \in 1..n
    BY <1>3 DEF ScansAhead
  <2>2. \A p \in Windows(r) : \A k \in 1..Len(t) : t[k] < r[p + 1]
    BY <1>3 DEF ScansAhead
  <2>3. \A p, q \in Windows(r) : p < q => r[p + 1] < r[q + 1]
    BY <1>3 DEF ScansAhead
  <2>4. QED
    BY <2>1, <2>2, <2>3 DEF ScansAhead
<1>5. StartsAreWhole(r)
  <2> SUFFICES ASSUME StartAck \notin Noise, NEW p \in 1..Len(r), r[p] = StartAck
               PROVE  p + 2 <= Len(r)
    BY DEF StartsAreWhole
  <2>1. p \in 1..m
    <3>1. p # m + 1
      BY <1>1
    <3>2. QED
      BY <1>1, <3>1
  <2>2. w[p] = StartAck
    BY <1>1, <2>1
  <2>3. p + 2 <= m
    BY <1>2, <2>1, <2>2 DEF StartsAreWhole
  <2>4. QED
    BY <1>1, <2>1, <2>3
<1>6. QED
  BY <1>4, <1>5 DEF r

\* Without noise the stream is the scans that come next.
OnlyScans(w, t, n) ==
  /\ Len(t) <= n /\ Len(w) = 3 * (n - Len(t))
  /\ \A k \in 1..Len(t) : t[k] = k
  /\ \A q \in 0..(n - Len(t) - 1) :
       w[3 * q + 1] = StartAck /\ w[3 * q + 2] = Len(t) + q + 1 /\ w[3 * q + 3] = EndAck

LEMMA NextScan ==
  ASSUME NEW w \in Seq(Int), Len(w) # 0, NEW t \in Seq(Int), NEW n \in Nat,
         OnlyScans(w, t, n)
  PROVE  /\ Len(w) >= 3
         /\ w[1] = StartAck /\ w[2] = Len(t) + 1 /\ w[3] = EndAck
         /\ OnlyScans(SubSeq(w, 3 + 1, Len(w)), Append(t, w[2]), n)
<1> DEFINE r == SubSeq(w, 3 + 1, Len(w))
           a == Append(t, w[2])
           u == Len(t)
<1>1. u \in Nat /\ u <= n /\ Len(w) \in Nat /\ Len(w) = 3 * (n - u)
  BY DEF OnlyScans
<1>2. Len(w) >= 3 /\ n - u - 1 \in Nat /\ 3 \in 0..Len(w)
  BY <1>1
<1>3. \A q \in 0..(n - u - 1) :
        w[3 * q + 1] = StartAck /\ w[3 * q + 2] = u + q + 1 /\ w[3 * q + 3] = EndAck
  BY DEF OnlyScans
<1>4. w[1] = StartAck /\ w[2] = u + 1 /\ w[3] = EndAck
  <2>1. 0 \in 0..(n - u - 1)
    BY <1>2
  <2>2. /\ w[3 * 0 + 1] = StartAck /\ w[3 * 0 + 2] = u + 0 + 1
        /\ w[3 * 0 + 3] = EndAck
    BY <1>3, <2>1
  <2>3. u + 0 + 1 = u + 1
    BY <1>1
  <2>4. QED
    BY <2>2, <2>3
<1>5. /\ Len(r) = Len(w) - 3
      /\ \A x \in 1..(Len(w) - 3) : r[x] = w[x + 3]
  BY <1>2, RestOfCells
<1>6. Len(a) = u + 1 /\ a[u + 1] = u + 1 /\ \A k \in 1..u : a[k] = t[k]
  <2>1. w[2] \in Int
    BY <1>1, <1>4
  <2>2. QED
    BY <1>1, <1>4, <2>1, AppendProperties
<1>7. u = Len(t)
  OBVIOUS
<1> HIDE DEF r, a, u
<1>8. \A k \in 1..Len(a) : a[k] = k
  <2>1. \A k \in 1..u : t[k] = k
    BY <1>7 DEF OnlyScans
  <2>2. \A k \in 1..(u + 1) : k \in 1..u \/ k = u + 1
    BY <1>1
  <2>3. QED
    BY <1>6, <2>1, <2>2
<1>9. ASSUME NEW q \in 0..(n - Len(a) - 1)
      PROVE  /\ r[3 * q + 1] = StartAck /\ r[3 * q + 2] = Len(a) + q + 1
             /\ r[3 * q + 3] = EndAck
  <2>1. q \in Nat /\ q + 1 \in 0..(n - u - 1) /\ q <= n - u - 2
    BY <1>1, <1>6
  <2>2. /\ 3 * q + 1 \in 1..(Len(w) - 3) /\ 3 * q + 2 \in 1..(Len(w) - 3)
        /\ 3 * q + 3 \in 1..(Len(w) - 3)
    BY <1>1, <2>1
  <2>3. /\ 3 * q + 1 + 3 = 3 * (q + 1) + 1 /\ 3 * q + 2 + 3 = 3 * (q + 1) + 2
        /\ 3 * q + 3 + 3 = 3 * (q + 1) + 3
    BY <2>1
  <2>4. /\ w[3 * (q + 1) + 1] = StartAck /\ w[3 * (q + 1) + 2] = u + (q + 1) + 1
        /\ w[3 * (q + 1) + 3] = EndAck
    BY <1>3, <2>1
  <2>5. /\ r[3 * q + 1] = w[3 * q + 1 + 3] /\ r[3 * q + 2] = w[3 * q + 2 + 3]
        /\ r[3 * q + 3] = w[3 * q + 3 + 3]
    BY <1>5, <2>2
  <2>6. u + (q + 1) + 1 = Len(a) + q + 1
    BY <1>1, <1>6, <2>1
  <2>7. QED
    BY <2>3, <2>4, <2>5, <2>6
<1>10. Len(a) <= n /\ Len(r) = 3 * (n - Len(a))
  BY <1>1, <1>2, <1>5, <1>6
<1>11. OnlyScans(r, a, n)
  BY <1>8, <1>9, <1>10 DEF OnlyScans
<1>12. QED
  BY <1>2, <1>4, <1>11 DEF r, a, u

LEMMA OneMoreScan ==
  ASSUME NEW w \in Seq(Int), NEW t \in Seq(Int), NEW n \in Nat, OnlyScans(w, t, n)
  PROVE  OnlyScans(w \o Scan(n + 1), t, n + 1)
<1> DEFINE s == Scan(n + 1)
           r == w \o s
           m == Len(w)
           u == Len(t)
<1>1. /\ s \in Seq(Int) /\ Len(s) = 3
      /\ s[1] = StartAck /\ s[2] = n + 1 /\ s[3] = EndAck
  BY DEF Scan, StartAck, EndAck
<1>2. u \in Nat /\ u <= n /\ m \in Nat /\ m = 3 * (n - u)
  BY DEF OnlyScans
<1> HIDE DEF s
<1>3. /\ Len(r) = m + Len(s)
      /\ \A x \in 1..(m + Len(s)) : r[x] = IF x <= m THEN w[x] ELSE s[x - m]
  BY <1>1, ConcatProperties
<1>4. /\ \A k \in 1..u : t[k] = k
      /\ \A q \in 0..(n - u - 1) :
           /\ w[3 * q + 1] = StartAck /\ w[3 * q + 2] = u + q + 1
           /\ w[3 * q + 3] = EndAck
  BY DEF OnlyScans
<1> HIDE DEF r, m, u
<1>5. /\ Len(r) = m + 3
      /\ \A x \in 1..m : r[x] = w[x]
      /\ \A y \in 1..3 : r[m + y] = s[y]
  <2>1. Len(r) = m + 3 /\ \A x \in 1..(m + 3) : r[x] = IF x <= m THEN w[x] ELSE s[x - m]
    <3>1. m + Len(s) = m + 3
      BY <1>1
    <3>2. QED
      BY <1>3, <3>1
  <2>2. \A x \in 1..m : x \in 1..(m + 3) /\ x <= m
    BY <1>2
  <2>3. ASSUME NEW y \in 1..3
        PROVE  r[m + y] = s[y]
    <3>1. m + y \in 1..(m + 3) /\ ~(m + y <= m) /\ m + y - m = y
      BY <1>2
    <3>2. PICK z \in 1..(m + 3) : z = m + y
      BY <3>1
    <3>3. ~(z <= m) /\ z - m = y
      BY <1>2, <3>1, <3>2
    <3>4. r[z] = s[y]
      BY <2>1, <3>3
    <3>5. QED
      BY <3>2, <3>4
  <2>4. QED
    BY <2>1, <2>2, <2>3
<1>6. ASSUME NEW q \in 0..((n + 1) - u - 1)
      PROVE  /\ r[3 * q + 1] = StartAck /\ r[3 * q + 2] = u + q + 1
             /\ r[3 * q + 3] = EndAck
  <2>1. CASE q = n - u
    <3>1. 3 * q = m /\ u + q + 1 = n + 1 /\ q \in Nat
      BY <1>2, <2>1
    <3>2. r[m + 1] = s[1] /\ r[m + 2] = s[2] /\ r[m + 3] = s[3]
      BY <1>5
    <3>3. QED
      BY <1>1, <3>1, <3>2
  <2>2. CASE q # n - u
    <3>1. q \in Nat /\ q \in 0..(n - u - 1) /\ q <= n - u - 1
      BY <1>2, <2>2
    <3>2. /\ 3 * q + 1 \in 1..m /\ 3 * q + 2 \in 1..m /\ 3 * q + 3 \in 1..m
      BY <1>2, <3>1
    <3>3. /\ r[3 * q + 1] = w[3 * q + 1] /\ r[3 * q + 2] = w[3 * q + 2]
          /\ r[3 * q + 3] = w[3 * q + 3]
      BY <1>5, <3>2
    <3>4. QED
      BY <1>4, <3>1, <3>3
  <2>3. QED
    BY <2>1, <2>2
<1>7. u <= n + 1 /\ Len(r) = 3 * ((n + 1) - u)
  BY <1>2, <1>5
<1>8. OnlyScans(r, t, n + 1)
  BY <1>4, <1>6, <1>7 DEF OnlyScans, u
<1>9. QED
  BY <1>8 DEF r, s

\* What the lidar has sent and nobody has taken.
Coming == (m_vecBuffer \o chunk) \o wire

\* What has been taken out of the buffer, the scan in the sender's hand too.
Taken == IF sender = "publish" THEN Append(pub, temp[2]) ELSE pub

HandsOK ==
  /\ pub \in Seq(Int) /\ noises \in Nat
  /\ sender = "publish" => temp[2] \in Int
  /\ sender # "parse" => i = 0
  /\ reader # "append" => chunk = <<>>

\* The loop has gone past a beginning only if the buffer ends behind it.
NothingPassed == sender = "parse" /\ i # 0 => Len(m_vecBuffer) < NeedRead

StreamInv ==
  ~gap =>
    /\ ScansAhead(Coming, Taken, scans) /\ StartsAreWhole(Coming)
    /\ noises = 0 => OnlyScans(Coming, Taken, scans) /\ NothingPassed

ScanInv == BufferInv /\ HandsOK /\ StreamInv

LEMMA ScanInvInit == DriverInit => ScanInv
<1> SUFFICES ASSUME DriverInit PROVE ScanInv
  OBVIOUS
<1>1. BufferInv
  BY BufferInvInit
<1>2. /\ m_vecBuffer = <<>> /\ chunk = <<>> /\ wire = <<>> /\ pub = <<>>
      /\ sender = "top" /\ i = 0 /\ scans = 0 /\ noises = 0
  BY DEF DriverInit
<1>3. <<>> \in Seq(Int) /\ Len(<<>>) = 0
  OBVIOUS
<1>4. HandsOK
  BY <1>2, <1>3 DEF HandsOK
<1>5. <<>> \o <<>> = <<>>
  OBVIOUS
<1>6. Coming = <<>> /\ Taken = <<>>
  BY <1>2, <1>5 DEF Coming, Taken
<1>7. 1..0 = {} /\ 1..(0 - 2) = {} /\ 0..(0 - 0 - 1) = {} /\ 0 = 3 * (0 - 0) /\ 0 <= 0
  OBVIOUS
<1>8. Windows(<<>>) = {}
  BY <1>3, <1>7 DEF Windows
<1>9. ScansAhead(<<>>, <<>>, 0)
  BY <1>3, <1>7, <1>8 DEF ScansAhead
<1>10. StartsAreWhole(<<>>)
  BY <1>3, <1>7 DEF StartsAreWhole
<1>11. OnlyScans(<<>>, <<>>, 0)
  BY <1>3, <1>7 DEF OnlyScans
<1>12. NothingPassed
  BY <1>2 DEF NothingPassed
<1>13. StreamInv
  BY <1>2, <1>6, <1>9, <1>10, <1>11, <1>12 DEF StreamInv
<1>14. QED
  BY <1>1, <1>4, <1>13 DEF ScanInv

LEMMA CutCells ==
  ASSUME NEW s \in Seq(Int), NEW n \in Nat, n <= Len(s)
  PROVE  SubSeq(s, 1, n) \o SubSeq(s, n + 1, Len(s)) = s
<1>1. 1 \in 1..(Len(s) + 1) /\ n \in (1 - 1)..Len(s) /\ Len(s) \in n..Len(s)
  OBVIOUS
<1>2. SubSeq(s, 1, n) \o SubSeq(s, n + 1, Len(s)) = SubSeq(s, 1, Len(s))
  BY <1>1, ConcatAdjacentSubSeq
<1>3. SubSeq(s, 1, Len(s)) = s
  BY SubSeqFull
<1>4. QED
  BY <1>2, <1>3

LEMMA RegroupCells ==
  \A x, y, z \in Seq(Int) : (x \o y) \o z = x \o (y \o z)
<1>1. TAKE x, y, z \in Seq(Int)
<1>2. x \in Seq(Int) /\ y \in Seq(Int) /\ z \in Seq(Int)
  OBVIOUS
<1>3. QED
  BY <1>2, ConcatAssociative, SMTT(40)

LEMMA StreamTyped ==
  ASSUME BufferInv
  PROVE  Coming \in Seq(Int) /\ Len(Coming) >= Len(m_vecBuffer)
         /\ \A x \in 1..Len(m_vecBuffer) : Coming[x] = m_vecBuffer[x]
<1>1. m_vecBuffer \in Seq(Int) /\ chunk \in Seq(Int) /\ wire \in Seq(Int)
  BY DEF BufferInv
<1> DEFINE b == m_vecBuffer \o chunk
           w == b \o wire
           k == Len(m_vecBuffer)
<1>2. /\ b \in Seq(Int) /\ Len(b) = Len(m_vecBuffer) + Len(chunk)
      /\ \A x \in 1..(Len(m_vecBuffer) + Len(chunk)) :
           b[x] = IF x <= Len(m_vecBuffer) THEN m_vecBuffer[x]
                                           ELSE chunk[x - Len(m_vecBuffer)]
  BY <1>1, ConcatProperties
<1> HIDE DEF b
<1>3. /\ w \in Seq(Int) /\ Len(w) = Len(b) + Len(wire)
      /\ \A x \in 1..(Len(b) + Len(wire)) :
           w[x] = IF x <= Len(b) THEN b[x] ELSE wire[x - Len(b)]
  <2>1. b \in Seq(Int) /\ wire \in Seq(Int)
    BY <1>1, <1>2
  <2> HIDE DEF w
  <2>2. w = b \o wire
    BY DEF w
  <2>3. QED
    BY <2>1, <2>2, ConcatProperties
<1>4. Len(chunk) \in Nat /\ Len(wire) \in Nat /\ Len(m_vecBuffer) \in Nat
  BY <1>1
<1> HIDE DEF w
<1>5. Len(w) >= Len(m_vecBuffer)
  BY <1>2, <1>3, <1>4
<1>6. ASSUME NEW x \in 1..Len(m_vecBuffer)
      PROVE  w[x] = m_vecBuffer[x]
  <2>1. /\ x \in 1..(Len(m_vecBuffer) + Len(chunk)) /\ x <= Len(m_vecBuffer)
    BY <1>4
  <2>2. x <= Len(b) /\ x \in 1..(Len(b) + Len(wire))
    BY <1>2, <1>4
  <2>3. b[x] = m_vecBuffer[x]
    BY <1>2, <2>1
  <2>4. w[x] = b[x]
    BY <1>3, <2>2
  <2>5. QED
    BY <2>3, <2>4
<1>7. QED
  BY <1>3, <1>5, <1>6 DEF Coming, w, b

\* A step that leaves the stream and what was taken alone.
LEMMA StreamStays ==
  ASSUME StreamInv, gap => gap',
         ~gap' => Coming' = Coming /\ Taken' = Taken,
         scans' = scans, noises' = noises, NothingPassed => NothingPassed'
  PROVE  StreamInv'
<1>1. CASE gap'
  BY <1>1 DEF StreamInv
<1>2. CASE ~gap'
  <2>1. Coming' = Coming /\ Taken' = Taken /\ ~gap
    BY <1>2
  <2>2. ScansAhead(Coming, Taken, scans)'
    BY <2>1 DEF StreamInv, ScansAhead, Windows
  <2>3. StartsAreWhole(Coming)'
    BY <2>1 DEF StreamInv, StartsAreWhole
  <2>4. noises' = 0 => OnlyScans(Coming, Taken, scans)' /\ NothingPassed'
    <3> SUFFICES ASSUME noises' = 0
                 PROVE  OnlyScans(Coming, Taken, scans)' /\ NothingPassed'
      OBVIOUS
    <3>1. OnlyScans(Coming, Taken, scans) /\ NothingPassed
      BY <2>1 DEF StreamInv
    <3>2. QED
      BY <2>1, <3>1 DEF OnlyScans
  <2>5. QED
    BY <2>2, <2>3, <2>4 DEF StreamInv
<1>3. QED
  BY <1>1, <1>2

\* The cells move between the tty, the reader and the buffer.
LEMMA CellsMove ==
  ASSUME ScanInv, ReadSome \/ ReadError \/ Insert
  PROVE  ~gap' => Coming' = Coming
<1>1. m_vecBuffer \in Seq(Int) /\ chunk \in Seq(Int) /\ wire \in Seq(Int)
  BY DEF ScanInv, BufferInv
<1>2. reader # "append" => chunk = <<>>
  BY DEF ScanInv, HandsOK
<1>3. CASE ReadSome
  <2>1. PICK n \in 1..BufferSize :
          /\ n <= Len(wire) /\ chunk' = SubSeq(wire, 1, n)
          /\ wire' = SubSeq(wire, n + 1, Len(wire))
    BY <1>3 DEF ReadSome
  <2>2. m_vecBuffer' = m_vecBuffer /\ chunk = <<>>
    BY <1>2, <1>3 DEF ReadSome
  <2>3. n \in Nat
    BY DriverAssumption
  <2>4. chunk' \o wire' = wire
    BY <1>1, <2>1, <2>3, CutCells
  <2>5. chunk' \in Seq(Int) /\ wire' \in Seq(Int)
    BY <1>1, <2>1, <2>3, SMTT(40)
  <2>6. (m_vecBuffer' \o chunk') \o wire' = m_vecBuffer \o wire
    <3>1. (m_vecBuffer \o chunk') \o wire' = m_vecBuffer \o (chunk' \o wire')
      BY <1>1, <2>5, RegroupCells, ZenonT(60)
    <3>2. QED
      BY <2>2, <2>4, <3>1
  <2>7. m_vecBuffer \o <<>> = m_vecBuffer
    BY <1>1, ConcatEmptySeq
  <2>8. QED
    BY <2>2, <2>6, <2>7 DEF Coming
<1>4. CASE ReadError
  BY <1>4 DEF ReadError, readerVars, Coming
<1>5. CASE Insert
  <2>1. CASE HasRoom(m_vecBuffer)
    <3>1. m_vecBuffer' = m_vecBuffer \o chunk /\ chunk' = <<>> /\ wire' = wire
      BY <1>5, <2>1 DEF Insert, lidarVars
    <3>2. (m_vecBuffer \o chunk) \o <<>> = m_vecBuffer \o chunk
      BY <1>1, ConcatProperties, ConcatEmptySeq
    <3>3. QED
      BY <3>1, <3>2 DEF Coming
  <2>2. CASE ~HasRoom(m_vecBuffer)
    BY <1>5, <2>2 DEF Insert
  <2>3. QED
    BY <2>1, <2>2
<1>6. QED
  BY <1>3, <1>4, <1>5

LEMMA ReaderKeepsScans ==
  ASSUME ScanInv, ReaderNext
  PROVE  HandsOK' /\ StreamInv'
<1> USE DEF lidarVars, flagVars, readerVars, senderVars, userVars
<1>1. UNCHANGED <<pub, noises, scans, sender, i, temp>> /\ (gap => gap')
  <2>1. UNCHANGED <<pub, noises, scans, sender, i, temp>>
    BY DEF ReaderNext, ReadLidarData, Command, ReadTop, ReadSome, ReadNothing,
           ReadError, Insert, Restart
  <2>2. gap => gap'
    <3>1. CASE ReadError \/ Insert
      BY <3>1 DEF ReadError, Insert
    <3>2. CASE ReadLidarData \/ ReadTop \/ ReadSome \/ ReadNothing \/ Restart
      BY <3>2 DEF ReadLidarData, Command, ReadTop, ReadSome, ReadNothing, Restart
    <3>3. QED
      BY <3>1, <3>2 DEF ReaderNext
  <2>3. QED
    BY <2>1, <2>2
<1>2. reader' # "append" => chunk' = <<>>
  BY DEF ScanInv, HandsOK, ReaderNext, ReadLidarData, Command, ReadTop, ReadSome,
         ReadNothing, ReadError, Insert, Restart
<1>3. HandsOK'
  BY <1>1, <1>2 DEF ScanInv, HandsOK
<1>4. Taken' = Taken
  BY <1>1 DEF Taken
<1>5. ~gap' => Coming' = Coming
  <2>1. CASE ReadSome \/ ReadError \/ Insert
    BY <2>1, CellsMove
  <2>2. CASE ReadLidarData \/ ReadTop \/ ReadNothing \/ Restart
    BY <2>2 DEF ReadLidarData, Command, ReadTop, ReadNothing, Restart, Coming
  <2>3. QED
    BY <2>1, <2>2 DEF ReaderNext
<1>6. NothingPassed => NothingPassed'
  <2>1. m_vecBuffer' = m_vecBuffer \/ sender # "parse"
    BY DEF ReaderNext, ReadLidarData, Command, ReadTop, ReadSome, ReadNothing,
           ReadError, Insert, Restart, MutexFree
  <2>2. QED
    BY <1>1, <2>1 DEF NothingPassed
<1>7. QED
  BY <1>1, <1>3, <1>4, <1>5, <1>6, StreamStays DEF ScanInv

LEMMA UserKeepsScans ==
  ASSUME ScanInv, UserNext \/ UNCHANGED driverVars
  PROVE  HandsOK' /\ StreamInv'
<1>1. /\ UNCHANGED <<pub, noises, scans, sender, i, temp, gap, chunk, wire,
                     m_vecBuffer>>
      /\ (reader' = reader)
  BY DEF UserNext, InitialEvClient, Start, SetScanFlag, Stop, StopScan, Destroy,
         lidarVars, flagVars, readerVars, senderVars, userVars, driverVars
<1>2. HandsOK'
  BY <1>1 DEF ScanInv, HandsOK
<1>3. Taken' = Taken /\ Coming' = Coming /\ (NothingPassed => NothingPassed')
  BY <1>1 DEF Taken, Coming, NothingPassed
<1>4. QED
  BY <1>1, <1>2, <1>3, StreamStays DEF ScanInv

LEMMA LidarKeepsScans ==
  ASSUME NoiseIsNoScan, ScanInv, LidarNext
  PROVE  HandsOK' /\ StreamInv'
<1> USE DEF lidarVars, flagVars, readerVars, senderVars, userVars
<1>1. /\ UNCHANGED <<pub, sender, i, temp, gap, chunk, reader, m_vecBuffer>>
      /\ \/ LidarScan /\ noises' = noises
         \/ \E c \in Noise : LidarNoise(c)
  BY DEF LidarNext, LidarScan, LidarNoise
<1>2. noises \in Nat /\ scans \in Nat /\ Coming \in Seq(Int)
  BY StreamTyped DEF ScanInv, HandsOK, BufferInv
<1>3. /\ m_vecBuffer \in Seq(Int) /\ chunk \in Seq(Int) /\ wire \in Seq(Int)
      /\ m_vecBuffer \o chunk \in Seq(Int)
  BY ConcatProperties DEF ScanInv, BufferInv
<1>4. Taken' = Taken /\ (NothingPassed => NothingPassed')
  BY <1>1 DEF Taken, NothingPassed
<1>5. ASSUME LidarScan, noises' = noises
      PROVE  HandsOK' /\ StreamInv'
  <2>1. scans' = scans + 1 /\ wire' = wire \o Scan(scans + 1)
    BY <1>5 DEF LidarScan
  <2>2. Scan(scans + 1) \in Seq(Int)
    BY <1>2 DEF Scan, StartAck, EndAck
  <2>3. Coming' = Coming \o Scan(scans + 1)
    <3>1. /\ (m_vecBuffer \o chunk) \o (wire \o Scan(scans + 1))
             = ((m_vecBuffer \o chunk) \o wire) \o Scan(scans + 1)
      BY <1>3, <2>2, RegroupCells
    <3>2. Coming' = (m_vecBuffer \o chunk) \o wire'
      BY <1>1 DEF Coming
    <3>3. QED
      BY <2>1, <3>1, <3>2 DEF Coming
  <2>4. HandsOK'
    BY <1>1, <1>5 DEF ScanInv, HandsOK
  <2>5. StreamInv'
    <3> SUFFICES ASSUME ~gap'
                 PROVE  /\ ScansAhead(Coming, Taken, scans)'
                        /\ StartsAreWhole(Coming)'
                        /\ noises' = 0 => /\ OnlyScans(Coming, Taken, scans)'
                                          /\ NothingPassed'
      BY DEF StreamInv
    <3>1. ScansAhead(Coming, Taken, scans) /\ StartsAreWhole(Coming)
      BY <1>1 DEF ScanInv, StreamInv
    <3>2. /\ ScansAhead(Coming \o Scan(scans + 1), Taken, scans + 1)
          /\ StartsAreWhole(Coming \o Scan(scans + 1))
      BY <1>2, <3>1, ScanSent
    <3>3. ScansAhead(Coming, Taken, scans)' /\ StartsAreWhole(Coming)'
      BY <1>4, <2>1, <2>3, <3>2 DEF ScansAhead, StartsAreWhole, Windows
    <3>4. ASSUME noises' = 0
          PROVE  OnlyScans(Coming, Taken, scans)' /\ NothingPassed'
      <4>1. OnlyScans(Coming, Taken, scans) /\ NothingPassed
        BY <1>1, <1>5, <3>4 DEF ScanInv, StreamInv
      <4>2. Taken \in Seq(Int)
        BY AppendProperties DEF Taken, ScanInv, HandsOK
      <4>3. OnlyScans(Coming \o Scan(scans + 1), Taken, scans + 1)
        BY <1>2, <4>1, <4>2, OneMoreScan
      <4>4. QED
        BY <1>4, <2>1, <2>3, <4>1, <4>3 DEF OnlyScans
    <3>5. QED
      BY <3>3, <3>4
  <2>6. QED
    BY <2>4, <2>5
<1>6. ASSUME NEW c \in Noise, LidarNoise(c)
      PROVE  HandsOK' /\ StreamInv'
  <2>1. scans' = scans /\ wire' = Append(wire, c) /\ noises' = noises + 1
    BY <1>6 DEF LidarNoise
  <2>2. c \in Int /\ <<c>> \in Seq(Int)
    BY DriverAssumption
  <2>3. Coming' = Append(Coming, c)
    <3>1. wire' = wire \o <<c>> /\ Append(Coming, c) = Coming \o <<c>>
      BY <1>2, <1>3, <2>1, <2>2, AppendIsConcat
    <3>2. QED
      BY <1>1, <1>3, <2>2, <3>1, RegroupCells DEF Coming
  <2>4. noises' \in Nat /\ noises' # 0
    BY <1>2, <2>1
  <2>5. HandsOK'
    BY <1>1, <2>4 DEF ScanInv, HandsOK
  <2>6. StreamInv'
    <3> SUFFICES ASSUME ~gap'
                 PROVE  ScansAhead(Coming, Taken, scans)' /\ StartsAreWhole(Coming)'
      BY <2>4 DEF StreamInv
    <3>1. ScansAhead(Coming, Taken, scans) /\ StartsAreWhole(Coming)
      BY <1>1 DEF ScanInv, StreamInv
    <3>2. /\ ScansAhead(Append(Coming, c), Taken, scans)
          /\ StartsAreWhole(Append(Coming, c))
      BY <1>2, <2>2, <3>1, NoiseSent
    <3>3. QED
      BY <1>4, <2>1, <2>3, <3>2 DEF ScansAhead, StartsAreWhole, Windows
  <2>7. QED
    BY <2>5, <2>6
<1>7. QED
  BY <1>1, <1>5, <1>6

LEMMA SendKeepsScans ==
  ASSUME ScanInv, SendTop \/ ParseEnds \/ Publish
  PROVE  HandsOK' /\ StreamInv'
<1> USE DEF lidarVars, flagVars, readerVars, senderVars, userVars
<1>1. /\ UNCHANGED <<noises, scans, reader, chunk, wire, m_vecBuffer>>
  BY DEF SendTop, ParseEnds, Publish
<1>2. Coming' = Coming
  BY <1>1 DEF Coming
<1>3. i' = 0
  BY DEF SendTop, ParseEnds, Publish, ScanInv, HandsOK
<1>4. NothingPassed'
  BY <1>3 DEF NothingPassed
<1>5. CASE SendTop \/ ParseEnds
  <2>1. /\ UNCHANGED <<pub, temp, gap>> /\ sender # "publish" /\ sender' # "publish"
    BY <1>5 DEF SendTop, ParseEnds
  <2>2. HandsOK'
    BY <1>1, <1>3, <2>1 DEF ScanInv, HandsOK
  <2>3. Taken' = Taken
    BY <2>1 DEF Taken
  <2>4. QED
    BY <1>1, <1>2, <1>4, <2>1, <2>2, <2>3, StreamStays DEF ScanInv
<1>6. CASE Publish
  <2>1. sender = "publish" /\ sender' = "top" /\ (gap => gap')
    BY <1>6 DEF Publish
  <2>2. /\ pub' = pub \/ pub' = Append(pub, temp[2])
        /\ ~gap' => pub' = Append(pub, temp[2])
    BY <1>6 DEF Publish
  <2>3. pub \in Seq(Int) /\ temp[2] \in Int
    BY <2>1 DEF ScanInv, HandsOK
  <2>4. pub' \in Seq(Int)
    <3>1. Append(pub, temp[2]) \in Seq(Int)
      BY <2>3, AppendProperties
    <3>2. QED
      BY <2>2, <2>3, <3>1, Zenon
  <2>5. HandsOK'
    BY <1>1, <1>3, <2>1, <2>4 DEF ScanInv, HandsOK
  <2>6. ~gap' => Taken' = Taken
    BY <2>1, <2>2 DEF Taken
  <2>7. QED
    BY <1>1, <1>2, <1>4, <2>1, <2>5, <2>6, StreamStays DEF ScanInv
<1>7. QED
  BY <1>5, <1>6

\* What is erased from the buffer is erased from the stream.
LEMMA StreamErased ==
  ASSUME BufferInv, NEW d \in 0..Len(m_vecBuffer), UNCHANGED <<chunk, wire>>,
         m_vecBuffer' = SubSeq(m_vecBuffer, d + 1, Len(m_vecBuffer))
  PROVE  Coming' = SubSeq(Coming, d + 1, Len(Coming))
<1> DEFINE k == Len(m_vecBuffer)
           b == SubSeq(m_vecBuffer, d + 1, k)
           rest == chunk \o wire
<1>1. m_vecBuffer \in Seq(Int) /\ chunk \in Seq(Int) /\ wire \in Seq(Int)
  BY DEF BufferInv
<1>2. rest \in Seq(Int) /\ k \in Nat /\ Len(rest) \in Nat
  BY <1>1, ConcatProperties
<1>3. /\ b \in Seq(Int) /\ Len(b) = k - d
      /\ \A x \in 1..(k - d) : b[x] = m_vecBuffer[x + d]
  BY <1>1, RestOfCells
<1>4. Coming = m_vecBuffer \o rest /\ Coming' = b \o rest
  <2>1. Coming = m_vecBuffer \o rest
    BY <1>1, RegroupCells DEF Coming
  <2>2. b \in Seq(Int)
    BY <1>3
  <2> HIDE DEF b
  <2>3. (b \o chunk) \o wire = b \o (chunk \o wire)
    BY <1>1, <2>2, RegroupCells
  <2>4. m_vecBuffer' = b
    BY DEF b
  <2>5. QED
    BY <2>1, <2>3, <2>4 DEF Coming
<1> HIDE DEF rest, b, k
<1>5. /\ Coming \in Seq(Int) /\ Len(Coming) = k + Len(rest)
      /\ \A x \in 1..(k + Len(rest)) :
           Coming[x] = IF x <= k THEN m_vecBuffer[x] ELSE rest[x - k]
  BY <1>1, <1>2, <1>4, ConcatProperties DEF k
<1>6. /\ Coming' \in Seq(Int) /\ Len(Coming') = Len(b) + Len(rest)
      /\ \A x \in 1..(Len(b) + Len(rest)) :
           Coming'[x] = IF x <= Len(b) THEN b[x] ELSE rest[x - Len(b)]
  BY <1>2, <1>3, <1>4, ConcatProperties
<1>7. d \in 0..k /\ d \in 0..Len(Coming)
  BY <1>2, <1>5 DEF k
<1> DEFINE c == SubSeq(Coming, d + 1, Len(Coming))
<1>8. /\ c \in Seq(Int) /\ Len(c) = Len(Coming) - d
      /\ \A x \in 1..(Len(Coming) - d) : c[x] = Coming[x + d]
  BY <1>5, <1>7, RestOfCells
<1> HIDE DEF c
<1>9. Len(Coming') = (k + Len(rest)) - d /\ Len(c) = (k + Len(rest)) - d
  BY <1>2, <1>3, <1>5, <1>6, <1>7, <1>8
<1>10. ASSUME NEW x \in 1..((k + Len(rest)) - d)
       PROVE  Coming'[x] = c[x]
  <2>1. /\ x \in 1..(Len(b) + Len(rest)) /\ x \in 1..(Len(Coming) - d)
        /\ x + d \in 1..(k + Len(rest))
    BY <1>2, <1>3, <1>5, <1>7
  <2>2. c[x] = Coming[x + d]
    BY <1>8, <2>1
  <2>3. CASE x <= k - d
    <3>1. x + d <= k /\ x \in 1..(k - d)
      BY <1>2, <1>7, <2>3
    <3>2. Coming'[x] = b[x]
      BY <1>3, <1>6, <2>1, <2>3
    <3>3. Coming[x + d] = m_vecBuffer[x + d]
      BY <1>5, <2>1, <3>1
    <3>4. QED
      BY <1>3, <2>2, <3>1, <3>2, <3>3
  <2>4. CASE ~(x <= k - d)
    <3>1. ~(x + d <= k) /\ (x + d) - k = x - (k - d)
      BY <1>2, <1>7, <2>4
    <3>2. Coming'[x] = rest[x - (k - d)]
      BY <1>3, <1>6, <2>1, <2>4
    <3>3. Coming[x + d] = rest[(x + d) - k]
      BY <1>5, <2>1, <3>1
    <3>4. QED
      BY <2>2, <3>1, <3>2, <3>3
  <2>5. QED
    BY <2>3, <2>4
<1>11. Coming' = c
  BY <1>5, <1>6, <1>8, <1>9, <1>10, SeqEqual
<1>12. QED
  BY <1>11 DEF c

\* What the loop finds, as it looks in the stream.
LEMMA ParseLooks ==
  ASSUME ScanInv, Parse,
         NEW j, j = Least(Starts),
         NEW rest, rest = SubSeq(m_vecBuffer, j + 1, Len(m_vecBuffer)),
         NEW scan, scan = SubSeq(rest, 1, NeedRead)
  PROVE  /\ j \in Starts /\ j \in Nat /\ j >= i /\ j < Len(m_vecBuffer)
         /\ \A k \in Starts : j <= k
         /\ Coming[j + 1] = StartAck
         /\ rest \in Seq(Int) /\ Len(rest) = Len(m_vecBuffer) - j
         /\ Len(rest) >= NeedRead =>
              /\ j + 3 <= Len(m_vecBuffer) /\ scan \in Seq(Int)
              /\ scan[1] = StartAck /\ scan[2] = Coming[j + 2]
              /\ scan[3] = Coming[j + 3]
              /\ EraseScan(rest)
                   = SubSeq(m_vecBuffer, (j + 3) + 1, Len(m_vecBuffer))
<1>1. m_vecBuffer \in Seq(Int) /\ i \in Nat
  BY DEF ScanInv, BufferInv
<1>2. Starts \in SUBSET Nat /\ Starts # {}
  BY <1>1 DEF Parse, Starts
<1>3. j \in Starts /\ \A k \in Starts : j <= k
  BY <1>2, LeastIsIn
<1>4. /\ j \in i..(Len(m_vecBuffer) - 1) /\ m_vecBuffer[j + 1] = StartAck
  BY <1>3 DEF Starts
<1>5. /\ j \in Nat /\ j >= i /\ j < Len(m_vecBuffer) /\ j \in 0..Len(m_vecBuffer)
      /\ j + 1 \in 1..Len(m_vecBuffer)
  BY <1>1, <1>4, SMTT(40)
<1>6. \A x \in 1..Len(m_vecBuffer) : Coming[x] = m_vecBuffer[x]
  BY StreamTyped DEF ScanInv
<1>7. Coming[j + 1] = StartAck
  BY <1>4, <1>5, <1>6
<1>8. /\ rest \in Seq(Int) /\ Len(rest) = Len(m_vecBuffer) - j
      /\ \A x \in 1..(Len(m_vecBuffer) - j) : rest[x] = m_vecBuffer[x + j]
  BY <1>1, <1>5, RestOfCells
<1>9. ASSUME Len(rest) >= NeedRead
      PROVE  /\ j + 3 <= Len(m_vecBuffer) /\ scan \in Seq(Int)
             /\ scan[1] = StartAck /\ scan[2] = Coming[j + 2]
             /\ scan[3] = Coming[j + 3]
             /\ EraseScan(rest)
                  = SubSeq(m_vecBuffer, (j + 3) + 1, Len(m_vecBuffer))
  <2>1. /\ Len(rest) >= 3 /\ j + 3 <= Len(m_vecBuffer)
        /\ Len(m_vecBuffer) \in Nat /\ Len(rest) \in Nat
    <3>1. Len(m_vecBuffer) \in Nat /\ Len(rest) \in Nat
      BY <1>1, <1>8
    <3>2. Len(rest) >= 3
      BY <1>9 DEF NeedRead
    <3>3. j \in Nat /\ Len(rest) = Len(m_vecBuffer) - j
      BY <1>5, <1>8
    <3>4. QED
      BY <3>1, <3>2, <3>3
  <2>2. /\ scan \in Seq(Int) /\ Len(scan) = 3
        /\ \A x \in 1..3 : scan[x] = rest[x]
    <3>1. /\ SubSeq(rest, 1, 3) \in Seq(Int) /\ Len(SubSeq(rest, 1, 3)) = 3
          /\ \A x \in 1..3 : SubSeq(rest, 1, 3)[x] = rest[x]
      BY <1>8, <2>1, SMTT(40)
    <3>3. QED
      BY <3>1 DEF NeedRead
  <2>3. \A x \in 1..3 : /\ x \in 1..(Len(m_vecBuffer) - j)
                        /\ x + j \in 1..Len(m_vecBuffer) /\ x + j = j + x
    BY <1>5, <2>1, SMTT(40)
  <2>4. \A x \in 1..3 : scan[x] = Coming[j + x]
    <3> SUFFICES ASSUME NEW x \in 1..3 PROVE scan[x] = Coming[j + x]
      OBVIOUS
    <3>1. scan[x] = rest[x]
      BY <2>2
    <3>2. rest[x] = m_vecBuffer[x + j]
      BY <1>8, <2>3
    <3>3. Coming[x + j] = m_vecBuffer[x + j]
      BY <1>6, <2>3
    <3>4. x + j = j + x
      BY <2>3
    <3>5. QED
      BY <3>1, <3>2, <3>3, <3>4
  <2>5. scan[1] = StartAck /\ scan[2] = Coming[j + 2] /\ scan[3] = Coming[j + 3]
    <3>1. 1 \in 1..3 /\ 2 \in 1..3 /\ 3 \in 1..3
      OBVIOUS
    <3>2. scan[1] = Coming[j + 1] /\ scan[2] = Coming[j + 2] /\ scan[3] = Coming[j + 3]
      BY <2>4, <3>1
    <3>3. QED
      BY <1>7, <3>2
  <2>6. EraseScan(rest) = SubSeq(m_vecBuffer, (j + 3) + 1, Len(m_vecBuffer))
    <3> DEFINE a == SubSeq(rest, 3 + 1, Len(rest))
               b == SubSeq(m_vecBuffer, (j + 3) + 1, Len(m_vecBuffer))
    <3>1. 3 \in 0..Len(rest) /\ j + 3 \in 0..Len(m_vecBuffer)
      BY <1>5, <2>1
    <3>2. /\ a \in Seq(Int) /\ Len(a) = Len(rest) - 3
          /\ \A x \in 1..(Len(rest) - 3) : a[x] = rest[x + 3]
      BY <1>8, <3>1, RestOfCells
    <3>3. /\ b \in Seq(Int) /\ Len(b) = Len(m_vecBuffer) - (j + 3)
          /\ \A x \in 1..(Len(m_vecBuffer) - (j + 3)) :
               b[x] = m_vecBuffer[x + (j + 3)]
      BY <1>1, <3>1, RestOfCells
    <3> HIDE DEF a, b
    <3>4. Len(a) = Len(b)
      BY <1>5, <1>8, <2>1, <3>2, <3>3
    <3>5. ASSUME NEW x \in 1..Len(a)
          PROVE  a[x] = b[x]
      <4>1. /\ x \in 1..(Len(rest) - 3) /\ x + 3 \in 1..(Len(m_vecBuffer) - j)
            /\ x \in 1..(Len(m_vecBuffer) - (j + 3))
            /\ (x + 3) + j = x + (j + 3)
        <5>1. /\ Len(rest) = Len(m_vecBuffer) - j /\ Len(a) = Len(rest) - 3
              /\ j \in Nat /\ Len(m_vecBuffer) \in Nat /\ Len(rest) \in Nat
          BY <1>5, <1>8, <2>1, <3>2
        <5>2. x \in 1..Len(a)
          OBVIOUS
        <5>3. \A m, k, y \in Int : y \in 1..((m - k) - 3) =>
                /\ y + 3 \in 1..(m - k) /\ y \in 1..(m - (k + 3))
                /\ (y + 3) + k = y + (k + 3)
          OBVIOUS
        <5>4. x \in Int /\ x \in 1..((Len(m_vecBuffer) - j) - 3)
          BY <5>1, <5>2
        <5>5. x \in 1..(Len(rest) - 3)
          BY <5>1, <5>2
        <5>6. QED
          <6>1. j \in Int /\ Len(m_vecBuffer) \in Int
            BY <5>1
          <6>2. /\ x + 3 \in 1..(Len(m_vecBuffer) - j)
                /\ x \in 1..(Len(m_vecBuffer) - (j + 3))
                /\ (x + 3) + j = x + (j + 3)
            BY <5>3, <5>4, <6>1, ZenonT(40)
          <6>3. QED
            BY <5>5, <6>2
      <4>2. a[x] = rest[x + 3] /\ rest[x + 3] = m_vecBuffer[(x + 3) + j]
        BY <1>8, <3>2, <4>1
      <4>3. b[x] = m_vecBuffer[x + (j + 3)]
        BY <3>3, <4>1
      <4>4. QED
        BY <4>1, <4>2, <4>3
    <3>6. a = b
      BY <3>2, <3>3, <3>4, <3>5, SeqEqual
    <3>7. QED
      BY <3>6 DEF a, b, EraseScan, NeedRead
  <2>7. QED
    BY <2>1, <2>2, <2>5, <2>6
<1>10. QED
  BY <1>3, <1>5, <1>7, <1>8, <1>9

LEMMA ParseKeepsScans ==
  ASSUME ScanInv, Parse
  PROVE  HandsOK' /\ StreamInv'
<1> DEFINE j    == Least(Starts)
           rest == SubSeq(m_vecBuffer, j + 1, Len(m_vecBuffer))
           scan == SubSeq(rest, 1, NeedRead)
<1>1. /\ sender = "parse"
      /\ UNCHANGED <<pub, noises, scans, reader, chunk, wire, gap>>
      /\ IF Len(rest) >= NeedRead /\ IsValid(scan)
         THEN /\ m_vecBuffer' = EraseScan(rest) /\ temp' = scan
              /\ sender' = "publish" /\ i' = 0
         ELSE /\ m_vecBuffer' = rest
              /\ i' = j + 1 /\ temp' = temp /\ sender' = sender
  BY DEF Parse, lidarVars, flagVars, readerVars, userVars
<1>2. /\ j \in Starts /\ j \in Nat /\ j >= i /\ j < Len(m_vecBuffer)
      /\ \A k \in Starts : j <= k
      /\ Coming[j + 1] = StartAck
      /\ rest \in Seq(Int) /\ Len(rest) = Len(m_vecBuffer) - j
      /\ Len(rest) >= NeedRead =>
           /\ j + 3 <= Len(m_vecBuffer) /\ scan \in Seq(Int)
           /\ scan[1] = StartAck /\ scan[2] = Coming[j + 2]
           /\ scan[3] = Coming[j + 3]
           /\ EraseScan(rest)
                = SubSeq(m_vecBuffer, (j + 3) + 1, Len(m_vecBuffer))
  BY ParseLooks
<1>3. rest = SubSeq(m_vecBuffer, j + 1, Len(m_vecBuffer))
  OBVIOUS
<1> HIDE DEF j, rest, scan
<1>4. /\ BufferInv /\ pub \in Seq(Int) /\ scans \in Nat /\ noises \in Nat
      /\ m_vecBuffer \in Seq(Int) /\ Len(m_vecBuffer) \in Nat /\ i \in Nat
      /\ chunk' = chunk /\ reader' = reader /\ (reader # "append" => chunk = <<>>)
  BY <1>1 DEF ScanInv, HandsOK, BufferInv
<1>5. /\ Coming \in Seq(Int) /\ Len(Coming) >= Len(m_vecBuffer)
      /\ \A x \in 1..Len(m_vecBuffer) : Coming[x] = m_vecBuffer[x]
      /\ Len(Coming) \in Nat
  BY <1>4, StreamTyped
<1>6. Taken = pub
  BY <1>1 DEF Taken
\* Without noise the loop is at the beginning of a scan.
<1>7. ASSUME ~gap, noises = 0
      PROVE  /\ OnlyScans(Coming, pub, scans) /\ Len(Coming) # 0
             /\ i = 0 /\ j = 0
  <2>1. OnlyScans(Coming, pub, scans) /\ NothingPassed
    BY <1>6, <1>7 DEF ScanInv, StreamInv
  <2>2. Len(m_vecBuffer) # 0 /\ Len(Coming) # 0
    BY <1>2, <1>4, <1>5
  <2>3. Coming[1] = StartAck /\ Coming[2] = Len(pub) + 1 /\ Len(pub) \in Nat
    BY <1>4, <1>5, <2>1, <2>2, NextScan
  <2>4. i = 0
    <3> SUFFICES ASSUME i # 0 PROVE FALSE
      OBVIOUS
    <3>1. Len(m_vecBuffer) < 3
      BY <1>1, <2>1 DEF NothingPassed, NeedRead
    <3>2. j = 1
      BY <1>2, <1>4, <3>1
    <3>3. Len(pub) + 1 = StartAck
      BY <1>2, <2>3, <3>2
    <3>4. QED
      BY <2>3, <3>3 DEF StartAck
  <2>5. 0 \in Starts
    <3>1. 0 \in i..(Len(m_vecBuffer) - 1) /\ 0 + 1 \in 1..Len(m_vecBuffer)
      BY <1>4, <2>2, <2>4
    <3>2. m_vecBuffer[0 + 1] = StartAck
      BY <1>5, <2>3, <3>1
    <3>3. QED
      BY <3>1, <3>2 DEF Starts
  <2>6. j = 0
    BY <1>2, <2>5
  <2>7. QED
    BY <2>1, <2>2, <2>4, <2>6
<1>8. CASE Len(rest) >= NeedRead /\ IsValid(scan)
  <2>1. /\ m_vecBuffer' = EraseScan(rest) /\ temp' = scan
        /\ sender' = "publish" /\ i' = 0
    BY <1>1, <1>8
  <2>2. /\ j + 3 <= Len(m_vecBuffer) /\ scan \in Seq(Int)
        /\ scan[1] = StartAck /\ scan[2] = Coming[j + 2] /\ scan[3] = Coming[j + 3]
        /\ EraseScan(rest) = SubSeq(m_vecBuffer, (j + 3) + 1, Len(m_vecBuffer))
    BY <1>2, <1>8
  <2>3. j + 3 \in 0..Len(m_vecBuffer)
    BY <1>2, <1>4, <2>2
  <2>4. Coming' = SubSeq(Coming, (j + 3) + 1, Len(Coming))
    <3>1. m_vecBuffer' = SubSeq(m_vecBuffer, (j + 3) + 1, Len(m_vecBuffer))
      BY <2>1, <2>2
    <3>2. UNCHANGED <<chunk, wire>>
      BY <1>1
    <3>3. QED
      BY <1>4, <2>3, <3>1, <3>2, StreamErased
  <2>5. j + 1 \in Windows(Coming)
    <3>1. j + 1 \in 1..(Len(Coming) - 2) /\ (j + 1) + 2 = j + 3
      BY <1>2, <1>4, <1>5, <2>2
    <3>2. scan[3] = EndAck
      BY <1>8 DEF IsValid
    <3>3. QED
      BY <1>2, <2>2, <3>1, <3>2 DEF Windows
  <2>6. (j + 1) + 1 = j + 2 /\ (j + 1) + 2 = j + 3
    BY <1>2
  <2>7. Coming[j + 2] \in Int
    <3> HIDE DEF Coming
    <3>0. j \in Nat /\ Len(Coming) \in Nat /\ j + 3 <= Len(Coming)
      BY <1>2, <1>4, <1>5, <2>2
    <3>1. j + 2 \in 1..Len(Coming)
      BY <3>0
    <3>2. QED
      BY <1>5, <3>1, ElementOfSeq
  <2>8. temp'[2] = Coming[j + 2] /\ Taken' = Append(pub, Coming[j + 2])
    BY <1>1, <2>1, <2>2 DEF Taken
  <2>9. HandsOK'
    BY <1>1, <1>4, <2>1, <2>7, <2>8 DEF HandsOK
  <2>10. StreamInv'
    <3> SUFFICES ASSUME ~gap'
                 PROVE  /\ ScansAhead(Coming, Taken, scans)'
                        /\ StartsAreWhole(Coming)'
                        /\ noises' = 0 => /\ OnlyScans(Coming, Taken, scans)'
                                          /\ NothingPassed'
      BY DEF StreamInv
    <3>1. ~gap /\ ScansAhead(Coming, pub, scans) /\ StartsAreWhole(Coming)
      BY <1>1, <1>6 DEF ScanInv, StreamInv
    <3>2. /\ ScansAhead(SubSeq(Coming, ((j + 1) + 2) + 1, Len(Coming)),
                        Append(pub, Coming[(j + 1) + 1]), scans)
          /\ StartsAreWhole(SubSeq(Coming, ((j + 1) + 2) + 1, Len(Coming)))
      BY <1>4, <1>5, <2>5, <3>1, ScanTaken
    <3>3. /\ ScansAhead(SubSeq(Coming, (j + 3) + 1, Len(Coming)),
                        Append(pub, Coming[j + 2]), scans)
          /\ StartsAreWhole(SubSeq(Coming, (j + 3) + 1, Len(Coming)))
      BY <2>6, <3>2
    <3>4. ScansAhead(Coming, Taken, scans)' /\ StartsAreWhole(Coming)'
      BY <1>1, <2>4, <2>8, <3>3 DEF ScansAhead, StartsAreWhole, Windows
    <3>5. ASSUME noises' = 0
          PROVE  OnlyScans(Coming, Taken, scans)' /\ NothingPassed'
      <4>1. /\ OnlyScans(Coming, pub, scans) /\ Len(Coming) # 0 /\ j = 0
        BY <1>1, <1>7, <3>1, <3>5
      <4>2. OnlyScans(SubSeq(Coming, 3 + 1, Len(Coming)), Append(pub, Coming[2]),
                      scans)
        BY <1>4, <1>5, <4>1, NextScan
      <4>3. j + 2 = 2 /\ (j + 3) + 1 = 3 + 1
        BY <4>1
      <4>4. OnlyScans(Coming, Taken, scans)'
        BY <1>1, <2>4, <2>8, <4>2, <4>3 DEF OnlyScans
      <4>5. QED
        BY <2>1, <4>4 DEF NothingPassed
    <3>6. QED
      BY <3>4, <3>5
  <2>11. QED
    BY <2>9, <2>10
<1>9. CASE ~(Len(rest) >= NeedRead /\ IsValid(scan))
  <2>1. m_vecBuffer' = rest /\ i' = j + 1 /\ temp' = temp /\ sender' = "parse"
    BY <1>1, <1>9
  <2>2. j \in 0..Len(m_vecBuffer)
    BY <1>2, <1>4
  <2>3. Coming' = SubSeq(Coming, j + 1, Len(Coming))
    <3>1. m_vecBuffer' = SubSeq(m_vecBuffer, j + 1, Len(m_vecBuffer))
      BY <1>3, <2>1
    <3>2. UNCHANGED <<chunk, wire>>
      BY <1>1
    <3>3. QED
      BY <1>4, <2>2, <3>1, <3>2, StreamErased
  <2>4. HandsOK'
    BY <1>1, <1>4, <2>1 DEF HandsOK
  <2>5. Taken' = pub
    BY <1>1, <2>1 DEF Taken
  <2>6. StreamInv'
    <3> SUFFICES ASSUME ~gap'
                 PROVE  /\ ScansAhead(Coming, Taken, scans)'
                        /\ StartsAreWhole(Coming)'
                        /\ noises' = 0 => /\ OnlyScans(Coming, Taken, scans)'
                                          /\ NothingPassed'
      BY DEF StreamInv
    <3>1. ~gap /\ ScansAhead(Coming, pub, scans) /\ StartsAreWhole(Coming)
      BY <1>1, <1>6 DEF ScanInv, StreamInv
    <3>2. j \in 0..Len(Coming)
      BY <1>5, <2>2
    <3>3. /\ ScansAhead(SubSeq(Coming, j + 1, Len(Coming)), pub, scans)
          /\ StartsAreWhole(SubSeq(Coming, j + 1, Len(Coming)))
      BY <1>5, <3>1, <3>2, FrontErased
    <3>4. ScansAhead(Coming, Taken, scans)' /\ StartsAreWhole(Coming)'
      BY <1>1, <2>3, <2>5, <3>3 DEF ScansAhead, StartsAreWhole, Windows
    <3>5. ASSUME noises' = 0
          PROVE  OnlyScans(Coming, Taken, scans)' /\ NothingPassed'
      <4>1. /\ OnlyScans(Coming, pub, scans) /\ Len(Coming) # 0 /\ j = 0
        BY <1>1, <1>7, <3>1, <3>5
      <4>2. Coming' = Coming
        <5>1. SubSeq(Coming, 1, Len(Coming)) = Coming
          BY <1>5, SubSeqFull
        <5>2. j + 1 = 1
          BY <4>1
        <5>3. QED
          BY <2>3, <5>1, <5>2
      <4>3. OnlyScans(Coming, Taken, scans)'
        BY <1>1, <2>5, <4>1, <4>2 DEF OnlyScans
      <4>4. ~(Len(rest) >= NeedRead)
        <5> SUFFICES ASSUME Len(rest) >= NeedRead PROVE FALSE
          OBVIOUS
        <5>1. /\ Len(Coming) >= 3 /\ Coming[3] = EndAck
          BY <1>4, <1>5, <4>1, NextScan
        <5>2. scan[1] = StartAck /\ scan[3] = Coming[j + 3] /\ j + 3 = 3
          BY <1>2, <4>1
        <5>3. IsValid(scan)
          BY <5>1, <5>2 DEF IsValid
        <5>4. QED
          BY <1>9, <5>3
      <4>5. Len(m_vecBuffer') < NeedRead
        BY <1>2, <1>4, <2>1, <4>4 DEF NeedRead
      <4>6. QED
        BY <4>3, <4>5 DEF NothingPassed, NeedRead
    <3>6. QED
      BY <3>4, <3>5
  <2>7. QED
    BY <2>4, <2>6
<1>10. QED
  BY <1>8, <1>9

LEMMA ScanInvStep ==
  ASSUME NoiseIsNoScan, ScanInv, [DriverNext]_driverVars
  PROVE  ScanInv'
<1>1. BufferInv'
  BY BufferInvStep DEF ScanInv
<1>2. HandsOK' /\ StreamInv'
  BY LidarKeepsScans, ReaderKeepsScans, ParseKeepsScans, SendKeepsScans,
     UserKeepsScans DEF DriverNext, SenderNext
<1>3. QED
  BY <1>1, <1>2 DEF ScanInv

(* For any number of scans, any noise that does not look like a whole one  *)
(* and pieces and buffers of any size: what SendLidarData publishes is     *)
(* what the lidar sent, each scan once and in order, and without noise     *)
(* none is left out, until something has been thrown away.                 *)
THEOREM ScansAlwaysSent ==
  ASSUME NoiseIsNoScan
  PROVE  DriverSpec => []ScansAreSent
<1>1. ScanInv => ScansAreSent
  <2> SUFFICES ASSUME ScanInv, ~gap
               PROVE  /\ \A k \in 1..Len(pub) : pub[k] \in 1..scans
                      /\ \A k, l \in 1..Len(pub) : k < l => pub[k] < pub[l]
                      /\ noises = 0 => \A k \in 1..Len(pub) : pub[k] = k
    BY DEF ScansAreSent
  <2>1. /\ \A k \in 1..Len(Taken) : Taken[k] \in 1..scans
        /\ \A k, l \in 1..Len(Taken) : k < l => Taken[k] < Taken[l]
        /\ noises = 0 => \A k \in 1..Len(Taken) : Taken[k] = k
    BY DEF ScanInv, StreamInv, ScansAhead, OnlyScans
  <2>2. \A k \in 1..Len(pub) : k \in 1..Len(Taken) /\ Taken[k] = pub[k]
    <3>1. pub \in Seq(Int) /\ (sender = "publish" => temp[2] \in Int)
      BY DEF ScanInv, HandsOK
    <3>2. CASE sender = "publish"
      <4>1. /\ Taken = Append(pub, temp[2]) /\ temp[2] \in Int
        BY <3>1, <3>2 DEF Taken
      <4>2. Len(Taken) = Len(pub) + 1 /\ \A k \in 1..Len(pub) : Taken[k] = pub[k]
        BY <3>1, <4>1, AppendProperties
      <4>3. \A k \in 1..Len(pub) : k \in 1..(Len(pub) + 1)
        BY <3>1
      <4>4. QED
        BY <4>2, <4>3
    <3>3. CASE sender # "publish"
      BY <3>3 DEF Taken
    <3>4. QED
      BY <3>2, <3>3
  <2>3. QED
    BY <2>1, <2>2
<1>2. ScanInv /\ [DriverNext]_driverVars => ScanInv'
  BY ScanInvStep
<1>3. QED
  BY <1>1, <1>2, ScanInvInit, PTL DEF DriverSpec

-----------------------------------------------------------------------------
(* SerialPort: what a call is like.                                        *)

CallType ==
  [op : {"none", "Write", "Read", "ReadPackage"},
   at : {"idle", "init", "work", "read", "deinit", "close", "clear", "done"},
   left : 0..WSize, buf : Seq(Nat), cnt : Nat, ret : Int, fd : Nat]

(* A call of Write that is done answers what it had left to write, or -1;  *)
(* only a call that has read holds cells, and ReadPackage goes on reading  *)
(* only with less than it expects.                                         *)
CallOK(c, t) ==
  /\ c \in CallType
  /\ c.op \in Calls[t] \cup {"none"}
  /\ c.op = "Write" /\ c.at = "done" => c.ret \in {c.left, -1}
  /\ c.at \in {"idle", "init", "work"} \/ c.op \in {"none", "Write"}
       => c.buf = <<>>
  /\ c.op = "Read" /\ c.at = "read" => c.buf = <<>>
  /\ c.op = "ReadPackage" /\ c.at = "read" /\ Expect # 0
       => Len(c.buf) < Expect

SerialTypeOK ==
  /\ m_fd \in 0..MaxOpen /\ fds \subseteq 1..MaxOpen
  /\ tty \in Seq(Nat) /\ sent \in Nat /\ in \in Seq(Nat)
  /\ out \in Seq(Nat) /\ line \in Seq(Nat)
  /\ call \in [Thread -> CallType]
  /\ \A t \in Thread : CallOK(call[t], t)

\* A step of thread t leaves the calls of the others alone.
LEMMA CallsOK ==
  ASSUME SerialTypeOK, NEW t \in Thread, NEW c, CallOK(c, t),
         call' = [call EXCEPT ![t] = c]
  PROVE  /\ call' \in [Thread -> CallType]
         /\ call'[t] = c
         /\ \A u \in Thread \ {t} : call'[u] = call[u]
         /\ \A u \in Thread : CallOK(call'[u], u)
<1>1. /\ call \in [Thread -> CallType] /\ c \in CallType
      /\ \A u \in Thread : CallOK(call[u], u)
  BY DEF SerialTypeOK, CallOK
<1>2. call'[t] = c /\ \A u \in Thread \ {t} : call'[u] = call[u]
  BY <1>1
<1>3. \A u \in Thread : CallOK(call'[u], u)
  BY <1>1, <1>2
<1>4. QED
  BY <1>1, <1>2, <1>3

\* The moves of a call from one place to the next.
LEMMA ReturnOK ==
  ASSUME SerialTypeOK, NEW t \in Thread, NEW ret \in Int, Return(t, ret),
         call[t].op = "Write" => ret \in {call[t].left, -1}
  PROVE  \E c : /\ CallOK(c, t) /\ call' = [call EXCEPT ![t] = c]
               /\ c.op = call[t].op /\ c.left = call[t].left
               /\ c.buf = call[t].buf /\ c.at = "done"
<1> DEFINE c == [call[t] EXCEPT !.at = "done", !.ret = ret]
<1>1. call \in [Thread -> CallType] /\ CallOK(call[t], t)
  BY DEF SerialTypeOK
<1>2. call' = [call EXCEPT ![t] = c]
  BY <1>1 DEF Return
<1>3. CallOK(c, t)
  BY <1>1 DEF CallOK, CallType
<1>4. /\ c.op = call[t].op /\ c.left = call[t].left
      /\ c.buf = call[t].buf /\ c.at = "done"
  BY <1>1 DEF CallOK, CallType
<1>5. QED
  BY <1>2, <1>3, <1>4

\* A call that fails answers -1.
LEMMA GiveUpOK ==
  ASSUME SerialTypeOK, NEW t \in Thread, Return(t, -1)
  PROVE  \E c : /\ CallOK(c, t) /\ call' = [call EXCEPT ![t] = c]
               /\ c.op = call[t].op /\ c.left = call[t].left
               /\ c.buf = call[t].buf /\ c.at = "done"
<1>1. -1 \in Int /\ (call[t].op = "Write" => -1 \in {call[t].left, -1})
  OBVIOUS
<1>2. QED
  BY <1>1, ReturnOK

LEMMA MovedOK ==
  ASSUME SerialTypeOK, NEW t \in Thread,
         NEW at \in {"work", "read", "deinit", "clear"},
         call' = [call EXCEPT ![t].at = at],
         at = "work" => call[t].at = "init",
         at = "read" => call[t].at = "work"
  PROVE  \E c : /\ CallOK(c, t) /\ call' = [call EXCEPT ![t] = c]
               /\ c.op = call[t].op /\ c.left = call[t].left
               /\ c.buf = call[t].buf /\ c.at = at
<1> DEFINE c == [call[t] EXCEPT !.at = at]
<1>1. call \in [Thread -> CallType] /\ CallOK(call[t], t)
  BY DEF SerialTypeOK
<1>2. call' = [call EXCEPT ![t] = c]
  BY <1>1
<1>3. CallOK(c, t)
  <2>1. at = "read" => call[t].buf = <<>> /\ Len(call[t].buf) = 0
    BY <1>1, EmptySeq DEF CallOK
  <2>2. Expect \in Nat
    BY SerialAssumption
  <2>3. c \in CallType /\ c.op = call[t].op /\ c.buf = call[t].buf /\ c.at = at
    BY <1>1 DEF CallOK, CallType
  <2>4. c.op \in Calls[t] \cup {"none"}
    BY <1>1, <2>3 DEF CallOK
  <2>5. c.at \in {"idle", "init", "work"} \/ c.op \in {"none", "Write"}
          => c.buf = <<>>
    BY <1>1, <2>3 DEF CallOK
  <2>6. c.at = "read" => c.buf = <<>> /\ (Expect # 0 => Len(c.buf) < Expect)
    BY <2>1, <2>2, <2>3
  <2>7. c.at # "done"
    BY <2>3
  <2> HIDE DEF c
  <2>8. QED
    BY <2>3, <2>4, <2>5, <2>6, <2>7 DEF CallOK
<1>4. /\ c.op = call[t].op /\ c.left = call[t].left
      /\ c.buf = call[t].buf /\ c.at = at
  BY <1>1 DEF CallOK, CallType
<1>5. QED
  BY <1>2, <1>3, <1>4

\* A call whose system call fails goes to DeInit as it is.
LEMMA FailOK ==
  ASSUME SerialTypeOK, NEW t \in Thread, Fail(t)
  PROVE  \E c : /\ CallOK(c, t) /\ call' = [call EXCEPT ![t] = c]
               /\ c.op = call[t].op /\ c.left = call[t].left
               /\ c.buf = call[t].buf /\ c.at = "deinit"
<1>1. call' = [call EXCEPT ![t].at = "deinit"]
  BY DEF Fail
<1>2. QED
  BY <1>1, MovedOK, ZenonT(60)

\* DeInit keeps what it is going to close.
LEMMA ClosingOK ==
  ASSUME SerialTypeOK, NEW t \in Thread,
         call' = [call EXCEPT ![t].at = "close", ![t].fd = m_fd]
  PROVE  \E c : /\ CallOK(c, t) /\ call' = [call EXCEPT ![t] = c]
               /\ c.op = call[t].op /\ c.left = call[t].left
               /\ c.buf = call[t].buf /\ c.at = "close" /\ c.fd = m_fd
<1> DEFINE c == [call[t] EXCEPT !.at = "close", !.fd = m_fd]
<1>1. call \in [Thread -> CallType] /\ CallOK(call[t], t) /\ m_fd \in Nat
  BY SerialAssumption DEF SerialTypeOK
<1>2. call' = [call EXCEPT ![t] = c]
  BY <1>1
<1>3. CallOK(c, t)
  BY <1>1 DEF CallOK, CallType
<1>4. /\ c.op = call[t].op /\ c.left = call[t].left
      /\ c.buf = call[t].buf /\ c.at = "close" /\ c.fd = m_fd
  BY <1>1 DEF CallOK, CallType
<1>5. QED
  BY <1>2, <1>3, <1>4

LEMMA IdleOK ==
  ASSUME NEW t \in Thread
  PROVE  CallOK(Idle, t)
  BY SerialAssumption DEF CallOK, CallType, Idle

LEMMA BegunOK ==
  ASSUME NEW t \in Thread, NEW op \in Calls[t], NEW at \in {"init", "work"}
  PROVE  CallOK([op |-> op, at |-> at, left |-> WSize, buf |-> <<>>,
                 cnt |-> MinCnt, ret |-> 0, fd |-> 0], t)
  BY SerialAssumption DEF CallOK, CallType

\* A part of the cells the tty holds is taken, the rest stays.
LEMMA TakeCells ==
  ASSUME NEW s \in Seq(Nat), NEW n \in Nat, n <= Len(s)
  PROVE  /\ SubSeq(s, 1, n) \in Seq(Nat) /\ Len(SubSeq(s, 1, n)) = n
         /\ SubSeq(s, n + 1, Len(s)) \in Seq(Nat)
         /\ SubSeq(s, 1, n) \o SubSeq(s, n + 1, Len(s)) = s
<1>1. SubSeq(s, 1, n) \in Seq(Nat) /\ Len(SubSeq(s, 1, n)) = n
  OBVIOUS
<1>2. SubSeq(s, n + 1, Len(s)) \in Seq(Nat)
  OBVIOUS
<1>3. SubSeq(s, 1, n) \o SubSeq(s, n + 1, Len(s)) = SubSeq(s, 1, Len(s))
  <2>1. 1 \in 1..(Len(s) + 1) /\ n \in (1 - 1)..Len(s) /\ Len(s) \in n..Len(s)
    OBVIOUS
  <2>2. QED
    BY <2>1, ConcatAdjacentSubSeq
<1>4. SubSeq(s, 1, Len(s)) = s
  BY SubSeqFull
<1>5. QED
  BY <1>1, <1>2, <1>3, <1>4

\* What Write is given, and a part of it.
LEMMA MessageType ==
  /\ Message \in Seq(Nat) /\ Len(Message) = WSize
  /\ \A n \in 1..WSize : SubSeq(Message, 1, n) \in Seq(Nat)
<1>1. WSize \in Nat
  BY SerialAssumption
<1>2. Message \in Seq(Nat) /\ Len(Message) = WSize
  BY <1>1 DEF Message
<1>3. ASSUME NEW n \in 1..WSize
      PROVE  SubSeq(Message, 1, n) \in Seq(Nat)
  BY <1>1, <1>2
<1>4. QED
  BY <1>2, <1>3

\* One round of Write's loop.
WriteDone(t, n) ==
  /\ n = call[t].left /\ Return(t, n)

WritePart(t, n) ==
  /\ n < call[t].left
  /\ call' = [call EXCEPT ![t] = [call[t] EXCEPT !.left = @ - n]]

LEMMA WriteIs ==
  ASSUME SerialTypeOK, NEW t \in Thread, Write(t)
  PROVE  /\ call[t].op = "Write" /\ call[t].at = "work"
         /\ UNCHANGED <<fdVars, inVars, line, writes, reported>>
         /\ \/ \E n \in 1..call[t].left :
                 /\ WriteDone(t, n) \/ WritePart(t, n)
                 /\ cut' = (cut \/ (out # <<>> /\ call[t].left = WSize))
                 /\ out' = SubSeq(Message, 1, n)
            \/ Fail(t) /\ UNCHANGED <<out, cut>>
<1>1. call \in [Thread -> CallType] /\ call[t].left \in Nat
  BY DEF SerialTypeOK, CallType
<1>2. ASSUME NEW n \in 1..call[t].left, ~(n = call[t].left),
             call' = [call EXCEPT ![t].left = Shortened(@, n)]
      PROVE  WritePart(t, n)
  <2>1. call' = [call EXCEPT ![t] = [call[t] EXCEPT !.left = @ - n]]
    BY <1>1, <1>2 DEF Shortened
  <2>2. n < call[t].left
    BY <1>1, <1>2
  <2>3. QED
    BY <2>1, <2>2 DEF WritePart
<1>3. CASE Good
  <2>1. PICK n \in 1..call[t].left :
            /\ cut' = (cut \/ (out # <<>> /\ call[t].left = WSize))
            /\ out' = SubSeq(Message, 1, n)
            /\ IF n = call[t].left
               THEN Return(t, n)
               ELSE call' = [call EXCEPT ![t].left = Shortened(@, n)]
    BY <1>3 DEF Write
  <2>2. WriteDone(t, n) \/ WritePart(t, n)
    BY <1>2, <2>1 DEF WriteDone
  <2>3. QED
    BY <2>1, <2>2 DEF Write, At
<1>4. CASE ~Good
  BY <1>4 DEF Write, At
<1>5. QED
  BY <1>3, <1>4

LEMMA WriteOK ==
  ASSUME SerialTypeOK, NEW t \in Thread, call[t].op = "Write",
         call[t].at = "work", NEW n \in 1..call[t].left, WritePart(t, n)
  PROVE  CallOK([call[t] EXCEPT !.left = @ - n], t)
<1>1. CallOK(call[t], t) /\ call[t] \in CallType /\ call[t].left \in Nat
  BY DEF SerialTypeOK, CallType
<1>2. call[t].left - n \in 0..WSize
  BY <1>1, SerialAssumption DEF CallType
<1>3. QED
  BY <1>1, <1>2 DEF CallOK, CallType

\* One read of the tty by ReadPackage.
MoreRead(t, buf) ==
  [call[t] EXCEPT !.buf = buf, !.ret = Len(buf),
     !.cnt = IF @ > 0 THEN @ - 1 ELSE @,
     !.at = IF Len(buf) < Expect /\ call[t].cnt > 0 THEN "read" ELSE "done"]

LEMMA MoreReadOK ==
  ASSUME SerialTypeOK, NEW t \in Thread, call[t].op = "ReadPackage",
         call[t].at = "read", NEW buf \in Seq(Nat)
  PROVE  CallOK(MoreRead(t, buf), t)
<1>1. /\ CallOK(call[t], t) /\ call[t] \in CallType /\ call[t].cnt \in Nat
      /\ call[t].fd \in Nat
  BY DEF SerialTypeOK, CallType
<1>2. (IF call[t].cnt > 0 THEN call[t].cnt - 1 ELSE call[t].cnt) \in Nat
  BY <1>1
<1>3. Len(buf) \in Int
  OBVIOUS
<1>4. QED
  BY <1>1, <1>2, <1>3 DEF CallOK, CallType, MoreRead

\* What Read does to its call when it gets n cells.
GotCells(t, buf, n) ==
  call' = [call EXCEPT ![t].buf = buf, ![t].at = "done", ![t].ret = n]

LEMMA ReadDoneOK ==
  ASSUME SerialTypeOK, NEW t \in Thread, call[t].op = "Read",
         NEW buf \in Seq(Nat), NEW n \in Nat, GotCells(t, buf, n)
  PROVE  \E c : /\ CallOK(c, t) /\ call' = [call EXCEPT ![t] = c]
               /\ c.buf = buf /\ c.op = "Read" /\ c.left = call[t].left
<1> DEFINE c1 == [call[t] EXCEPT !.buf = buf]
           c  == [c1 EXCEPT !.at = "done", !.ret = n]
<1>1. /\ CallOK(call[t], t) /\ call[t] \in CallType
      /\ call \in [Thread -> CallType]
  BY DEF SerialTypeOK
<1>2. /\ c1 \in CallType /\ c1.op = "Read" /\ c1.buf = buf
      /\ c1.left = call[t].left
  BY <1>1 DEF CallType
<1>3. call' = [call EXCEPT ![t] = c]
  BY <1>1 DEF GotCells
<1> HIDE DEF c1
<1>4. /\ c \in CallType
      /\ c.op = "Read" /\ c.buf = buf /\ c.at = "done" /\ c.left = call[t].left
  <2>1. c \in CallType
    <3>1. n \in Int
      OBVIOUS
    <3>2. QED
      BY <1>2, <3>1 DEF CallType
  <2>2. c.op = c1.op /\ c.buf = c1.buf /\ c.left = c1.left /\ c.at = "done"
    BY <1>2 DEF CallType
  <2>3. QED
    BY <1>2, <2>1, <2>2
<1> HIDE DEF c
<1>5. CallOK(c, t)
  BY <1>1, <1>4 DEF CallOK
<1>6. QED
  BY <1>3, <1>4, <1>5

(* A step of a thread: what becomes of its call, and of what is read and   *)
(* written.                                                                *)
LEMMA BeginStep ==
  ASSUME SerialTypeOK, NEW t \in Thread, NEW op \in Calls[t], Begin(t, op)
  PROVE  SerialTypeOK'
<1> DEFINE c == [op |-> op, at |-> IF m_fd = 0 THEN "init" ELSE "work",
                 left |-> WSize, buf |-> <<>>, cnt |-> MinCnt, ret |-> 0,
                 fd |-> 0]
<1>1. CallOK(c, t)
  BY BegunOK
<1>2. call' = [call EXCEPT ![t] = c]
  BY DEF Begin
<1> HIDE DEF c
<1>3. call' \in [Thread -> CallType] /\ \A u \in Thread : CallOK(call'[u], u)
  BY <1>1, <1>2, CallsOK
<1>4. UNCHANGED <<m_fd, fds, tty, sent, in, out, line>>
  BY DEF Begin, fdVars, inVars
<1>5. QED
  BY <1>3, <1>4 DEF SerialTypeOK

LEMMA InitStep ==
  ASSUME SerialTypeOK, NEW t \in Thread, Init(t)
  PROVE  SerialTypeOK'
<1>1. /\ call[t].at = "init"
      /\ UNCHANGED <<sent, in, line>>
      /\ tty' \in {tty, <<>>} /\ out' \in {out, <<>>}
      /\ m_fd' \in 0..MaxOpen /\ fds' \subseteq fds \cup {m_fd'}
      /\ fds' # fds => m_fd' # 0
      /\ \/ call' = [call EXCEPT ![t].at = "work"]
         \/ Return(t, -1)
  BY SerialAssumption DEF Init
<1>2. PICK c : CallOK(c, t) /\ call' = [call EXCEPT ![t] = c]
  <2>1. CASE call' = [call EXCEPT ![t].at = "work"]
    BY <1>1, <2>1, MovedOK, ZenonT(60)
  <2>2. CASE Return(t, -1)
    BY <2>2, GiveUpOK
  <2>3. QED
    BY <1>1, <2>1, <2>2
<1>3. call' \in [Thread -> CallType] /\ \A u \in Thread : CallOK(call'[u], u)
  BY <1>2, CallsOK
<1>4. tty' \in Seq(Nat) /\ out' \in Seq(Nat)
  <2>1. <<>> \in Seq(Nat)
    BY EmptySeq
  <2>2. QED
    BY <1>1, <2>1 DEF SerialTypeOK
<1>5. fds' \subseteq 1..MaxOpen
  <2>1. fds \subseteq 1..MaxOpen /\ MaxOpen \in Nat
    BY SerialAssumption DEF SerialTypeOK
  <2>2. CASE fds' = fds
    BY <2>1, <2>2
  <2>3. CASE fds' # fds
    <3>1. m_fd' \in 1..MaxOpen
      BY <1>1, <2>1, <2>3
    <3>2. QED
      BY <1>1, <2>1, <3>1
  <2>4. QED
    BY <2>2, <2>3
<1>6. QED
  BY <1>1, <1>3, <1>4, <1>5 DEF SerialTypeOK

LEMMA DeInitStep ==
  ASSUME SerialTypeOK, NEW t \in Thread, DeInit(t) \/ Close(t) \/ Clear(t)
  PROVE  SerialTypeOK'
<1>1. /\ UNCHANGED <<tty, sent, in, out, line>>
      /\ m_fd' \in {m_fd, 0} /\ fds' \subseteq fds
      /\ \/ Return(t, -1)
         \/ call' = [call EXCEPT ![t].at = "close", ![t].fd = m_fd]
         \/ call' = [call EXCEPT ![t].at = "clear"]
  BY DEF DeInit, Close, Closed, Clear, fdVars, inVars, outVars
<1>2. PICK c : CallOK(c, t) /\ call' = [call EXCEPT ![t] = c]
  <2>1. CASE Return(t, -1)
    BY <2>1, GiveUpOK
  <2>2. CASE call' = [call EXCEPT ![t].at = "close", ![t].fd = m_fd]
    BY <2>2, ClosingOK
  <2>3. CASE call' = [call EXCEPT ![t].at = "clear"]
    BY <2>3, MovedOK, ZenonT(60)
  <2>4. QED
    BY <1>1, <2>1, <2>2, <2>3
<1>3. call' \in [Thread -> CallType] /\ \A u \in Thread : CallOK(call'[u], u)
  BY <1>2, CallsOK
<1>4. m_fd' \in 0..MaxOpen /\ fds' \subseteq 1..MaxOpen
  BY <1>1, SerialAssumption DEF SerialTypeOK
<1>5. QED
  BY <1>1, <1>3, <1>4 DEF SerialTypeOK

LEMMA WriteStep ==
  ASSUME SerialTypeOK, NEW t \in Thread, Write(t)
  PROVE  SerialTypeOK'
<1>1. /\ call[t].op = "Write" /\ call[t].at = "work"
      /\ UNCHANGED <<m_fd, fds, tty, sent, in, line>>
  BY WriteIs DEF fdVars, inVars
<1>2. CASE Fail(t) /\ out' = out
  <2>1. PICK c : CallOK(c, t) /\ call' = [call EXCEPT ![t] = c]
    BY <1>2, FailOK
  <2>2. call' \in [Thread -> CallType] /\ \A u \in Thread : CallOK(call'[u], u)
    BY <2>1, CallsOK
  <2>3. QED
    BY <1>1, <1>2, <2>2 DEF SerialTypeOK
<1>3. ASSUME NEW n \in 1..call[t].left,
             WriteDone(t, n) \/ WritePart(t, n),
             out' = SubSeq(Message, 1, n)
      PROVE  SerialTypeOK'
  <2>1. n \in Int
    OBVIOUS
  <2>2. PICK c : CallOK(c, t) /\ call' = [call EXCEPT ![t] = c]
    <3>1. CASE WriteDone(t, n)
      BY <2>1, <3>1, ReturnOK DEF WriteDone
    <3>2. CASE WritePart(t, n)
      BY <1>1, <3>2, WriteOK DEF WritePart
    <3>3. QED
      BY <1>3, <3>1, <3>2
  <2>3. call' \in [Thread -> CallType] /\ \A u \in Thread : CallOK(call'[u], u)
    BY <2>2, CallsOK
  <2>4. out' \in Seq(Nat)
    <3>2. n \in 1..WSize
      BY SerialAssumption DEF SerialTypeOK, CallType
    <3>3. QED
      BY <1>3, <3>2, MessageType
  <2>5. QED
    BY <1>1, <2>3, <2>4 DEF SerialTypeOK
<1>4. QED
  BY <1>2, <1>3, WriteIs

LEMMA ReadStep ==
  ASSUME SerialTypeOK, NEW t \in Thread, Read(t)
  PROVE  SerialTypeOK'
<1>1. /\ call[t].op = "Read" /\ call[t].at = "read"
      /\ UNCHANGED <<m_fd, fds, sent, in, out, line>>
      /\ tty \in Seq(Nat)
  BY DEF Read, At, fdVars, outVars, SerialTypeOK
<1>2. ASSUME tty' = tty, Return(t, 0) \/ Fail(t)
      PROVE  SerialTypeOK'
  <2>1. PICK c : CallOK(c, t) /\ call' = [call EXCEPT ![t] = c]
    <3>1. CASE Return(t, 0)
      <4>1. 0 \in Int /\ call[t].op # "Write"
        BY <1>1
      <4>2. QED
        BY <3>1, <4>1, ReturnOK
    <3>2. CASE Fail(t)
      BY <3>2, FailOK
    <3>3. QED
      BY <1>2, <3>1, <3>2
  <2>2. call' \in [Thread -> CallType] /\ \A u \in Thread : CallOK(call'[u], u)
    BY <2>1, CallsOK
  <2>3. QED
    BY <1>1, <1>2, <2>2 DEF SerialTypeOK
<1>3. ASSUME NEW n \in 1..iBufferSize, n <= Len(tty),
             tty' = SubSeq(tty, n + 1, Len(tty)),
             call' = [call EXCEPT ![t].buf = SubSeq(tty, 1, n),
                                  ![t].at = "done", ![t].ret = n]
      PROVE  SerialTypeOK'
  <2>1. n \in Nat
    BY SerialAssumption
  <2>2. SubSeq(tty, 1, n) \in Seq(Nat) /\ tty' \in Seq(Nat)
    BY <1>1, <1>3, <2>1, TakeCells
  <2>3. PICK c : CallOK(c, t) /\ call' = [call EXCEPT ![t] = c]
    <3>1. GotCells(t, SubSeq(tty, 1, n), n)
      BY <1>3 DEF GotCells
    <3>2. QED
      BY <1>1, <2>1, <2>2, <3>1, ReadDoneOK
  <2>4. call' \in [Thread -> CallType] /\ \A u \in Thread : CallOK(call'[u], u)
    BY <2>3, CallsOK
  <2>5. QED
    BY <1>1, <2>2, <2>4 DEF SerialTypeOK
<1>4. QED
  BY <1>2, <1>3 DEF Read

LEMMA SelectStep ==
  ASSUME SerialTypeOK, NEW t \in Thread, Select(t) \/ ReadPackage(t)
  PROVE  SerialTypeOK'
<1>1. /\ call[t].op # "Write" /\ call[t].at = "work"
      /\ UNCHANGED <<m_fd, fds, tty, sent, in, out, line>>
      /\ \/ call' = [call EXCEPT ![t].at = "read"]
         \/ Return(t, 0) \/ Return(t, -1) \/ Fail(t)
  BY DEF Select, ReadPackage, Found, At, fdVars, inVars, outVars
<1>2. PICK c : CallOK(c, t) /\ call' = [call EXCEPT ![t] = c]
  <2>1. CASE call' = [call EXCEPT ![t].at = "read"]
    BY <1>1, <2>1, MovedOK, ZenonT(60)
  <2>2. CASE Return(t, 0)
    <3>1. 0 \in Int /\ call[t].op # "Write"
      BY <1>1
    <3>2. QED
      BY <2>2, <3>1, ReturnOK
  <2>3. CASE Return(t, -1)
    BY <2>3, GiveUpOK
  <2>4. CASE Fail(t)
    BY <2>4, FailOK
  <2>5. QED
    BY <1>1, <2>1, <2>2, <2>3, <2>4
<1>3. call' \in [Thread -> CallType] /\ \A u \in Thread : CallOK(call'[u], u)
  BY <1>2, CallsOK
<1>4. QED
  BY <1>1, <1>3 DEF SerialTypeOK

\* ReadPackage reads n cells more.
LEMMA ReadMoreIs ==
  ASSUME SerialTypeOK, NEW t \in Thread, ReadMore(t)
  PROVE  /\ call[t].op = "ReadPackage" /\ call[t].at = "read"
         /\ UNCHANGED <<fdVars, sent, in, outVars>>
         /\ \E n \in 0..Len(tty) :
              LET buf == NextPlace(call[t].buf, SubSeq(tty, 1, n))
              IN  /\ buf \in Seq(Nat)
                  /\ Expect # 0 => buf = call[t].buf \o SubSeq(tty, 1, n)
                  /\ tty' = SubSeq(tty, n + 1, Len(tty))
                  /\ call' = [call EXCEPT ![t] = MoreRead(t, buf)]
                  /\ CallOK(MoreRead(t, buf), t)
                  /\ MoreRead(t, buf).buf = buf
                  /\ MoreRead(t, buf).op = "ReadPackage"
<1>1. /\ call[t].op = "ReadPackage" /\ call[t].at = "read"
      /\ UNCHANGED <<fdVars, sent, in, outVars>>
  BY DEF ReadMore, At
<1>2. /\ call \in [Thread -> CallType] /\ call[t] \in CallType
      /\ call[t].buf \in Seq(Nat) /\ Len(call[t].buf) \in Nat
      /\ tty \in Seq(Nat) /\ Len(tty) \in Nat
  BY DEF SerialTypeOK, CallType
<1>3. PICK n \in 0..(iBufferSize - Len(call[t].buf)) :
       /\ n <= Len(tty)
       /\ tty' = SubSeq(tty, n + 1, Len(tty))
       /\ LET buf == NextPlace(call[t].buf, SubSeq(tty, 1, n))
          IN  call' = [call EXCEPT ![t].buf = buf, ![t].ret = Len(buf),
                         ![t].cnt = IF @ > 0 THEN @ - 1 ELSE @,
                         ![t].at = IF Len(buf) < Expect /\ call[t].cnt > 0
                                   THEN "read" ELSE "done"]
  BY DEF ReadMore
<1>4. n \in 0..Len(tty)
  BY <1>2, <1>3, SerialAssumption
<1> DEFINE buf == NextPlace(call[t].buf, SubSeq(tty, 1, n))
<1>5. /\ buf \in Seq(Nat)
      /\ Expect # 0 => buf = call[t].buf \o SubSeq(tty, 1, n)
  <2>1. SubSeq(tty, 1, n) \in Seq(Nat)
    BY <1>2, <1>4, TakeCells
  <2>2. call[t].buf \o SubSeq(tty, 1, n) \in Seq(Nat)
    BY <1>2, <2>1, ConcatProperties
  <2>3. Expect # 0 => Len(call[t].buf) < Expect
    BY <1>1 DEF SerialTypeOK, CallOK
  <2>4. QED
    BY <1>2, <2>2, <2>3 DEF NextPlace
<1>6. call' = [call EXCEPT ![t].buf = buf, ![t].ret = Len(buf),
                 ![t].cnt = IF @ > 0 THEN @ - 1 ELSE @,
                 ![t].at = IF Len(buf) < Expect /\ call[t].cnt > 0
                           THEN "read" ELSE "done"]
  BY <1>3
<1> HIDE DEF buf
<1>7. call' = [call EXCEPT ![t] = MoreRead(t, buf)]
  BY <1>2, <1>6 DEF MoreRead
<1>8. CallOK(MoreRead(t, buf), t)
  BY <1>1, <1>5, MoreReadOK
<1>9. MoreRead(t, buf).buf = buf /\ MoreRead(t, buf).op = "ReadPackage"
  BY <1>1, <1>2 DEF MoreRead, CallType
<1>10. QED
  BY <1>1, <1>3, <1>4, <1>5, <1>7, <1>8, <1>9 DEF buf

LEMMA ReadMoreStep ==
  ASSUME SerialTypeOK, NEW t \in Thread, ReadMore(t)
  PROVE  SerialTypeOK'
<1>1. UNCHANGED <<m_fd, fds, sent, in, out, line>> /\ tty \in Seq(Nat)
  BY ReadMoreIs DEF fdVars, outVars, SerialTypeOK
<1>2. PICK n \in 0..Len(tty) :
        /\ tty' = SubSeq(tty, n + 1, Len(tty))
        /\ \E c : CallOK(c, t) /\ call' = [call EXCEPT ![t] = c]
  BY ReadMoreIs
<1>3. call' \in [Thread -> CallType] /\ \A u \in Thread : CallOK(call'[u], u)
  BY <1>2, CallsOK
<1>4. tty' \in Seq(Nat)
  BY <1>1, <1>2, TakeCells
<1>5. QED
  BY <1>1, <1>3, <1>4 DEF SerialTypeOK

LEMMA EndStep ==
  ASSUME SerialTypeOK, NEW t \in Thread, End(t)
  PROVE  SerialTypeOK'
<1>1. /\ call' = [call EXCEPT ![t] = Idle] /\ in' = in \o call[t].buf
      /\ UNCHANGED <<m_fd, fds, tty, sent, out, line>>
  BY DEF End, fdVars
<1>2. call' \in [Thread -> CallType] /\ \A u \in Thread : CallOK(call'[u], u)
  BY <1>1, IdleOK, CallsOK
<1>3. call[t].buf \in Seq(Nat) /\ in \in Seq(Nat)
  BY DEF SerialTypeOK, CallType
<1>4. in' \in Seq(Nat)
  BY <1>1, <1>3
<1>5. QED
  BY <1>1, <1>2, <1>4 DEF SerialTypeOK

LEMMA DeviceStep ==
  ASSUME SerialTypeOK, DeviceSend \/ Transmit \/ Unplug \/ Plug
  PROVE  SerialTypeOK'
<1>1. UNCHANGED <<call, m_fd, fds>>
  BY DEF DeviceSend, Transmit, Unplug, Plug, fdVars
<1>2. CASE DeviceSend
  BY <1>1, <1>2 DEF DeviceSend, outVars, SerialTypeOK
<1>3. CASE Transmit
  BY <1>1, <1>3 DEF Transmit, inVars, SerialTypeOK
<1>4. CASE Unplug \/ Plug
  <2>1. <<>> \in Seq(Nat)
    BY EmptySeq
  <2>2. /\ tty' \in {tty, <<>>} /\ out' \in {out, <<>>}
        /\ UNCHANGED <<sent, in, line>>
    BY <1>4 DEF Unplug, Plug, inVars, outVars
  <2>3. tty' \in Seq(Nat) /\ out' \in Seq(Nat)
    BY <2>1, <2>2 DEF SerialTypeOK
  <2>4. QED
    BY <1>1, <2>2, <2>3 DEF SerialTypeOK
<1>5. QED
  BY <1>2, <1>3, <1>4

LEMMA SerialTypeStep ==
  ASSUME SerialTypeOK, [SerialNext]_serialVars
  PROVE  SerialTypeOK'
<1>1. CASE UNCHANGED serialVars
  BY <1>1 DEF serialVars, fdVars, inVars, outVars, SerialTypeOK
<1>2. CASE SerialNext
  BY <1>2, DeviceStep, BeginStep, InitStep, DeInitStep, WriteStep, SelectStep,
     ReadStep, ReadMoreStep, EndStep
  DEF SerialNext
<1>3. QED
  BY <1>1, <1>2

LEMMA SerialTypeInit == SerialInit => SerialTypeOK
<1> SUFFICES ASSUME SerialInit PROVE SerialTypeOK
  OBVIOUS
<1>1. call = [t \in Thread |-> Idle]
  BY DEF SerialInit
<1>2. \A t \in Thread : CallOK(call[t], t)
  BY <1>1, IdleOK
<1>3. call \in [Thread -> CallType]
  BY <1>1, IdleOK DEF CallOK
<1>4. <<>> \in Seq(Nat)
  BY EmptySeq
<1>5. m_fd \in 0..MaxOpen /\ fds \subseteq 1..MaxOpen
  BY SerialAssumption DEF SerialInit
<1>6. QED
  BY <1>2, <1>3, <1>4, <1>5 DEF SerialInit, SerialTypeOK

-----------------------------------------------------------------------------
(* SerialPort: descriptors.                                                *)

(* Until two threads are at it at once: no other descriptor is open than   *)
(* the one in use, a thread goes to open the device only while there is    *)
(* none, and to close it only what is in use; and whoever is about to      *)
(* forget a descriptor has closed it.                                      *)
DescriptorInv ==
  ~overlap =>
    /\ fds \subseteq {m_fd}
    /\ m_fd \in fds \cup {0} \/ \E t \in Thread : call[t].at = "clear"
    /\ \A t \in Thread :
         /\ call[t].at = "init" => m_fd = 0
         /\ call[t].at = "close" => m_fd # 0 /\ call[t].fd = m_fd
         /\ call[t].at = "clear" => fds = {}

\* Whoever opens or closes the device is where it was, and nobody has come.
ManagersKept ==
  \A u \in Thread : Managing(u) \/ Managing(u)' => call'[u] = call[u]

LEMMA DescriptorsKept ==
  ASSUME DescriptorInv, ManagersKept, UNCHANGED <<m_fd, fds, overlap>>
  PROVE  DescriptorInv'
<1> SUFFICES ASSUME ~overlap' PROVE DescriptorInv'
  BY DEF DescriptorInv
<1>1. ~overlap /\ m_fd' = m_fd /\ fds' = fds
  OBVIOUS
<1>2. fds' \subseteq {m_fd'}
  BY <1>1 DEF DescriptorInv
<1>3. m_fd' \in fds' \cup {0} \/ \E t \in Thread : call'[t].at = "clear"
  <2>1. CASE m_fd \in fds \cup {0}
    BY <1>1, <2>1
  <2>2. ASSUME NEW t \in Thread, call[t].at = "clear"
        PROVE  call'[t].at = "clear"
    BY <2>2 DEF ManagersKept, Managing
  <2>3. QED
    BY <1>1, <2>1, <2>2 DEF DescriptorInv
<1>4. ASSUME NEW t \in Thread
      PROVE  /\ call'[t].at = "init" => m_fd' = 0
             /\ call'[t].at = "close" => m_fd' # 0 /\ call'[t].fd = m_fd'
             /\ call'[t].at = "clear" => fds' = {}
  <2>1. CASE Managing(t)'
    <3>1. call'[t] = call[t]
      BY <2>1 DEF ManagersKept
    <3>2. QED
      BY <1>1, <3>1 DEF DescriptorInv
  <2>2. CASE ~Managing(t)'
    BY <2>2 DEF Managing
  <2>3. QED
    BY <2>1, <2>2
<1>5. QED
  BY <1>2, <1>3, <1>4 DEF DescriptorInv

\* A step of a thread that neither opens nor closes the device.
LEMMA NotManaging ==
  ASSUME SerialTypeOK, NEW t \in Thread, ~Managing(t),
         \/ \E at \in {"read", "deinit"} : call' = [call EXCEPT ![t].at = at]
         \/ \E ret \in Int : Return(t, ret)
         \/ \E n : WritePart(t, n)
         \/ \E n \in Nat, buf \in Seq(Nat) : GotCells(t, buf, n)
         \/ \E c : /\ c.at \notin {"init", "close", "clear"}
                   /\ call' = [call EXCEPT ![t] = c]
  PROVE  ManagersKept
<1>1. call \in [Thread -> CallType] /\ call[t].at \notin {"init", "close", "clear"}
  BY DEF SerialTypeOK, Managing
<1>2. SUFFICES /\ call'[t].at \notin {"init", "close", "clear"}
               /\ \A u \in Thread \ {t} : call'[u] = call[u]
  BY <1>1 DEF ManagersKept, Managing
<1>3. ASSUME NEW at \in {"read", "deinit"}, call' = [call EXCEPT ![t].at = at]
      PROVE  /\ call'[t].at \notin {"init", "close", "clear"}
             /\ \A u \in Thread \ {t} : call'[u] = call[u]
  BY <1>1, <1>3 DEF CallType
<1>4. ASSUME NEW ret, Return(t, ret)
      PROVE  /\ call'[t].at \notin {"init", "close", "clear"}
             /\ \A u \in Thread \ {t} : call'[u] = call[u]
  BY <1>1, <1>4 DEF CallType, Return
<1>5. ASSUME NEW n, WritePart(t, n)
      PROVE  /\ call'[t].at \notin {"init", "close", "clear"}
             /\ \A u \in Thread \ {t} : call'[u] = call[u]
  BY <1>1, <1>5 DEF CallType, WritePart
<1>6. ASSUME NEW n, NEW buf, GotCells(t, buf, n)
      PROVE  /\ call'[t].at \notin {"init", "close", "clear"}
             /\ \A u \in Thread \ {t} : call'[u] = call[u]
  <2>1. call'[t].at = "done"
    BY <1>1, <1>6, ZenonT(60) DEF CallType, GotCells
  <2>2. \A u \in Thread \ {t} : call'[u] = call[u]
    BY <1>1, <1>6, ZenonT(60) DEF GotCells
  <2>3. QED
    BY <2>1, <2>2
<1>7. ASSUME NEW c, c.at \notin {"init", "close", "clear"},
             call' = [call EXCEPT ![t] = c]
      PROVE  /\ call'[t].at \notin {"init", "close", "clear"}
             /\ \A u \in Thread \ {t} : call'[u] = call[u]
  BY <1>1, <1>7
<1>8. QED
  BY <1>3, <1>4, <1>5, <1>6, <1>7

\* A thread opens or closes the device: it has moved on, the others are kept.
LEMMA ManagerMoves ==
  ASSUME SerialTypeOK, NEW t \in Thread, Init(t) \/ Close(t) \/ Clear(t)
  PROVE  /\ overlap' = Overlaps(t)
         /\ call'[t].at \in {"work", "done", "clear"}
         /\ Close(t) <=> call'[t].at = "clear"
         /\ \A u \in Thread \ {t} : call'[u] = call[u]
<1>1. call \in [Thread -> CallType]
  BY DEF SerialTypeOK
<1>2. overlap' = Overlaps(t)
  BY DEF Init, Close, Clear
<1>3. CASE call' = [call EXCEPT ![t].at = "work"] /\ ~Close(t)
  BY <1>1, <1>2, <1>3 DEF CallType
<1>4. CASE Return(t, -1) /\ ~Close(t)
  BY <1>1, <1>2, <1>4 DEF CallType, Return
<1>5. CASE Close(t)
  <2>1. call' = [call EXCEPT ![t].at = "clear"]
    BY <1>5 DEF Close, Closed
  <2>2. QED
    BY <1>1, <1>2, <1>5, <2>1 DEF CallType
<1>6. ~Close(t) \/ Close(t)
  OBVIOUS
<1>7. Init(t) \/ Clear(t) => ~Close(t)
  BY DEF Init, Clear, Close
<1>8. Init(t) => call' = [call EXCEPT ![t].at = "work"] \/ Return(t, -1)
  BY DEF Init
<1>9. Clear(t) => Return(t, -1)
  BY DEF Clear
<1>10. QED
  BY <1>3, <1>4, <1>5, <1>7, <1>8, <1>9

LEMMA ManagerStep ==
  ASSUME SerialTypeOK, DescriptorInv, NEW t \in Thread,
         Init(t) \/ Close(t) \/ Clear(t)
  PROVE  DescriptorInv'
<1> SUFFICES ASSUME ~overlap' PROVE DescriptorInv'
  BY DEF DescriptorInv
<1>1. /\ ~overlap /\ \A u \in Thread \ {t} : ~Managing(u)
      /\ call'[t].at \in {"work", "done", "clear"}
      /\ Close(t) <=> call'[t].at = "clear"
      /\ \A u \in Thread \ {t} : call'[u] = call[u]
  BY ManagerMoves DEF Overlaps
<1>2. \A u \in Thread :
        /\ call'[u].at \notin {"init", "close"}
        /\ call'[u].at = "clear" => u = t /\ Close(t)
  BY <1>1 DEF Managing
<1>3. /\ fds \subseteq {m_fd} /\ fds \subseteq 1..MaxOpen
      /\ call[t].at = "init" => m_fd = 0
      /\ call[t].at = "close" => m_fd # 0 /\ call[t].fd = m_fd
      /\ call[t].at = "clear" => fds = {}
  BY <1>1 DEF DescriptorInv, SerialTypeOK
<1>4. CASE Init(t)
  <2>1. fds = {}
    <3>1. m_fd = 0 /\ 0 \notin 1..MaxOpen
      BY <1>3, <1>4, SerialAssumption DEF Init
    <3>2. QED
      BY <1>3, <3>1
  <2>2. fds' = {m_fd'} \/ (fds' = {} /\ m_fd' = 0)
    BY <1>4, <2>1 DEF Init
  <2>3. ~Close(t)
    BY <1>4 DEF Init, Close
  <2>4. QED
    BY <1>2, <2>2, <2>3 DEF DescriptorInv
<1>5. CASE Close(t)
  <2>1. fds' = {} /\ m_fd' = m_fd
    BY <1>3, <1>5 DEF Close
  <2>2. call'[t].at = "clear"
    BY <1>1, <1>5
  <2>3. QED
    BY <1>2, <2>1, <2>2 DEF DescriptorInv
<1>6. CASE Clear(t)
  <2>1. fds' = {} /\ m_fd' = 0
    BY <1>3, <1>6 DEF Clear
  <2>2. ~Close(t)
    BY <1>6 DEF Clear, Close
  <2>3. QED
    BY <1>2, <2>1, <2>2 DEF DescriptorInv
<1>7. QED
  BY <1>4, <1>5, <1>6

LEMMA DescriptorStep ==
  ASSUME SerialTypeOK, DescriptorInv, [SerialNext]_serialVars
  PROVE  DescriptorInv'
<1> USE DEF fdVars
<1>0. call \in [Thread -> CallType]
  BY DEF SerialTypeOK
<1>1. CASE UNCHANGED serialVars
  BY <1>1 DEF serialVars, DescriptorInv
<1>2. CASE DeviceSend \/ Transmit \/ Unplug \/ Plug
  BY <1>2, DescriptorsKept
  DEF DeviceSend, Transmit, Unplug, Plug, ManagersKept
<1>3. ASSUME NEW t \in Thread, NEW op \in Calls[t], Begin(t, op)
      PROVE  DescriptorInv'
  <2>1. /\ UNCHANGED <<m_fd, fds, overlap>>
        /\ call[t].at = "idle"
        /\ call'[t].at = IF m_fd = 0 THEN "init" ELSE "work"
        /\ \A u \in Thread \ {t} : call'[u] = call[u]
    BY <1>0, <1>3 DEF Begin, Idle
  <2>2. \A u \in Thread :
          /\ call'[u].at = "init" => m_fd = 0 \/ call'[u] = call[u]
          /\ call'[u].at \in {"close", "clear"} => call'[u] = call[u]
          /\ call[u].at = "clear" => call'[u] = call[u]
    BY <2>1
  <2>3. QED
    BY <2>1, <2>2 DEF DescriptorInv
<1>4. ASSUME NEW t \in Thread, Init(t) \/ Close(t) \/ Clear(t)
      PROVE  DescriptorInv'
  BY <1>4, ManagerStep
<1>5. ASSUME NEW t \in Thread, DeInit(t)
      PROVE  DescriptorInv'
  <2>1. UNCHANGED <<m_fd, fds, overlap>> /\ call[t].at = "deinit"
    BY <1>5 DEF DeInit
  <2>2. CASE m_fd > 0
    <3>1. /\ call'[t].at = "close" /\ call'[t].fd = m_fd
          /\ \A u \in Thread \ {t} : call'[u] = call[u]
      <4>1. call' = [call EXCEPT ![t].at = "close", ![t].fd = m_fd]
        BY <1>5, <2>2 DEF DeInit
      <4>2. QED
        BY <1>0, <4>1, ZenonT(60) DEF CallType
    <3>2. m_fd # 0
      BY <2>2 DEF SerialTypeOK
    <3>3. \A u \in Thread :
            /\ call'[u].at \in {"init", "clear"} => call'[u] = call[u]
            /\ call'[u].at = "close" => u = t \/ call'[u] = call[u]
            /\ call[u].at = "clear" => call'[u] = call[u]
      BY <2>1, <3>1
    <3>4. QED
      BY <2>1, <3>1, <3>2, <3>3 DEF DescriptorInv
  <2>3. CASE ~(m_fd > 0)
    <3>1. Return(t, -1) /\ -1 \in Int /\ ~Managing(t)
      BY <1>5, <2>1, <2>3 DEF DeInit, Managing
    <3>2. ManagersKept
      BY <3>1, NotManaging
    <3>3. QED
      BY <2>1, <3>2, DescriptorsKept
  <2>4. QED
    BY <2>2, <2>3
<1>6. ASSUME NEW t \in Thread, Write(t)
      PROVE  DescriptorInv'
  <2>1. UNCHANGED <<m_fd, fds, overlap>> /\ ~Managing(t)
    BY <1>6, WriteIs DEF Managing
  <2>2. ManagersKept
    <3>1. CASE Fail(t)
      BY <2>1, <3>1, NotManaging DEF Fail
    <3>2. ASSUME NEW n \in 1..call[t].left, WriteDone(t, n)
          PROVE  ManagersKept
      BY <2>1, <3>2, NotManaging DEF WriteDone
    <3>3. ASSUME NEW n \in 1..call[t].left, WritePart(t, n)
          PROVE  ManagersKept
      BY <2>1, <3>3, NotManaging
    <3>4. QED
      BY <1>6, <3>1, <3>2, <3>3, WriteIs
  <2>3. QED
    BY <2>1, <2>2, DescriptorsKept
<1>7. ASSUME NEW t \in Thread, Select(t) \/ Read(t) \/ ReadPackage(t)
      PROVE  DescriptorInv'
  <2>1. UNCHANGED <<m_fd, fds, overlap>> /\ ~Managing(t)
    BY <1>7 DEF Select, Read, ReadPackage, At, Managing
  <2>2. ManagersKept
    <3>1. CASE Fail(t) \/ Return(t, 0) \/ Return(t, -1)
      <4>1. 0 \in Int /\ -1 \in Int
        OBVIOUS
      <4>2. QED
        BY <2>1, <3>1, <4>1, NotManaging DEF Fail
    <3>2. CASE call' = [call EXCEPT ![t].at = "read"]
      BY <2>1, <3>2, NotManaging
    <3>3. ASSUME NEW n \in 1..iBufferSize, n <= Len(tty),
                 call' = [call EXCEPT ![t].buf = SubSeq(tty, 1, n),
                                      ![t].at = "done", ![t].ret = n]
          PROVE  ManagersKept
      <4>1. n \in Nat /\ SubSeq(tty, 1, n) \in Seq(Nat)
        <5>1. n \in Nat
          BY SerialAssumption
        <5>2. tty \in Seq(Nat)
          BY DEF SerialTypeOK
        <5>3. QED
          BY <3>3, <5>1, <5>2, TakeCells
      <4>2. GotCells(t, SubSeq(tty, 1, n), n)
        BY <3>3 DEF GotCells
      <4>3. QED
        BY <2>1, <4>1, <4>2, NotManaging
    <3>4. QED
      BY <1>7, <3>1, <3>2, <3>3 DEF Select, Read, ReadPackage, Found
  <2>3. QED
    BY <2>1, <2>2, DescriptorsKept
<1>8. ASSUME NEW t \in Thread, ReadMore(t)
      PROVE  DescriptorInv'
  <2>1. UNCHANGED <<m_fd, fds, overlap>> /\ ~Managing(t)
    BY <1>8 DEF ReadMore, At, Managing
  <2>2. PICK buf : call' = [call EXCEPT ![t] = MoreRead(t, buf)]
    BY <1>8, ReadMoreIs
  <2>3. MoreRead(t, buf).at \in {"read", "done"}
    BY <1>0 DEF MoreRead, CallType
  <2>4. ManagersKept
    BY <2>1, <2>2, <2>3, NotManaging
  <2>5. QED
    BY <2>1, <2>4, DescriptorsKept
<1>9. ASSUME NEW t \in Thread, End(t)
      PROVE  DescriptorInv'
  <2>1. Idle.at = "idle" /\ ~Managing(t)
    BY <1>9 DEF End, Idle, Managing
  <2>2. ManagersKept
    BY <1>9, <2>1, NotManaging DEF End
  <2>3. QED
    BY <1>9, <2>2, DescriptorsKept DEF End
<1>10. QED
  BY <1>1, <1>2, <1>3, <1>4, <1>5, <1>6, <1>7, <1>8, <1>9 DEF SerialNext

LEMMA DescriptorInit == SerialInit => DescriptorInv
<1> SUFFICES ASSUME SerialInit PROVE DescriptorInv
  OBVIOUS
<1>1. \A t \in Thread : call[t].at = "idle"
  BY DEF SerialInit, Idle
<1>2. QED
  BY <1>1 DEF SerialInit, DescriptorInv

-----------------------------------------------------------------------------
(* SerialPort: what is written.                                            *)

\* A call moves on and keeps what it has to write and what it has read.
MovesOn(t) ==
  \E c : /\ CallOK(c, t) /\ call' = [call EXCEPT ![t] = c]
         /\ c.op = call[t].op /\ c.left = call[t].left /\ c.buf = call[t].buf

LEMMA InitMovesOn ==
  ASSUME SerialTypeOK, NEW t \in Thread, Init(t)
  PROVE  /\ MovesOn(t) /\ UNCHANGED <<sent, in, line, cut, reported>>
         /\ flushed' \/ UNCHANGED <<flushed, tty, out>>
<1>1. /\ call[t].at = "init" /\ UNCHANGED <<sent, in, line, cut, reported>>
      /\ flushed' \/ UNCHANGED <<flushed, tty, out>>
      /\ call' = [call EXCEPT ![t].at = "work"] \/ Return(t, -1)
  BY DEF Init
<1>2. CASE call' = [call EXCEPT ![t].at = "work"]
  <2>1. MovesOn(t)
    BY <1>1, <1>2, MovedOK, ZenonT(60) DEF MovesOn
  <2>2. QED
    BY <1>1, <2>1
<1>3. CASE Return(t, -1)
  BY <1>1, <1>3, GiveUpOK DEF MovesOn
<1>4. QED
  BY <1>1, <1>2, <1>3

LEMMA DeInitMovesOn ==
  ASSUME SerialTypeOK, NEW t \in Thread, DeInit(t) \/ Close(t) \/ Clear(t)
  PROVE  MovesOn(t) /\ UNCHANGED <<inVars, outVars, flushed>>
<1>1. /\ UNCHANGED <<inVars, outVars, flushed>>
      /\ \/ Return(t, -1)
         \/ call' = [call EXCEPT ![t].at = "close", ![t].fd = m_fd]
         \/ call' = [call EXCEPT ![t].at = "clear"]
  BY DEF DeInit, Close, Closed, Clear, fdVars
<1>2. CASE Return(t, -1)
  BY <1>1, <1>2, GiveUpOK DEF MovesOn
<1>3. CASE call' = [call EXCEPT ![t].at = "close", ![t].fd = m_fd]
  BY <1>1, <1>3, ClosingOK DEF MovesOn
<1>4. CASE call' = [call EXCEPT ![t].at = "clear"]
  BY <1>1, <1>4, MovedOK, ZenonT(60) DEF MovesOn
<1>5. QED
  BY <1>1, <1>2, <1>3, <1>4

LEMMA SelectMovesOn ==
  ASSUME SerialTypeOK, NEW t \in Thread, Select(t) \/ ReadPackage(t)
  PROVE  MovesOn(t) /\ UNCHANGED <<inVars, outVars, flushed>>
<1>1. /\ call[t].op # "Write" /\ call[t].at = "work"
      /\ UNCHANGED <<inVars, outVars, flushed>>
      /\ \/ call' = [call EXCEPT ![t].at = "read"]
         \/ Return(t, 0) \/ Return(t, -1) \/ Fail(t)
  BY DEF Select, ReadPackage, Found, At, fdVars
<1>2. CASE call' = [call EXCEPT ![t].at = "read"]
  BY <1>1, <1>2, MovedOK, ZenonT(60) DEF MovesOn
<1>3. CASE Return(t, 0)
  <2>1. 0 \in Int /\ call[t].op # "Write"
    BY <1>1
  <2>2. MovesOn(t)
    BY <1>3, <2>1, ReturnOK DEF MovesOn
  <2>3. QED
    BY <1>1, <2>2
<1>4. CASE Fail(t)
  <2>1. MovesOn(t)
    BY <1>4, FailOK DEF MovesOn
  <2>2. QED
    BY <1>1, <2>1
<1>5. CASE Return(t, -1)
  BY <1>1, <1>5, GiveUpOK DEF MovesOn
<1>6. QED
  BY <1>1, <1>2, <1>3, <1>4, <1>5

\* Read gets nothing, or the first cells of the tty.
GetsCells(t, n) ==
  /\ tty' = SubSeq(tty, n + 1, Len(tty))
  /\ \E c : /\ CallOK(c, t) /\ call' = [call EXCEPT ![t] = c]
            /\ c.op = call[t].op
            /\ c.buf = call[t].buf \o SubSeq(tty, 1, n)

LEMMA ReadIs ==
  ASSUME SerialTypeOK, NEW t \in Thread, Read(t)
  PROVE  /\ call[t].op = "Read" /\ UNCHANGED <<sent, in, outVars, flushed>>
         /\ \/ tty' = tty /\ MovesOn(t)
            \/ \E n \in 0..Len(tty) : GetsCells(t, n)
<1>1. /\ call[t].op = "Read" /\ call[t].at = "read"
      /\ UNCHANGED <<sent, in, outVars, flushed>>
      /\ tty \in Seq(Nat)
  BY DEF Read, At, fdVars, SerialTypeOK
<1>2. ASSUME tty' = tty, Return(t, 0) \/ Fail(t)
      PROVE  tty' = tty /\ MovesOn(t)
  <2>1. CASE Return(t, 0)
    <3>1. 0 \in Int /\ call[t].op # "Write"
      BY <1>1
    <3>2. QED
      BY <1>2, <2>1, <3>1, ReturnOK DEF MovesOn
  <2>2. CASE Fail(t)
    <3>1. MovesOn(t)
      BY <2>2, FailOK DEF MovesOn
    <3>2. QED
      BY <1>2, <3>1
  <2>3. QED
    BY <1>2, <2>1, <2>2
<1>3. ASSUME NEW n \in 1..iBufferSize, n <= Len(tty),
             tty' = SubSeq(tty, n + 1, Len(tty)),
             call' = [call EXCEPT ![t].buf = SubSeq(tty, 1, n),
                                  ![t].at = "done", ![t].ret = n]
      PROVE  \E m \in 0..Len(tty) : GetsCells(t, m)
  <2>1. n \in Nat /\ n \in 0..Len(tty)
    BY <1>3, SerialAssumption
  <2>2. SubSeq(tty, 1, n) \in Seq(Nat)
    BY <1>1, <1>3, <2>1, TakeCells
  <2> DEFINE got == SubSeq(tty, 1, n)
  <2>3. PICK c : /\ CallOK(c, t) /\ call' = [call EXCEPT ![t] = c]
                 /\ c.buf = got /\ c.op = "Read" /\ c.left = call[t].left
    <3>1. /\ call[t].op = "Read" /\ got \in Seq(Nat)
          /\ GotCells(t, got, n)
      BY <1>1, <1>3, <2>2 DEF GotCells
    <3> HIDE DEF got
    <3>2. QED
      BY <2>1, <3>1, ReadDoneOK
  <2>4. c.buf = call[t].buf \o SubSeq(tty, 1, n)
    <3>1. call[t].buf = <<>>
      BY <1>1 DEF SerialTypeOK, CallOK
    <3>2. QED
      BY <2>2, <2>3, <3>1, ConcatEmptySeq
  <2>5. GetsCells(t, n)
    BY <1>1, <1>3, <2>3, <2>4 DEF GetsCells
  <2>6. QED
    BY <2>1, <2>5
<1>4. QED
  BY <1>1, <1>2, <1>3 DEF Read

LEMMA ReadMoreGets ==
  ASSUME SerialTypeOK, NEW t \in Thread, ReadMore(t)
  PROVE  /\ call[t].op = "ReadPackage"
         /\ UNCHANGED <<sent, in, outVars, flushed>>
         /\ \E c : call' = [call EXCEPT ![t] = c] /\ c.op = "ReadPackage"
         /\ Expect # 0 => \E n \in 0..Len(tty) : GetsCells(t, n)
<1>1. /\ call[t].op = "ReadPackage"
      /\ UNCHANGED <<sent, in, outVars, flushed>>
  BY ReadMoreIs DEF fdVars
<1>2. PICK n \in 0..Len(tty) :
        LET buf == NextPlace(call[t].buf, SubSeq(tty, 1, n))
        IN  /\ Expect # 0 => buf = call[t].buf \o SubSeq(tty, 1, n)
            /\ tty' = SubSeq(tty, n + 1, Len(tty))
            /\ call' = [call EXCEPT ![t] = MoreRead(t, buf)]
            /\ CallOK(MoreRead(t, buf), t)
            /\ MoreRead(t, buf).buf = buf
            /\ MoreRead(t, buf).op = "ReadPackage"
  BY ReadMoreIs
<1>3. Expect # 0 => GetsCells(t, n)
  BY <1>1, <1>2 DEF GetsCells
<1>4. QED
  BY <1>1, <1>2, <1>3

-----------------------------------------------------------------------------
(* Remainders: less than w added to a multiple of w, and w itself.         *)

LEMMA NoMultiple ==
  ASSUME NEW w \in Nat \ {0}, NEW d \in Int, NEW x \in Int,
         x = w * d, -w < x, x < w
  PROVE  d = 0
<1>1. CASE d >= 1
  <2>1. w * d >= w
    BY <1>1
  <2>2. QED
    BY <2>1
<1>2. CASE d <= -1
  <2>1. w * d <= -w
    BY <1>2
  <2>2. QED
    BY <2>1
<1>3. QED
  BY <1>1, <1>2

LEMMA ModAdds ==
  ASSUME NEW w \in Nat \ {0}, NEW a \in Nat, a % w = 0, NEW r \in 0..(w - 1)
  PROVE  (a + r) % w = r
<1> DEFINE q == a \div w
           p == (a + r) \div w
           m == (a + r) % w
<1>1. q \in Int /\ a = w * q
  OBVIOUS
<1>2. p \in Int /\ m \in 0..(w - 1) /\ a + r = w * p + m
  OBVIOUS
<1> HIDE DEF q, p, m
<1>3. w * (p - q) = r - m
  <2>1. w * (p - q) = w * p - w * q
    BY <1>1, <1>2
  <2>2. QED
    BY <1>1, <1>2, <2>1
<1>4. -w < r - m /\ r - m < w
  BY <1>2
<1>5. p - q \in Int /\ r - m \in Int
  BY <1>1, <1>2
<1>6. p - q = 0
  BY <1>3, <1>4, <1>5, NoMultiple
<1>7. w * (p - q) = 0
  BY <1>6
<1>8. m = r
  BY <1>2, <1>3, <1>7
<1>9. QED
  BY <1>8 DEF m

LEMMA ModAddsAll ==
  ASSUME NEW w \in Nat \ {0}, NEW a \in Nat, a % w = 0
  PROVE  (a + w) % w = 0
<1> DEFINE q == a \div w
           p == (a + w) \div w
           m == (a + w) % w
<1>1. q \in Int /\ a = w * q
  OBVIOUS
<1>2. p \in Int /\ m \in 0..(w - 1) /\ a + w = w * p + m
  OBVIOUS
<1> HIDE DEF q, p, m
<1>3. w * (p - q - 1) = 0 - m
  <2>1. w * (p - q - 1) = w * p - w * q - w
    BY <1>1, <1>2
  <2>2. QED
    BY <1>1, <1>2, <2>1
<1>5. p - q - 1 \in Int /\ 0 - m \in Int /\ -w < 0 - m /\ 0 - m < w
  BY <1>1, <1>2
<1>6. p - q - 1 = 0
  BY <1>3, <1>5, NoMultiple
<1>7. w * (p - q - 1) = 0
  BY <1>6
<1>8. m = 0
  BY <1>2, <1>3, <1>7
<1>9. QED
  BY <1>8 DEF m

-----------------------------------------------------------------------------
(* A call of Write that has written a part of its data.                    *)

Part(c) == c.op = "Write" /\ c.left < WSize

Garbled == \/ reported \/ cut \/ flushed
           \/ \E t \in Thread : Part(call[t])

LEMMA GarbledIs == GarbledIsReported <=> Whole(line \o out) \/ Garbled
  BY DEF GarbledIsReported, Garbled, Part

\* A step of t that is not the end of a part of a message.
LEMMA GarbledKept ==
  ASSUME SerialTypeOK, Garbled, NEW t \in Thread, NEW c,
         call' = [call EXCEPT ![t] = c], Part(call[t]) => Part(c),
         reported => reported', cut => cut', flushed => flushed'
  PROVE  Garbled'
<1>1. call \in [Thread -> CallType]
  BY DEF SerialTypeOK
<1>2. ASSUME NEW u \in Thread, Part(call[u])
      PROVE  Part(call'[u])
  BY <1>1, <1>2
<1>3. QED
  BY <1>2 DEF Garbled

LEMMA MessageIsLast ==
  ASSUME NEW s \in Seq(Nat), Whole(s)
  PROVE  Whole(s \o Message)
<1>1. WSize \in Nat \ {0} /\ Len(s) \in Nat
  BY SerialAssumption
<1>2. Message \in Seq(Nat) /\ Len(Message) = WSize
  BY MessageType
<1>3. Len(s \o Message) = Len(s) + WSize
  BY <1>2, ConcatProperties
<1>4. Len(s) % WSize = 0
  BY DEF Whole
<1>5. (Len(s) + WSize) % WSize = 0
  BY <1>1, <1>4, ModAddsAll
<1>6. ASSUME NEW k \in 1..(Len(s) + WSize)
      PROVE  (s \o Message)[k] = ((k - 1) % WSize) + 1
  <2>1. CASE k <= Len(s)
    <3>1. (s \o Message)[k] = s[k]
      BY <1>1, <1>2, <2>1, ConcatProperties
    <3>2. QED
      BY <1>1, <2>1, <3>1 DEF Whole
  <2>2. CASE k > Len(s)
    <3> DEFINE j == k - Len(s)
    <3>1. j \in 1..WSize /\ j - 1 \in 0..(WSize - 1) /\ k - 1 = Len(s) + (j - 1)
      BY <1>1, <2>2
    <3>2. (s \o Message)[k] = Message[j]
      BY <1>1, <1>2, <2>2, ConcatProperties
    <3>3. Message[j] = j
      BY <3>1 DEF Message
    <3>4. (Len(s) + (j - 1)) % WSize = j - 1
      BY <1>1, <1>4, <3>1, ModAdds
    <3>5. QED
      BY <3>1, <3>2, <3>3, <3>4
  <2>3. k <= Len(s) \/ k > Len(s)
    BY <1>1
  <2>4. QED
    BY <2>1, <2>2, <2>3
<1>7. QED
  BY <1>3, <1>5, <1>6 DEF Whole

\* A call that moves on leaves a garbled line garbled.
LEMMA GarbledMovesOn ==
  ASSUME SerialTypeOK, Garbled, NEW t \in Thread, MovesOn(t),
         UNCHANGED <<reported, cut>>, flushed => flushed'
  PROVE  Garbled'
<1>1. PICK c : /\ CallOK(c, t) /\ call' = [call EXCEPT ![t] = c]
               /\ c.op = call[t].op /\ c.left = call[t].left
  BY DEF MovesOn
<1>2. QED
  BY <1>1, GarbledKept DEF Part

LEMMA GarbledWrite ==
  ASSUME SerialTypeOK, GarbledIsReported, NEW t \in Thread, Write(t)
  PROVE  GarbledIsReported'
<1>1. /\ call[t].op = "Write" /\ call[t].at = "work"
      /\ UNCHANGED <<line, reported, flushed>>
      /\ call \in [Thread -> CallType] /\ call[t].left \in 0..WSize
      /\ line \in Seq(Nat)
      /\ WSize \in Nat
  BY WriteIs, SerialAssumption DEF fdVars, SerialTypeOK, CallType
<1>2. CASE Fail(t) /\ UNCHANGED <<out, cut>>
  <2>1. MovesOn(t)
    BY <1>2, FailOK DEF MovesOn
  <2>2. Garbled => Garbled'
    BY <1>1, <1>2, <2>1, GarbledMovesOn
  <2>3. QED
    BY <1>1, <1>2, <2>2 DEF GarbledIsReported, Garbled, Part
<1>3. ASSUME NEW n \in 1..call[t].left, WriteDone(t, n),
             cut' = (cut \/ (out # <<>> /\ call[t].left = WSize)),
             out' = SubSeq(Message, 1, n)
      PROVE  GarbledIsReported'
  <2>1. MovesOn(t)
    <3>1. n \in Int /\ n \in {call[t].left, -1} /\ Return(t, n)
      BY <1>3 DEF WriteDone
    <3>2. QED
      BY <3>1, ReturnOK DEF MovesOn
  <2>2. PICK c : /\ call' = [call EXCEPT ![t] = c]
                 /\ c.op = call[t].op /\ c.left = call[t].left
    BY <2>1 DEF MovesOn
  <2>3. Garbled => Garbled'
    <3>1. cut => cut'
      BY <1>3
    <3>2. Part(call[t]) => Part(c)
      BY <2>2 DEF Part
    <3>3. QED
      BY <1>1, <2>2, <3>1, <3>2, GarbledKept
  <2>4. CASE call[t].left < WSize
    <3>1. Part(call'[t])
      BY <1>1, <2>2, <2>4 DEF Part
    <3>2. QED
      BY <3>1 DEF GarbledIsReported, Part
  <2>5. CASE call[t].left = WSize /\ out # <<>>
    BY <1>3, <2>5 DEF GarbledIsReported
  <2>6. CASE call[t].left = WSize /\ out = <<>>
    <3>1. n = WSize
      BY <1>3, <2>6 DEF WriteDone
    <3>2. out' = Message
      <4>1. Len(Message) = WSize /\ Message \in Seq(Nat)
        BY MessageType
      <4>2. QED
        BY <1>3, <3>1, <4>1, SubSeqFull
    <3>3. line \o out = line
      BY <1>1, <2>6, ConcatEmptySeq
    <3>4. CASE Whole(line \o out)
      <4>1. Whole(line \o Message)
        BY <1>1, <3>3, <3>4, MessageIsLast
      <4>2. QED
        BY <1>1, <3>2, <4>1 DEF GarbledIsReported
    <3>5. CASE Garbled
      BY <2>3, <3>5 DEF GarbledIsReported, Garbled, Part
    <3>6. QED
      BY <3>4, <3>5, GarbledIs
  <2>7. call[t].left < WSize \/ call[t].left = WSize
    BY <1>1
  <2>8. QED
    BY <2>4, <2>5, <2>6, <2>7
<1>4. ASSUME NEW n \in 1..call[t].left, WritePart(t, n)
      PROVE  GarbledIsReported'
  <2>1. call'[t].op = "Write" /\ call'[t].left = call[t].left - n
    BY <1>1, <1>4 DEF WritePart, CallType
  <2>2. call'[t].left < WSize
    BY <1>1, <2>1
  <2>3. QED
    BY <2>1, <2>2 DEF GarbledIsReported
<1>5. QED
  BY <1>2, <1>3, <1>4, WriteIs

LEMMA GarbledEnd ==
  ASSUME SerialTypeOK, GarbledIsReported, NEW t \in Thread, End(t)
  PROVE  GarbledIsReported'
<1>1. /\ call[t].at = "done" /\ call' = [call EXCEPT ![t] = Idle]
      /\ reported' = (reported \/ (call[t].op = "Write" /\ call[t].ret # WSize))
      /\ UNCHANGED <<line, out, cut, flushed>>
  BY DEF End, fdVars
<1>2. CASE Part(call[t])
  <2>1. call[t].ret \in {call[t].left, -1} /\ call[t].left < WSize
    BY <1>1, <1>2 DEF SerialTypeOK, CallOK, Part
  <2>2. call[t].ret # WSize
    BY <2>1, SerialAssumption DEF SerialTypeOK, CallType
  <2>3. reported'
    BY <1>1, <1>2, <2>2 DEF Part
  <2>4. QED
    BY <2>3 DEF GarbledIsReported
<1>3. CASE ~Part(call[t])
  <2>1. Garbled => Garbled'
    <3>1. reported => reported'
      BY <1>1
    <3>2. QED
      BY <1>1, <1>3, <3>1, GarbledKept
  <2>2. QED
    BY <1>1, <2>1 DEF GarbledIsReported, Garbled, Part
<1>4. QED
  BY <1>2, <1>3

LEMMA GarbledRead ==
  ASSUME SerialTypeOK, GarbledIsReported, NEW t \in Thread,
         Select(t) \/ Read(t) \/ ReadPackage(t) \/ ReadMore(t)
  PROVE  GarbledIsReported'
<1>1. call[t].op # "Write" /\ UNCHANGED <<outVars, flushed>>
  BY DEF Select, Read, ReadPackage, ReadMore, At, fdVars
<1>2. PICK c : call' = [call EXCEPT ![t] = c]
  <2>1. CASE Read(t)
    BY <2>1, ReadIs DEF MovesOn, GetsCells
  <2>2. CASE Select(t) \/ ReadPackage(t)
    BY <2>2, SelectMovesOn DEF MovesOn
  <2>3. CASE ReadMore(t)
    BY <2>3, ReadMoreGets
  <2>4. QED
    BY <2>1, <2>2, <2>3
<1>3. Garbled => Garbled'
  BY <1>1, <1>2, GarbledKept DEF Part, outVars
<1>4. QED
  BY <1>1, <1>3 DEF GarbledIsReported, Garbled, Part, outVars

LEMMA TransmitKeeps ==
  ASSUME SerialTypeOK, Transmit
  PROVE  line' \o out' = line \o out
<1>1. /\ out # <<>> /\ out \in Seq(Nat) /\ line \in Seq(Nat)
      /\ line' = Append(line, Head(out)) /\ out' = Tail(out)
  BY DEF Transmit, SerialTypeOK
<1>2. /\ Head(out) \in Nat /\ Tail(out) \in Seq(Nat)
      /\ out = <<Head(out)>> \o Tail(out)
  BY <1>1, HeadTailProperties, ConcatProperties
<1>3. line' = line \o <<Head(out)>> /\ <<Head(out)>> \in Seq(Nat)
  BY <1>1, <1>2, AppendIsConcat
<1>4. (line \o <<Head(out)>>) \o Tail(out)
        = line \o (<<Head(out)>> \o Tail(out))
  BY <1>1, <1>2, <1>3, ConcatAssociative
<1>5. QED
  BY <1>1, <1>2, <1>3, <1>4

LEMMA GarbledStep ==
  ASSUME SerialTypeOK, GarbledIsReported, [SerialNext]_serialVars
  PROVE  GarbledIsReported'
<1> USE DEF GarbledIsReported
<1>1. CASE UNCHANGED serialVars
  BY <1>1 DEF serialVars, fdVars, outVars
<1>2. CASE DeviceSend \/ Plug
  BY <1>2 DEF DeviceSend, Plug, fdVars, outVars
<1>3. CASE Transmit
  <2>1. UNCHANGED <<call, reported, cut, flushed>>
    BY <1>3 DEF Transmit, fdVars
  <2>2. QED
    BY <1>3, <2>1, TransmitKeeps
<1>4. CASE Unplug
  BY <1>4 DEF Unplug
<1>5. ASSUME NEW t \in Thread, NEW op \in Calls[t], Begin(t, op)
      PROVE  GarbledIsReported'
  <2> DEFINE c == [op |-> op, at |-> IF m_fd = 0 THEN "init" ELSE "work",
                   left |-> WSize, buf |-> <<>>, cnt |-> MinCnt, ret |-> 0,
                   fd |-> 0]
  <2>1. /\ call' = [call EXCEPT ![t] = c] /\ call[t] = Idle
        /\ UNCHANGED <<line, out, reported, cut, flushed>>
    BY <1>5 DEF Begin, fdVars
  <2>2. ~Part(call[t])
    BY <2>1 DEF Part, Idle
  <2> HIDE DEF c
  <2>3. Garbled => Garbled'
    BY <2>1, <2>2, GarbledKept
  <2>4. QED
    BY <2>1, <2>3 DEF Garbled, Part
<1>6. ASSUME NEW t \in Thread,
             Init(t) \/ DeInit(t) \/ Close(t) \/ Clear(t)
      PROVE  GarbledIsReported'
  <2>1. /\ MovesOn(t) /\ UNCHANGED <<line, reported, cut>>
        /\ flushed' \/ UNCHANGED <<flushed, out>>
    BY <1>6, InitMovesOn, DeInitMovesOn DEF outVars
  <2>2. Garbled => Garbled'
    BY <2>1, GarbledMovesOn
  <2>3. QED
    BY <2>1, <2>2 DEF Garbled, Part
<1>7. QED
  BY <1>1, <1>2, <1>3, <1>4, <1>5, <1>6, GarbledWrite, GarbledRead, GarbledEnd
  DEF SerialNext

LEMMA GarbledInit == SerialInit => GarbledIsReported
<1> SUFFICES ASSUME SerialInit PROVE Whole(line \o out)
  BY DEF GarbledIsReported
<1>1. line \o out = <<>> /\ Len(<<>>) = 0
  BY EmptySeq, ConcatEmptySeq DEF SerialInit
<1>2. 0 % WSize = 0
  BY SerialAssumption
<1>3. QED
  BY <1>1, <1>2 DEF Whole

-----------------------------------------------------------------------------
(* SerialPort: what is read.                                               *)

Stream(n) == [k \in 1..n |-> k]

\* Thread t reads alone, and the device has stayed.
ReadsAlone(t) == t \in Thread /\ Reader = {t} /\ ~flushed /\ Expect # 0

StreamIsRead(t) == in \o call[t].buf \o tty = Stream(sent)

LEMMA ReadsAre ==
  ReadsAreTheStream <=> \A t \in Thread : ReadsAlone(t) => StreamIsRead(t)
  BY DEF ReadsAreTheStream, ReadsAlone, StreamIsRead, Stream, Reader

\* Whoever does not read holds no cells.
LEMMA NoCells ==
  ASSUME SerialTypeOK, NEW t, ReadsAlone(t), NEW u \in Thread, u # t
  PROVE  call[u].buf = <<>> /\ call[u].op \in {"none", "Write"}
<1>1. u \notin Reader
  BY DEF ReadsAlone
<1>2. Calls[u] \subseteq {"Write"}
  BY <1>1, SerialAssumption DEF Reader
<1>3. QED
  BY <1>2 DEF SerialTypeOK, CallOK

\* A step that takes no cells, and leaves the buffer of t as it is.
LEMMA StreamKept ==
  ASSUME NEW t, StreamIsRead(t), UNCHANGED <<in, tty, sent>>,
         call'[t].buf = call[t].buf
  PROVE  StreamIsRead(t)'
  BY DEF StreamIsRead

LEMMA StreamMovesOn ==
  ASSUME SerialTypeOK, NEW t \in Thread, StreamIsRead(t),
         NEW u \in Thread, MovesOn(u), UNCHANGED <<in, tty, sent>>
  PROVE  StreamIsRead(t)'
<1>1. call \in [Thread -> CallType]
  BY DEF SerialTypeOK
<1>2. PICK c : call' = [call EXCEPT ![u] = c] /\ c.buf = call[u].buf
  BY DEF MovesOn
<1>3. call'[t].buf = call[t].buf
  BY <1>1, <1>2
<1>4. QED
  BY <1>3, StreamKept

LEMMA Regroup ==
  \A x, y, z \in Seq(Nat) : (x \o y) \o z = x \o (y \o z)
<1> TAKE x, y, z \in Seq(Nat)
<1>1. x \in Seq(Nat) /\ y \in Seq(Nat) /\ z \in Seq(Nat)
  OBVIOUS
<1>2. QED
  BY <1>1, ConcatAssociative, SMTT(40)

LEMMA StreamGets ==
  ASSUME SerialTypeOK, NEW t \in Thread, StreamIsRead(t),
         NEW n \in 0..Len(tty), GetsCells(t, n), UNCHANGED <<in, sent>>
  PROVE  StreamIsRead(t)'
<1> DEFINE got  == SubSeq(tty, 1, n)
           rest == SubSeq(tty, n + 1, Len(tty))
           held == call[t].buf
<1>1. tty \in Seq(Nat) /\ in \in Seq(Nat) /\ held \in Seq(Nat)
  BY DEF SerialTypeOK, CallType
<1>2. got \in Seq(Nat) /\ rest \in Seq(Nat) /\ got \o rest = tty
  <2>1. n \in Nat /\ n <= Len(tty)
    BY <1>1
  <2>2. QED
    BY <1>1, <2>1, TakeCells
<1>3. call'[t].buf = held \o got /\ tty' = rest
  BY DEF GetsCells, SerialTypeOK
<1> HIDE DEF got, rest, held
<1>4. (in \o (held \o got)) \o rest = (in \o held) \o tty
  <2>1. in \o held \in Seq(Nat)
    BY <1>1, ConcatProperties
  <2>2. in \o (held \o got) = (in \o held) \o got
    BY <1>1, <1>2, Regroup, ZenonT(60)
  <2>3. ((in \o held) \o got) \o rest = (in \o held) \o (got \o rest)
    BY <1>2, <2>1, Regroup
  <2>4. QED
    BY <1>2, <2>2, <2>3
<1>5. (in \o held) \o tty = Stream(sent)
  BY DEF StreamIsRead, held
<1>6. QED
  BY <1>3, <1>4, <1>5 DEF StreamIsRead

LEMMA StreamSent ==
  ASSUME SerialTypeOK, NEW t \in Thread, StreamIsRead(t), DeviceSend
  PROVE  StreamIsRead(t)'
<1> DEFINE got == in \o call[t].buf
<1>1. tty \in Seq(Nat) /\ got \in Seq(Nat) /\ sent + 1 \in Nat
  BY DEF SerialTypeOK, CallType
<1>2. got' = got /\ tty' = Append(tty, sent + 1) /\ sent' = sent + 1
  BY DEF DeviceSend
<1>3. got \o tty = Stream(sent)
  BY DEF StreamIsRead
<1> HIDE DEF got
<1>4. got \o Append(tty, sent + 1) = Append(got \o tty, sent + 1)
  <2>1. Append(tty, sent + 1) = tty \o <<sent + 1>> /\ <<sent + 1>> \in Seq(Nat)
    BY <1>1, AppendIsConcat
  <2>2. got \o tty \in Seq(Nat)
    BY <1>1, ConcatProperties
  <2>3. Append(got \o tty, sent + 1) = (got \o tty) \o <<sent + 1>>
    BY <1>1, <2>2, AppendIsConcat
  <2>4. (got \o tty) \o <<sent + 1>> = got \o (tty \o <<sent + 1>>)
    BY <1>1, <2>1, Regroup, ZenonT(60)
  <2>5. QED
    BY <2>1, <2>3, <2>4
<1>5. Append(Stream(sent), sent + 1) = Stream(sent + 1)
  BY DEF Stream, SerialTypeOK
<1>6. (got \o tty)' = Stream(sent + 1)
  BY <1>2, <1>3, <1>4, <1>5
<1>7. QED
  BY <1>2, <1>6 DEF StreamIsRead, got

LEMMA StreamEnds ==
  ASSUME SerialTypeOK, NEW t \in Thread, ReadsAlone(t), StreamIsRead(t),
         NEW u \in Thread, End(u)
  PROVE  StreamIsRead(t)'
<1>1. /\ call' = [call EXCEPT ![u] = Idle] /\ in' = in \o call[u].buf
      /\ UNCHANGED <<tty, sent>>
  BY DEF End
<1>2. /\ call \in [Thread -> CallType]
      /\ in \in Seq(Nat) /\ call[t].buf \in Seq(Nat)
  BY DEF SerialTypeOK, CallType
<1>3. CASE u = t
  <2>1. call'[t].buf = <<>>
    BY <1>1, <1>2, <1>3 DEF Idle
  <2>2. in' \in Seq(Nat)
    BY <1>1, <1>2, <1>3, ConcatProperties
  <2>3. in' \o call'[t].buf = in \o call[t].buf
    BY <1>1, <1>3, <2>1, <2>2, ConcatEmptySeq
  <2>4. QED
    BY <1>1, <2>3 DEF StreamIsRead
<1>4. CASE u # t
  <2>1. in' = in
    BY <1>1, <1>2, <1>4, NoCells, ConcatEmptySeq
  <2>2. call'[t] = call[t]
    BY <1>1, <1>2, <1>4
  <2>3. QED
    BY <1>1, <2>1, <2>2, StreamKept
<1>5. QED
  BY <1>3, <1>4

LEMMA StreamStep ==
  ASSUME SerialTypeOK, NEW t \in Thread, ReadsAlone(t)', SerialNext,
         ReadsAlone(t) => StreamIsRead(t)
  PROVE  StreamIsRead(t)'
<1>1. ReadsAlone(t) /\ StreamIsRead(t)
  <2>1. flushed => flushed'
    BY DEF SerialNext, fdVars, DeviceSend, Transmit, Unplug, Plug, Begin, Init,
       DeInit, Close, Clear, Write, Select, Read, ReadPackage, ReadMore, End
  <2>2. QED
    BY <2>1 DEF ReadsAlone, Reader
<1>2. CASE DeviceSend
  BY <1>1, <1>2, StreamSent
<1>3. CASE Transmit \/ Plug
  BY <1>1, <1>3, StreamKept DEF Transmit, Plug, inVars
<1>4. CASE Unplug
  BY <1>4 DEF Unplug, ReadsAlone
<1>5. ASSUME NEW u \in Thread, NEW op \in Calls[u], Begin(u, op)
      PROVE  StreamIsRead(t)'
  <2>1. /\ call[u] = Idle /\ UNCHANGED <<in, tty, sent>>
        /\ call' = [call EXCEPT ![u] =
             [op |-> op, at |-> IF m_fd = 0 THEN "init" ELSE "work",
              left |-> WSize, buf |-> <<>>, cnt |-> MinCnt, ret |-> 0,
              fd |-> 0]]
    BY <1>5 DEF Begin, inVars
  <2>2. call'[t].buf = call[t].buf
    BY <2>1 DEF SerialTypeOK, Idle
  <2>3. QED
    BY <1>1, <2>1, <2>2, StreamKept
<1>6. ASSUME NEW u \in Thread, Init(u)
      PROVE  StreamIsRead(t)'
  <2>1. MovesOn(u) /\ UNCHANGED <<in, tty, sent>>
    BY <1>6, InitMovesOn DEF ReadsAlone
  <2>2. QED
    BY <1>1, <2>1, StreamMovesOn
<1>7. ASSUME NEW u \in Thread,
             DeInit(u) \/ Close(u) \/ Clear(u) \/ Select(u) \/ ReadPackage(u)
      PROVE  StreamIsRead(t)'
  <2>1. MovesOn(u) /\ UNCHANGED <<in, tty, sent>>
    BY <1>7, DeInitMovesOn, SelectMovesOn DEF inVars
  <2>2. QED
    BY <1>1, <2>1, StreamMovesOn
<1>8. ASSUME NEW u \in Thread, Write(u)
      PROVE  StreamIsRead(t)'
  <2>1. UNCHANGED <<in, tty, sent>>
    BY <1>8, WriteIs DEF inVars
  <2>2. call'[t].buf = call[t].buf
    <3>1. \/ \E ret : Return(u, ret)
          \/ \E n : WritePart(u, n)
          \/ Fail(u)
      BY <1>8, WriteIs DEF WriteDone
    <3>2. call \in [Thread -> CallType]
      BY DEF SerialTypeOK
    <3>3. ASSUME NEW ret, Return(u, ret)
          PROVE  call'[t].buf = call[t].buf
      BY <3>2, <3>3 DEF Return, CallType
    <3>4. ASSUME NEW n, WritePart(u, n)
          PROVE  call'[t].buf = call[t].buf
      BY <3>2, <3>4 DEF WritePart, CallType
    <3>5. CASE Fail(u)
      BY <3>2, <3>5 DEF Fail, CallType
    <3>6. QED
      BY <3>1, <3>3, <3>4, <3>5
  <2>3. QED
    BY <1>1, <2>1, <2>2, StreamKept
<1>9. ASSUME NEW u \in Thread, Read(u) \/ ReadMore(u)
      PROVE  StreamIsRead(t)'
  <2>1. u = t
    <3>1. call[u].op \in {"Read", "ReadPackage"}
      BY <1>9 DEF Read, ReadMore, At
    <3>2. QED
      BY <1>1, <3>1, NoCells
  <2>2. CASE tty' = tty /\ in' = in /\ sent' = sent /\ MovesOn(u)
    BY <1>1, <2>2, StreamMovesOn
  <2>3. CASE /\ UNCHANGED <<in, sent>>
             /\ \E n \in 0..Len(tty) : GetsCells(u, n)
    BY <1>1, <2>1, <2>3, StreamGets
  <2>4. CASE Read(u)
    BY <2>2, <2>3, <2>4, ReadIs
  <2>5. CASE ReadMore(u)
    BY <1>1, <2>3, <2>5, ReadMoreGets DEF ReadsAlone
  <2>6. QED
    BY <1>9, <2>4, <2>5
<1>10. ASSUME NEW u \in Thread, End(u)
       PROVE  StreamIsRead(t)'
  BY <1>1, <1>10, StreamEnds
<1>11. QED
  BY <1>2, <1>3, <1>4, <1>5, <1>6, <1>7, <1>8, <1>9, <1>10 DEF SerialNext

LEMMA ReadsStep ==
  ASSUME SerialTypeOK, ReadsAreTheStream, [SerialNext]_serialVars
  PROVE  ReadsAreTheStream'
<1>1. CASE UNCHANGED serialVars
  BY <1>1 DEF serialVars, fdVars, inVars, ReadsAreTheStream, Reader
<1>2. CASE SerialNext
  <2>1. \A t \in Thread : ReadsAlone(t) => StreamIsRead(t)
    BY ReadsAre
  <2>2. \A t \in Thread : ReadsAlone(t)' => StreamIsRead(t)'
    BY <1>2, <2>1, StreamStep
  <2>3. QED
    BY <2>2 DEF ReadsAreTheStream, ReadsAlone, StreamIsRead, Stream, Reader
<1>3. QED
  BY <1>1, <1>2

LEMMA ReadsInit == SerialInit => ReadsAreTheStream
<1> SUFFICES ASSUME SerialInit, NEW t \in Thread
             PROVE  StreamIsRead(t)
  BY ReadsAre
<1>1. in = <<>> /\ call[t].buf = <<>> /\ tty = <<>> /\ sent = 0
  BY DEF SerialInit, Idle
<1>2. <<>> \o <<>> \o <<>> = <<>>
  BY EmptySeq, ConcatEmptySeq
<1>3. Stream(0) = <<>>
  BY DEF Stream
<1>4. QED
  BY <1>1, <1>2, <1>3 DEF StreamIsRead

(* The invariant of the serial port.                                       *)
SerialInv == /\ SerialTypeOK /\ DescriptorInv
             /\ GarbledIsReported /\ ReadsAreTheStream

(* The state of the port is what its declarations say, a call of Write     *)
(* that is done answers what it still had to write, the descriptors are    *)
(* accounted for, and so is what is written and read.                      *)
THEOREM SerialInvariant == SerialSpec => []SerialInv
<1>1. SerialInit => SerialInv
  BY SerialTypeInit, DescriptorInit, GarbledInit, ReadsInit DEF SerialInv
<1>2. SerialInv /\ [SerialNext]_serialVars => SerialInv'
  BY SerialTypeStep, DescriptorStep, GarbledStep, ReadsStep DEF SerialInv
<1>3. QED
  BY <1>1, <1>2, PTL DEF SerialSpec

(* The descriptor in use is open, or closed and about to be forgotten, and *)
(* it is the only one, unless a thread was about to open, close or forget  *)
(* it while another did so: however many threads share the port and        *)
(* whenever the device is unplugged.                                       *)
THEOREM DescriptorsNeverLost == SerialSpec => []NoDescriptorLost
<1>1. SerialInv => NoDescriptorLost
  BY DEF SerialInv, DescriptorInv, NoDescriptorLost
<1>2. QED
  BY <1>1, SerialInvariant, PTL

(* Write's loop begins at the start of the data again after each part: the *)
(* device gets something else than whole messages only if a call has       *)
(* answered, or will answer, something else than the size it was given, or *)
(* has flushed another's data away, or the device was gone.                *)
THEOREM GarbledAlwaysReported == SerialSpec => []GarbledIsReported
<1>1. SerialInv => GarbledIsReported
  BY DEF SerialInv
<1>2. QED
  BY <1>1, SerialInvariant, PTL

(* While the device stays, the only thread that reads gets every cell in   *)
(* order from Read and ReadPackage, whatever pieces they come in.          *)
THEOREM ReadsAlwaysTheStream == SerialSpec => []ReadsAreTheStream
<1>1. SerialInv => ReadsAreTheStream
  BY DEF SerialInv
<1>2. QED
  BY <1>1, SerialInvariant, PTL
=============================================================================
