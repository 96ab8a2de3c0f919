----------------------------- MODULE Ls01aDriver -----------------------------
(* The lidar driver, lidardata_pub/Ls01aDriver: a reading thread appends   *)
(* what the serial port delivers to m_vecBuffer, a sending thread cuts     *)
(* scans out of it and publishes them, and the user starts and stops the   *)
(* lidar.  Both the user's thread and the reading thread send commands.    *)
(*                                                                         *)
(* The port is what SerialPort.tla says of it: a read yields the next      *)
(* cells, nothing, or an error, and a command may get lost.                *)
(*                                                                         *)
(* The unit is a cell: a scan is a ScanStartAck, its points and a          *)
(* ScanEndAck of one cell each; its points are its number.                 *)
EXTENDS Integers, Sequences

CONSTANTS
  Noise,      \* cells that belong to no scan
  MaxScans,   \* bound: scans the lidar sends
  MaxNoise,   \* bound: cells of noise it sends
  MaxErrors,  \* bound: reads that fail
  MaxOps,     \* bound: calls of Start and Stop
  ErrLimit,   \* the 3 of ReadLidarData
  Limit,      \* the 8192 of ReadLidarData
  BufferSize  \* cBufferSize

ASSUME DriverAssumption ==
  /\ MaxScans \in Nat /\ MaxNoise \in Nat /\ MaxErrors \in Nat /\ MaxOps \in Nat
  /\ Noise \subseteq Int
  /\ ErrLimit \in Nat /\ Limit \in Nat \ {0} /\ BufferSize \in Nat \ {0}

VARIABLES
  m_runFlag, m_scanFlag, m_vecBuffer,
  client,      \* m_sp_EvClient is set
  wire,        \* in the tty, not yet read
  lidar,       \* the last command that reached the lidar
  scans, noises, errors, ops,   \* what has been sent, failed and called so far
  reader,      \* the reading thread: where it is
  errcnt, chunk,
  sender,      \* the sending thread: where it is; with m_mutex at "parse"
  i, temp,
  user,        \* the user's thread: where it is
  late,        \* history: commands of the reader since the last Stop began
  stopped,     \* history: the last Stop has reached the lidar, no Start since
  gap,         \* history: something the lidar sent has been thrown away
  pub          \* history: the scans published

lidarVars  == <<wire, lidar, scans, noises, errors>>
flagVars   == <<m_runFlag, m_scanFlag, client>>
readerVars == <<reader, errcnt, chunk>>
senderVars == <<sender, i, temp, pub>>
userVars   == <<user, ops, stopped>>
driverVars == <<lidarVars, flagVars, readerVars, senderVars, userVars,
                m_vecBuffer, late, gap>>

StartAck == -1
EndAck   == -2

\* A scan of the lidar, and what LidarData::IsValid says of so many cells.
Scan(n) == <<StartAck, n, EndAck>>
NeedRead == 3
\* Mutated form: the end is not looked at.
IsValidStart(cells) == cells[1] = StartAck
IsValid(cells) == cells[1] = StartAck /\ cells[3] = EndAck

DriverInit ==
  /\ m_runFlag = TRUE /\ m_scanFlag = FALSE /\ m_vecBuffer = <<>>
  /\ client = FALSE
  /\ wire = <<>> /\ lidar = "none" /\ scans = 0 /\ noises = 0 /\ errors = 0
  /\ reader = "begin" /\ errcnt = 0 /\ chunk = <<>>
  /\ sender = "top" /\ i = 0 /\ temp = <<>> /\ pub = <<>>
  /\ user = "idle" /\ ops = 0 /\ stopped = FALSE
  /\ late = 0 /\ gap = FALSE

-----------------------------------------------------------------------------
(* The lidar.                                                              *)

\* It sends whole scans unless it has been stopped.
LidarScan ==
  /\ lidar # "stop" /\ scans < MaxScans
  /\ scans' = scans + 1 /\ wire' = wire \o Scan(scans + 1)
  /\ UNCHANGED <<lidar, noises, errors, flagVars, readerVars, senderVars, userVars,
                 m_vecBuffer, late, gap>>

LidarNoise(c) ==
  /\ noises < MaxNoise
  /\ noises' = noises + 1 /\ wire' = Append(wire, c)
  /\ UNCHANGED <<lidar, scans, errors, flagVars, readerVars, senderVars, userVars,
                 m_vecBuffer, late, gap>>

\* SendCmd: the command reaches the lidar or is lost.
SendCmd(cmd) == lidar' \in {lidar, cmd}

-----------------------------------------------------------------------------
(* ReadLidarData.                                                          *)

\* The reader sends a command and goes on.
Command(from, cmd, to) ==
  /\ reader = from
  /\ SendCmd(cmd)
  /\ late' = IF m_scanFlag THEN late ELSE late + 1
  /\ reader' = to
  /\ UNCHANGED <<wire, scans, noises, errors, flagVars, chunk, senderVars,
                 userVars, m_vecBuffer, gap>>

\* Scan() is called once, whatever the flags say.
ReadLidarData == Command("begin", "scan", "top") /\ UNCHANGED errcnt

\* Mutated form: the reader does not look at m_scanFlag.
AnyTime == TRUE
Scanning == m_scanFlag

ReadTop ==
  /\ reader = "top" /\ (~m_runFlag \/ Scanning)
  /\ reader' = IF m_runFlag THEN "read" ELSE "done"
  /\ UNCHANGED <<lidarVars, flagVars, errcnt, chunk, senderVars, userVars,
                 m_vecBuffer, late, gap>>

ReadSome ==
  /\ reader = "read"
  /\ \E n \in 1..BufferSize :
       /\ n <= Len(wire)
       /\ chunk' = SubSeq(wire, 1, n)
       /\ wire' = SubSeq(wire, n + 1, Len(wire))
  /\ reader' = "append"
  /\ UNCHANGED <<lidar, scans, noises, errors, flagVars, errcnt, senderVars,
                 userVars, m_vecBuffer, late, gap>>

\* A second without data: errcnt is left alone.
ReadNothing ==
  /\ reader = "read" /\ wire = <<>>
  /\ reader' = "top"
  /\ UNCHANGED <<lidarVars, flagVars, errcnt, chunk, senderVars, userVars,
                 m_vecBuffer, late, gap>>

(* The port is closed; what the tty holds is lost when it is opened again. *)
ReadError ==
  /\ reader = "read" /\ errors < MaxErrors
  /\ errors' = errors + 1
  /\ wire' = <<>> /\ gap' = (gap \/ wire # <<>>)
  /\ reader' = IF errcnt > ErrLimit THEN "restop" ELSE "top"
  /\ errcnt' = errcnt + 1
  /\ UNCHANGED <<lidar, scans, noises, flagVars, chunk, senderVars, userVars,
                 m_vecBuffer, late>>

\* Mutated form: the buffer takes whatever comes.
AlwaysRoom(vec) == TRUE
HasRoom(vec) == Len(vec) < Limit

MutexFree == sender # "parse"

(* A buffer at its limit loses what has been read.  errcnt is cleared and  *)
(* counted up at the end of the turn.                                      *)
Insert ==
  /\ reader = "append" /\ MutexFree
  /\ IF HasRoom(m_vecBuffer)
     THEN m_vecBuffer' = m_vecBuffer \o chunk /\ UNCHANGED gap
     ELSE gap' = TRUE /\ UNCHANGED m_vecBuffer
  /\ chunk' = <<>> /\ errcnt' = 1 /\ reader' = "top"
  /\ UNCHANGED <<lidarVars, flagVars, senderVars, userVars, late>>

\* Too many errors: StopScan, StartScan, Scan.
Restart ==
  \/ Command("restop", "stop", "restart") /\ UNCHANGED errcnt
  \/ Command("restart", "start", "rescan") /\ UNCHANGED errcnt
  \/ Command("rescan", "scan", "top") /\ errcnt' = 0

-----------------------------------------------------------------------------
(* SendLidarData.                                                          *)

\* The flag is looked at, m_mutex is taken.
SendTop ==
  /\ sender = "top" /\ (~m_runFlag \/ m_scanFlag)
  /\ sender' = IF m_runFlag THEN "parse" ELSE "done"
  /\ UNCHANGED <<lidarVars, flagVars, readerVars, userVars, i, temp, pub,
                 m_vecBuffer, late, gap>>

\* The offsets of the loop at which ScanStartAck::IsValid holds.
Starts == {j \in i..(Len(m_vecBuffer) - 1) : m_vecBuffer[j + 1] = StartAck}

Least(S) == CHOOSE j \in S : \A k \in S : j <= k

\* Mutated form: the scan stays in the buffer.
EraseNothing(rest) == rest
EraseScan(rest) == SubSeq(rest, NeedRead + 1, Len(rest))

(* What comes before a start is erased; a whole scan behind it is taken.   *)
(* Otherwise the loop goes on where it was, although the cells have moved. *)
Parse ==
  /\ sender = "parse" /\ Starts # {}
  /\ LET j    == Least(Starts)
         rest == SubSeq(m_vecBuffer, j + 1, Len(m_vecBuffer))
         scan == SubSeq(rest, 1, NeedRead)
     IN  IF Len(rest) >= NeedRead /\ IsValid(scan)
         THEN /\ m_vecBuffer' = EraseScan(rest) /\ temp' = scan
              /\ sender' = "publish" /\ i' = 0
         ELSE /\ m_vecBuffer' = rest
              /\ i' = j + 1
              /\ UNCHANGED <<temp, sender>>
  /\ UNCHANGED <<lidarVars, flagVars, readerVars, userVars, pub, late, gap>>

ParseEnds ==
  /\ sender = "parse" /\ Starts = {}
  /\ sender' = "top" /\ i' = 0
  /\ UNCHANGED <<lidarVars, flagVars, readerVars, userVars, temp, pub,
                 m_vecBuffer, late, gap>>

\* Without a client the scan is dropped.
Publish ==
  /\ sender = "publish"
  /\ IF client THEN pub' = Append(pub, temp[2]) /\ UNCHANGED gap
               ELSE gap' = TRUE /\ UNCHANGED pub
  /\ sender' = "top" /\ temp' = <<>>
  /\ UNCHANGED <<lidarVars, flagVars, readerVars, userVars, i, m_vecBuffer,
                 late>>

-----------------------------------------------------------------------------
(* The user.                                                               *)

InitialEvClient ==
  /\ m_runFlag /\ user = "idle" /\ ~client
  /\ client' = TRUE
  /\ UNCHANGED <<lidarVars, m_runFlag, m_scanFlag, readerVars, senderVars,
                 userVars, m_vecBuffer, late, gap>>

Start ==
  /\ m_runFlag /\ user = "idle" /\ ops < MaxOps
  /\ ops' = ops + 1
  /\ SendCmd("start") /\ stopped' = FALSE /\ user' = "start"
  /\ UNCHANGED <<wire, scans, noises, errors, flagVars, readerVars, senderVars,
                 m_vecBuffer, late, gap>>

SetScanFlag ==
  /\ user = "start"
  /\ m_scanFlag' = TRUE /\ user' = "idle"
  /\ UNCHANGED <<lidarVars, m_runFlag, client, readerVars, senderVars, ops,
                 stopped, m_vecBuffer, late, gap>>

Stop ==
  /\ m_runFlag /\ user = "idle" /\ ops < MaxOps
  /\ ops' = ops + 1
  /\ m_scanFlag' = FALSE /\ user' = "stop"
  /\ late' = 0 /\ stopped' = FALSE
  /\ UNCHANGED <<lidarVars, m_runFlag, client, readerVars, senderVars,
                 m_vecBuffer, gap>>

StopScan ==
  /\ user = "stop"
  /\ SendCmd("stop") /\ stopped' = (lidar' = "stop") /\ user' = "idle"
  /\ UNCHANGED <<wire, scans, noises, errors, flagVars, readerVars, senderVars,
                 ops, m_vecBuffer, late, gap>>

\* The destructor; it then joins both threads.
Destroy ==
  /\ m_runFlag /\ user = "idle"
  /\ m_runFlag' = FALSE /\ user' = "join"
  /\ UNCHANGED <<lidarVars, m_scanFlag, client, readerVars, senderVars, ops,
                 stopped, m_vecBuffer, late, gap>>

-----------------------------------------------------------------------------

LidarNext == LidarScan \/ \E c \in Noise : LidarNoise(c)

ReaderNext ==
  ReadLidarData \/ ReadTop \/ ReadSome \/ ReadNothing \/ ReadError
    \/ Insert \/ Restart

SenderNext == SendTop \/ Parse \/ ParseEnds \/ Publish

UserNext ==
  InitialEvClient \/ Start \/ SetScanFlag \/ Stop \/ StopScan \/ Destroy

DriverNext == LidarNext \/ ReaderNext \/ SenderNext \/ UserNext

DriverSpec == DriverInit /\ [][DriverNext]_driverVars

(* The two threads of the driver run.                                      *)
DriverLiveSpec ==
  DriverSpec /\ WF_driverVars(ReaderNext) /\ WF_driverVars(SenderNext)

-----------------------------------------------------------------------------
(* Properties.                                                             *)

(* What is published is a scan the lidar sent, each at most once and in    *)
(* order, also amid noise that does not hold both a start and an end; and  *)
(* unless there was noise, none is left out: as long as nothing has been   *)
(* thrown away.                                                            *)
ScansAreSent ==
  ~gap =>
    /\ \A k \in 1..Len(pub) : pub[k] \in 1..scans
    /\ \A k, l \in 1..Len(pub) : k < l => pub[k] < pub[l]
    /\ noises = 0 => \A k \in 1..Len(pub) : pub[k] = k

InBuffer(n) ==
  \E k \in 1..(Len(m_vecBuffer) - 2) : SubSeq(m_vecBuffer, k, k + 2) = Scan(n)

(* A whole scan leaves the buffer, which has a limit: however full it is   *)
(* and whatever else it holds, parsing makes room, as long as the driver   *)
(* is to scan.  Nothing is said of a buffer at the limit that holds no     *)
(* start: the parser erases nothing of it and the reader adds nothing.     *)
ScanLeavesBuffer ==
  \A n \in 1..MaxScans :
    InBuffer(n) ~> (~InBuffer(n) \/ ~m_scanFlag \/ ~m_runFlag)

(* After a Stop the reader sends the commands of a restart at most that it *)
(* had already begun (or the one it begins with), and otherwise the lidar  *)
(* stays stopped until the next Start.                                     *)
StopHolds ==
  /\ late <= 3
  /\ stopped /\ late = 0 => lidar = "stop"

(* The limit bounds the buffer.                                            *)
SerialBufferBounded == Len(m_vecBuffer) < Limit + BufferSize
=============================================================================
