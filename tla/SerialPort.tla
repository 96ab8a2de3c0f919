------------------------------ MODULE SerialPort ------------------------------
(* The serial port of the lidar, lidardata_pub/SerialPort: several threads *)
(* share one object, whose descriptor m_fd no lock protects.  A call looks *)
(* at m_fd, opens the device when it is closed, and works on whatever m_fd *)
(* is by then.                                                             *)
(*                                                                         *)
(* The device can be unplugged.  Descriptors of its earlier life are hung: *)
(* reading them fails or finds the end of the file, writing fails.         *)
EXTENDS Integers, Sequences, FiniteSets

CONSTANTS
  Thread,      \* the threads that share the port
  Calls,       \* Calls[t]: what thread t calls
  WSize,       \* the length of what Write is given
  iBufferSize, \* the size of the buffer of Read and ReadPackage
  Expect,      \* expectReadSize
  MinCnt,      \* i_min_cnt: how often ReadPackage tries again
  MaxOpen,     \* bound: descriptors at a time; open fails beyond that
  MaxIn,       \* bound: cells the device sends
  MaxWrite,    \* bound: calls of Write
  MaxUnplug    \* bound: how often the device is unplugged

ASSUME SerialAssumption ==
  /\ Calls \in [Thread -> SUBSET {"Write", "Read", "ReadPackage"}]
  /\ WSize \in Nat \ {0} /\ iBufferSize \in Nat \ {0}
  /\ Expect \in 0..iBufferSize /\ MinCnt \in Nat
  /\ MaxOpen \in Nat \ {0} /\ MaxIn \in Nat /\ MaxWrite \in Nat
  /\ MaxUnplug \in Nat

VARIABLES
  m_fd,        \* 0 stands for -1
  fds,         \* the descriptors that have not been closed
  hung,        \* those of a device that has been unplugged
  plugged, unplugs,
  tty,         \* received by the tty and not yet read: numbered cells
  out,         \* accepted by write, not yet sent
  line,        \* history: what the device has received
  sent,        \* cells the device has sent
  call,        \* call[t]: where thread t is in its call
  writes,      \* calls of Write so far
  in,          \* history: the cells the callers have got
  flushed,     \* history: the device was opened again or unplugged
  cut,         \* history: a call of Write has thrown away another's data
  reported,    \* history: a call of Write did not answer WSize
  overlap      \* history: a thread opened or closed while another was at it

fdVars     == <<m_fd, fds, hung, plugged, unplugs, overlap, flushed>>
inVars     == <<tty, sent, in>>
outVars    == <<out, line, writes, cut, reported>>
serialVars == <<fdVars, inVars, outVars, call>>

Idle == [op |-> "none", at |-> "idle", left |-> 0, buf |-> <<>>, cnt |-> 0,
         ret |-> 0, fd |-> 0]

Message == [k \in 1..WSize |-> k]

\* The constructor has called Init.
SerialInit ==
  /\ m_fd = 1 /\ fds = {1} /\ hung = {}
  /\ plugged = TRUE /\ unplugs = 0
  /\ tty = <<>> /\ out = <<>> /\ line = <<>> /\ sent = 0
  /\ call = [t \in Thread |-> Idle]
  /\ writes = 0 /\ in = <<>>
  /\ flushed = FALSE /\ cut = FALSE /\ reported = FALSE
  /\ overlap = FALSE

-----------------------------------------------------------------------------
(* The device.                                                             *)

DeviceSend ==
  /\ plugged /\ sent < MaxIn
  /\ sent' = sent + 1 /\ tty' = Append(tty, sent + 1)
  /\ UNCHANGED <<fdVars, in, outVars, call>>

Transmit ==
  /\ out # <<>>
  /\ line' = Append(line, Head(out)) /\ out' = Tail(out)
  /\ UNCHANGED <<fdVars, inVars, writes, cut, reported, call>>

Unplug ==
  /\ plugged /\ unplugs < MaxUnplug
  /\ plugged' = FALSE /\ unplugs' = unplugs + 1 /\ hung' = fds
  /\ flushed' = TRUE /\ tty' = <<>> /\ out' = <<>>
  /\ UNCHANGED <<m_fd, fds, overlap, sent, in, line, writes, cut, reported,
                 call>>

Plug ==
  /\ ~plugged
  /\ plugged' = TRUE
  /\ UNCHANGED <<m_fd, fds, hung, unplugs, overlap, flushed, inVars, outVars,
                 call>>

-----------------------------------------------------------------------------
(* A call.                                                                 *)

At(t, op, at) == call[t].op = op /\ call[t].at = at

Return(t, ret) == call' = [call EXCEPT ![t].at = "done", ![t].ret = ret]

Good == m_fd \in fds \ hung

\* The call looks at m_fd.
Begin(t, op) ==
  /\ call[t] = Idle /\ op \in Calls[t]
  /\ op = "Write" => writes < MaxWrite
  /\ writes' = IF op = "Write" THEN writes + 1 ELSE writes
  /\ call' = [call EXCEPT ![t] =
       [op |-> op, at |-> IF m_fd = 0 THEN "init" ELSE "work",
        left |-> WSize, buf |-> <<>>, cnt |-> MinCnt, ret |-> 0, fd |-> 0]]
  /\ UNCHANGED <<fdVars, inVars, out, line, cut, reported>>

\* From the test of m_fd on that sends a thread there.
Managing(t) == call[t].at \in {"init", "close", "clear"}

Overlaps(t) == overlap \/ \E u \in Thread \ {t} : Managing(u)

(* open returns any number that is free, then tcflush of both directions;  *)
(* the band rate is one of those SetSerial knows.                          *)
Init(t) ==
  /\ call[t].at = "init"
  /\ overlap' = Overlaps(t)
  /\ IF plugged /\ fds # 1..MaxOpen
     THEN /\ m_fd' \in (1..MaxOpen) \ fds /\ fds' = fds \cup {m_fd'}
          /\ flushed' = TRUE /\ tty' = <<>> /\ out' = <<>>
          /\ call' = [call EXCEPT ![t].at = "work"]
     ELSE /\ m_fd' = 0
          /\ Return(t, -1)
          /\ UNCHANGED <<fds, flushed, tty, out>>
  /\ UNCHANGED <<hung, plugged, unplugs, sent, in, line, writes, cut, reported>>

(* DeInit in three steps, between which others go on: the test ...         *)
DeInit(t) ==
  /\ call[t].at = "deinit"
  /\ IF m_fd > 0
     THEN call' = [call EXCEPT ![t].at = "close", ![t].fd = m_fd]
     ELSE Return(t, -1)
  /\ UNCHANGED <<fdVars, inVars, outVars>>

Closed(t) == call' = [call EXCEPT ![t].at = "clear"]

\* Mutated form: the descriptor is not closed.
CloseForgets(t) ==
  /\ call[t].at = "close"
  /\ overlap' = Overlaps(t)
  /\ Closed(t)
  /\ UNCHANGED <<fds, hung, m_fd, plugged, unplugs, flushed, inVars, outVars>>

(* ... close, of what was tested or, if the build loads m_fd again, of     *)
(* what it is by now ...                                                   *)
Close(t) ==
  /\ call[t].at = "close"
  /\ overlap' = Overlaps(t)
  /\ \E fd \in {call[t].fd, m_fd} : fds' = fds \ {fd} /\ hung' = hung \ {fd}
  /\ Closed(t)
  /\ UNCHANGED <<m_fd, plugged, unplugs, flushed, inVars, outVars>>

\* ... and m_fd = -1.
Clear(t) ==
  /\ call[t].at = "clear"
  /\ overlap' = Overlaps(t)
  /\ m_fd' = 0
  /\ Return(t, -1)
  /\ UNCHANGED <<fds, hung, plugged, unplugs, flushed, inVars, outVars>>

Fail(t) == call' = [call EXCEPT ![t].at = "deinit"]

\* Mutated form: after a part of the data the whole of it is written again.
NotShortened(left, n) == left
\* What is still to be written once n cells have been accepted.
Shortened(left, n) == left - n

(* One round of the loop: tcflush throws away what has not been sent; the  *)
(* write begins at the start of the data again, whatever an earlier round  *)
(* has written.                                                            *)
Write(t) ==
  /\ At(t, "Write", "work")
  /\ IF Good
     THEN \E n \in 1..call[t].left :
            /\ cut' = (cut \/ (out # <<>> /\ call[t].left = WSize))
            /\ out' = SubSeq(Message, 1, n)
            /\ IF n = call[t].left
               THEN Return(t, n)
               ELSE call' = [call EXCEPT ![t].left = Shortened(@, n)]
     ELSE Fail(t) /\ UNCHANGED <<out, cut>>
  /\ UNCHANGED <<fdVars, inVars, line, writes, reported>>

(* select finds cells or a hung device, or nothing for a second.  A        *)
(* descriptor that is closed is an error, or never has anything.           *)
Found(t) == call' = [call EXCEPT ![t].at = "read"]

(* Read does not call DeInit when select fails ...                         *)
Select(t) ==
  /\ At(t, "Read", "work")
  /\ \/ m_fd \in fds /\ (Good => tty # <<>>) /\ Found(t)
     \/ Good /\ tty = <<>> /\ Return(t, 0)
     \/ m_fd \notin fds /\ \E ret \in {0, -1} : Return(t, ret)
  /\ UNCHANGED <<fdVars, inVars, outVars>>

(* ... but when read does.  A hung device is at its end, or fails.  When   *)
(* another thread has taken the cells, read waits, or has none (VMIN 0).   *)
Read(t) ==
  /\ At(t, "Read", "read")
  /\ \/ /\ Good /\ tty # <<>>
        /\ \E n \in 1..iBufferSize :
             /\ n <= Len(tty)
             /\ tty' = SubSeq(tty, n + 1, Len(tty))
             /\ call' = [call EXCEPT ![t].buf = SubSeq(tty, 1, n),
                                     ![t].at = "done", ![t].ret = n]
     \/ m_fd \in fds /\ (Good => tty = <<>>) /\ Return(t, 0) /\ UNCHANGED tty
     \/ ~Good /\ Fail(t) /\ UNCHANGED tty
  /\ UNCHANGED <<fdVars, sent, in, outVars>>

(* ReadPackage selects once, with DeInit when that fails ...               *)
ReadPackage(t) ==
  /\ At(t, "ReadPackage", "work")
  /\ \/ m_fd \in fds /\ (Good => tty # <<>>) /\ Found(t)
     \/ Good /\ tty = <<>> /\ Return(t, 0)
     \/ m_fd \notin fds /\ (Return(t, 0) \/ Fail(t))
  /\ UNCHANGED <<fdVars, inVars, outVars>>

\* Mutated form: the place in the buffer is not moved on.
SamePlace(buf, new) == new
\* pBuffer + i_read_len, which is not moved on once it is expectReadSize.
NextPlace(buf, new) == IF Len(buf) < Expect THEN buf \o new ELSE buf

(* ... and then reads until it has what is expected or has tried too       *)
(* often; a read that fails counts as a try.                               *)
ReadMore(t) ==
  /\ At(t, "ReadPackage", "read")
  /\ \E n \in 0..(iBufferSize - Len(call[t].buf)) :
       /\ IF Good /\ tty # <<>> THEN n > 0 ELSE n = 0
       /\ n <= Len(tty)
       /\ tty' = SubSeq(tty, n + 1, Len(tty))
       /\ LET buf == NextPlace(call[t].buf, SubSeq(tty, 1, n))
          IN  call' = [call EXCEPT ![t].buf = buf, ![t].ret = Len(buf),
                         ![t].cnt = IF @ > 0 THEN @ - 1 ELSE @,
                         ![t].at = IF Len(buf) < Expect /\ call[t].cnt > 0
                                   THEN "read" ELSE "done"]
  /\ UNCHANGED <<fdVars, sent, in, outVars>>

\* The caller goes on.
End(t) ==
  /\ call[t].at = "done"
  /\ call' = [call EXCEPT ![t] = Idle]
  /\ in' = in \o call[t].buf
  /\ reported' = (reported \/ (call[t].op = "Write" /\ call[t].ret # WSize))
  /\ UNCHANGED <<fdVars, tty, sent, out, line, writes, cut>>

-----------------------------------------------------------------------------

SerialNext ==
  \/ DeviceSend \/ Transmit \/ Unplug \/ Plug
  \/ \E t \in Thread :
       \/ \E op \in Calls[t] : Begin(t, op)
       \/ Init(t) \/ DeInit(t) \/ Close(t) \/ Clear(t)
       \/ Write(t) \/ Select(t) \/ Read(t) \/ ReadPackage(t) \/ ReadMore(t) \/ End(t)

SerialSpec == SerialInit /\ [][SerialNext]_serialVars

-----------------------------------------------------------------------------
(* Properties.                                                             *)

(* The descriptor in use is open, or about to be forgotten by the thread   *)
(* that has closed it, and no other is open, however the calls of the      *)
(* threads and the failures of the device interleave: unless a thread has  *)
(* opened or closed the device, or forgotten it, while another was about   *)
(* to.  Then a descriptor that is still open may be overwritten.           *)
NoDescriptorLost ==
  ~overlap =>
    /\ fds \subseteq {m_fd}
    /\ m_fd \in fds \cup {0} \/ \E t \in Thread : call[t].at = "clear"

\* What the device receives is one message after the other.
Whole(cells) ==
  /\ Len(cells) % WSize = 0
  /\ \A k \in 1..Len(cells) : cells[k] = ((k - 1) % WSize) + 1

(* When a write is accepted in parts, its beginning is sent again.  The    *)
(* device gets something else than whole messages only if a call has       *)
(* answered something else than the size it was given (or is about to), or *)
(* two calls came so close that one has flushed the other's data away, or  *)
(* the device was gone.                                                    *)
GarbledIsReported ==
  \/ Whole(line \o out)
  \/ reported \/ cut \/ flushed
  \/ \E t \in Thread : call[t].op = "Write" /\ call[t].left < WSize

Reader == {t \in Thread : Calls[t] \cap {"Read", "ReadPackage"} # {}}

(* A thread that is the only one to read gets every cell the device sent,  *)
(* in order, in pieces of any size, as long as the device stays and        *)
(* something is expected of it.                                            *)
ReadsAreTheStream ==
  \A t \in Reader :
    Reader = {t} /\ ~flushed /\ Expect # 0 =>
      in \o call[t].buf \o tty = [k \in 1..sent |-> k]
=============================================================================
