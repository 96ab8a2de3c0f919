-------------------------- MODULE LogConsoleProofs --------------------------
(* Proofs about the log server and the debug console, for any number of    *)
(* lines, commands, terminals and restarts.                                *)
EXTENDS LogConsole, SequenceTheorems, TLAPS

-----------------------------------------------------------------------------
(* The log server.  A line moves from one place to the next; that no line  *)
(* is in two places, and that the table is in order, needs the lines to be *)
(* in order along their whole way.                                         *)

\* What LinesAccountedFor says of the six places.
Partition(a, b, c, d, e, f, n) ==
  /\ a \cup b \cup c \cup d \cup e \cup f = 1..n
  /\ a \cap b = {} /\ a \cap c = {} /\ a \cap d = {} /\ a \cap e = {}
  /\ b \cap c = {} /\ b \cap d = {} /\ b \cap e = {}
  /\ c \cap d = {} /\ c \cap e = {} /\ d \cap e = {}
  /\ f \cap (a \cup b \cup c \cup d \cup e) = {}

LEMMA PartitionIs ==
  ASSUME NEW a, NEW b, NEW c, NEW d, NEW e, NEW f, NEW n,
         Partition(a, b, c, d, e, f, n)
  PROVE  LET places == <<a, b, c, d, e, f>>
         IN  /\ UNION {places[k] : k \in 1..6} = 1..n
             /\ \A k, l \in 1..6 : k # l => places[k] \cap places[l] = {}
<1> DEFINE places == <<a, b, c, d, e, f>>
<1>1. /\ places[1] = a /\ places[2] = b /\ places[3] = c /\ places[4] = d
      /\ places[5] = e /\ places[6] = f
  OBVIOUS
<1>2. 1..6 = {1, 2, 3, 4, 5, 6}
  OBVIOUS
<1> HIDE DEF places
<1>3. UNION {places[k] : k \in {1, 2, 3, 4, 5, 6}}
        = a \cup b \cup c \cup d \cup e \cup f
  BY <1>1
<1>4. \A k, l \in {1, 2, 3, 4, 5, 6} : k # l => places[k] \cap places[l] = {}
  <2>1. /\ f \cap a = {} /\ f \cap b = {} /\ f \cap c = {} /\ f \cap d = {}
        /\ f \cap e = {}
    BY DEF Partition
  <2>2. \A k, l \in {1, 2, 3, 4, 5} : k # l => places[k] \cap places[l] = {}
    BY <1>1 DEF Partition
  <2>3. \A k \in {1, 2, 3, 4, 5} :
          places[k] \cap places[6] = {} /\ places[6] \cap places[k] = {}
    BY <1>1, <2>1
  <2>4. QED
    BY <2>2, <2>3
<1>5. QED
  BY <1>2, <1>3, <1>4 DEF Partition, places

LineText == [quoted : BOOLEAN, last : {"newline", "letter", "blank"}]
LineType == [name : {"log", "other"}, n : Nat, text : LineText]

InOrder(lines) ==
  \A k, l \in 1..Len(lines) :
    k < l /\ lines[k].n # 0 /\ lines[l].n # 0 => lines[k].n < lines[l].n

\* A stranger's message has no number.
OnlyLogIsNumbered(lines) ==
  \A k \in 1..Len(lines) : lines[k].name = "log" <=> lines[k].n # 0

LogTypeOK ==
  /\ sent \in Nat
  /\ inbox \in Seq(LineType) /\ table \in Seq(LineType)
  /\ refused \subseteq LineType
  /\ m_logmsg \in LineType \cup {NoLine}

\* AddLog has a log line in its hands, and nobody else has one.
HandInv ==
  /\ IF Writing THEN m_logmsg \in LineType /\ m_logmsg.name = "log"
                ELSE m_logmsg = NoLine
  /\ pc = "insert" /\ ~exists => m_logmsg.n \in disturbed

LineOrder ==
  /\ OnlyLogIsNumbered(inbox) /\ InOrder(inbox)
  /\ \A a \in Numbers(inbox), b \in InHand \cup Numbers(table) : b < a
  /\ \A b \in InHand, c \in Numbers(table) : c < b

Placed ==
  Partition(Numbers(inbox), InHand, Numbers(table), RefusedLines, lost, overrun,
            sent)

TableInv ==
  /\ \A line \in refused : line.text.quoted \/ line.n \in disturbed
  /\ \A k \in 1..Len(table) : table[k].name = "log" /\ ~table[k].text.quoted
  /\ InOrder(table)

LogInv == LogTypeOK /\ HandInv /\ LineOrder /\ Placed /\ TableInv

-----------------------------------------------------------------------------
\* The numbers of lines that are added and taken away.
LEMMA NumbersOfNone == Numbers(<<>>) = {}
<1>1. 1..Len(<<>>) = {}
  OBVIOUS
<1>2. QED
  BY <1>1 DEF Numbers

LEMMA NumbersIn ==
  ASSUME NEW lines
  PROVE  \A n : n \in Numbers(lines) <=>
                  n # 0 /\ \E k \in 1..Len(lines) : n = lines[k].n
  BY DEF Numbers

LEMMA NumbersAdded ==
  ASSUME NEW lines \in Seq(LineType), NEW line \in LineType
  PROVE  Numbers(Append(lines, line)) = Numbers(lines) \cup ({line.n} \ {0})
<1> DEFINE all == Append(lines, line)
<1>1. /\ Len(lines) \in Nat /\ Len(all) = Len(lines) + 1
      /\ \A k \in 1..Len(lines) : all[k] = lines[k]
      /\ all[Len(lines) + 1] = line
  BY AppendProperties
<1> HIDE DEF all
<1>2. ASSUME NEW n \in Numbers(all)
      PROVE  n \in Numbers(lines) \cup ({line.n} \ {0})
  <2>1. n # 0
    BY NumbersIn
  <2>2. PICK k \in 1..Len(all) : n = all[k].n
    BY NumbersIn
  <2>3. CASE k = Len(lines) + 1
    BY <1>1, <2>1, <2>2, <2>3
  <2>4. CASE k # Len(lines) + 1
    <3>1. k \in 1..Len(lines)
      BY <1>1, <2>4
    <3>2. n \in Numbers(lines)
      BY <1>1, <2>1, <2>2, <3>1, NumbersIn
    <3>3. QED
      BY <3>2
  <2>5. QED
    BY <2>3, <2>4
<1>3. ASSUME NEW n \in Numbers(lines)
      PROVE  n \in Numbers(all)
  <2>1. n # 0
    BY NumbersIn
  <2>2. PICK k \in 1..Len(lines) : n = lines[k].n
    BY NumbersIn
  <2>3. k \in 1..Len(all) /\ n = all[k].n
    BY <1>1, <2>2
  <2>4. QED
    BY <2>1, <2>3, NumbersIn
<1>4. ASSUME line.n # 0
      PROVE  line.n \in Numbers(all)
  <2>1. Len(lines) + 1 \in 1..Len(all) /\ line.n = all[Len(lines) + 1].n
    BY <1>1
  <2>2. QED
    BY <1>4, <2>1, NumbersIn
<1>5. QED
  BY <1>2, <1>3, <1>4 DEF all

LEMMA NumbersTaken ==
  ASSUME NEW lines \in Seq(LineType), lines # <<>>
  PROVE  /\ Numbers(lines) = Numbers(Tail(lines)) \cup ({Head(lines).n} \ {0})
         /\ InOrder(lines) => InOrder(Tail(lines))
         /\ InOrder(lines) /\ Head(lines).n # 0 =>
              \A n \in Numbers(Tail(lines)) : Head(lines).n < n
         /\ OnlyLogIsNumbered(lines) => OnlyLogIsNumbered(Tail(lines))
<1> DEFINE rest == Tail(lines)
<1>1. /\ Len(lines) \in Nat /\ Len(lines) >= 1 /\ Len(rest) = Len(lines) - 1
      /\ \A k \in 1..Len(rest) : rest[k] = lines[k + 1]
      /\ Head(lines) = lines[1]
  BY HeadTailProperties
<1> HIDE DEF rest
<1>2. ASSUME NEW k \in 1..Len(rest)
      PROVE  k + 1 \in 1..Len(lines) /\ rest[k] = lines[k + 1]
  BY <1>1
<1>3. Numbers(lines) = Numbers(rest) \cup ({lines[1].n} \ {0})
  <2>1. ASSUME NEW n \in Numbers(lines)
        PROVE  n \in Numbers(rest) \cup ({lines[1].n} \ {0})
    <3>1. n # 0
      BY NumbersIn
    <3>2. PICK k \in 1..Len(lines) : n = lines[k].n
      BY NumbersIn
    <3>3. CASE k = 1
      BY <3>1, <3>2, <3>3
    <3>4. CASE k # 1
      <4>1. k - 1 \in 1..Len(rest) /\ (k - 1) + 1 = k
        BY <1>1, <3>4
      <4>2. n = rest[k - 1].n
        BY <1>2, <3>2, <4>1
      <4>3. n \in Numbers(rest)
        BY <3>1, <4>1, <4>2, NumbersIn
      <4>4. QED
        BY <4>3
    <3>5. QED
      BY <3>3, <3>4
  <2>2. ASSUME NEW n \in Numbers(rest)
        PROVE  n \in Numbers(lines)
    <3>1. n # 0
      BY NumbersIn
    <3>2. PICK k \in 1..Len(rest) : n = rest[k].n
      BY NumbersIn
    <3>3. k + 1 \in 1..Len(lines) /\ n = lines[k + 1].n
      BY <1>2, <3>2
    <3>4. QED
      BY <3>1, <3>3, NumbersIn
  <2>3. ASSUME lines[1].n # 0
        PROVE  lines[1].n \in Numbers(lines)
    <3>1. 1 \in 1..Len(lines)
      BY <1>1
    <3>2. QED
      BY <2>3, <3>1, NumbersIn
  <2>4. QED
    BY <2>1, <2>2, <2>3
<1>4. ASSUME InOrder(lines)
      PROVE  InOrder(rest)
  <2> SUFFICES ASSUME NEW k \in 1..Len(rest), NEW l \in 1..Len(rest), k < l,
                      rest[k].n # 0, rest[l].n # 0
               PROVE  rest[k].n < rest[l].n
    BY DEF InOrder
  <2>1. k + 1 < l + 1
    OBVIOUS
  <2>2. QED
    BY <1>2, <1>4, <2>1 DEF InOrder
<1>5. ASSUME InOrder(lines), lines[1].n # 0, NEW n \in Numbers(rest)
      PROVE  lines[1].n < n
  <2>1. n # 0
    BY NumbersIn
  <2>2. PICK k \in 1..Len(rest) : n = rest[k].n
    BY NumbersIn
  <2>3. /\ k + 1 \in 1..Len(lines) /\ 1 \in 1..Len(lines) /\ 1 < k + 1
        /\ n = lines[k + 1].n
    BY <1>1, <1>2, <2>2
  <2>4. QED
    BY <1>5, <2>1, <2>3 DEF InOrder
<1>6. ASSUME OnlyLogIsNumbered(lines)
      PROVE  OnlyLogIsNumbered(rest)
  <2> SUFFICES ASSUME NEW k \in 1..Len(rest)
               PROVE  rest[k].name = "log" <=> rest[k].n # 0
    BY DEF OnlyLogIsNumbered
  <2>1. QED
    BY <1>2, <1>6 DEF OnlyLogIsNumbered
<1>7. QED
  BY <1>1, <1>3, <1>4, <1>5, <1>6 DEF rest

LEMMA NumbersSplit ==
  ASSUME NEW lines \in Seq(LineType), NEW k \in 0..Len(lines), InOrder(lines),
         OnlyLogIsNumbered(lines)
  PROVE  LET gone == SubSeq(lines, 1, k)
             rest == SubSeq(lines, k + 1, Len(lines))
         IN  /\ rest \in Seq(LineType)
             /\ Numbers(lines) = Numbers(gone) \cup Numbers(rest)
             /\ Numbers(gone) \cap Numbers(rest) = {}
             /\ InOrder(rest) /\ OnlyLogIsNumbered(rest)
<1> DEFINE gone == SubSeq(lines, 1, k)
           rest == SubSeq(lines, k + 1, Len(lines))
<1>1. k \in Nat /\ Len(lines) \in Nat
  OBVIOUS
<1>2. /\ Len(gone) = k /\ \A i \in 1..k : gone[i] = lines[i]
      /\ Len(rest) = Len(lines) - k
      /\ \A i \in 1..(Len(lines) - k) : rest[i] = lines[i + k]
      /\ rest \in Seq(LineType)
  OBVIOUS
<1> HIDE DEF gone, rest
<1>3. \A n : n \in Numbers(gone) <=> n # 0 /\ \E i \in 1..k : n = lines[i].n
  BY <1>2, NumbersIn
<1>4. \A n : n \in Numbers(rest) <=>
               n # 0 /\ \E i \in (k + 1)..Len(lines) : n = lines[i].n
  <2>1. ASSUME NEW n, NEW i \in 1..Len(rest), n = rest[i].n
        PROVE  \E j \in (k + 1)..Len(lines) : n = lines[j].n
    <3>1. i + k \in (k + 1)..Len(lines) /\ n = lines[i + k].n
      BY <1>1, <1>2, <2>1
    <3>2. QED
      BY <3>1
  <2>2. ASSUME NEW n, NEW j \in (k + 1)..Len(lines), n = lines[j].n
        PROVE  \E i \in 1..Len(rest) : n = rest[i].n
    <3>1. j - k \in 1..Len(rest) /\ (j - k) + k = j
      BY <1>1, <1>2
    <3>2. n = rest[j - k].n
      BY <1>2, <2>2, <3>1
    <3>3. QED
      BY <3>1, <3>2
  <2>3. QED
    BY <2>1, <2>2, NumbersIn
<1>5. \A i \in 1..Len(lines) : i \in 1..k \/ i \in (k + 1)..Len(lines)
  BY <1>1
<1>6. /\ 1..k \subseteq 1..Len(lines)
      /\ (k + 1)..Len(lines) \subseteq 1..Len(lines)
  BY <1>1
<1>7. Numbers(lines) = Numbers(gone) \cup Numbers(rest)
  BY <1>3, <1>4, <1>5, <1>6, NumbersIn
<1>8. \A i \in 1..k, j \in (k + 1)..Len(lines) :
        lines[i].n # 0 /\ lines[j].n # 0 => lines[i].n # lines[j].n
  <2> SUFFICES ASSUME NEW i \in 1..k, NEW j \in (k + 1)..Len(lines),
                      lines[i].n # 0, lines[j].n # 0
               PROVE  lines[i].n # lines[j].n
    OBVIOUS
  <2>1. i \in 1..Len(lines) /\ j \in 1..Len(lines) /\ i < j
    BY <1>1
  <2>2. lines[i].n < lines[j].n
    BY <2>1 DEF InOrder
  <2>3. lines[i] \in LineType
    BY <2>1
  <2>4. lines[i].n \in Nat
    BY <2>3 DEF LineType
  <2>5. QED
    BY <2>2, <2>4
<1>9. Numbers(gone) \cap Numbers(rest) = {}
  BY <1>3, <1>4, <1>8
<1>10. ASSUME NEW i \in 1..Len(rest)
       PROVE  i + k \in 1..Len(lines) /\ rest[i] = lines[i + k]
  BY <1>1, <1>2
<1>11. InOrder(rest)
  <2> SUFFICES ASSUME NEW i \in 1..Len(rest), NEW j \in 1..Len(rest), i < j,
                      rest[i].n # 0, rest[j].n # 0
               PROVE  rest[i].n < rest[j].n
    BY DEF InOrder
  <2>1. i + k < j + k
    BY <1>1
  <2>2. QED
    BY <1>10, <2>1 DEF InOrder
<1>12. OnlyLogIsNumbered(rest)
  <2> SUFFICES ASSUME NEW i \in 1..Len(rest)
               PROVE  rest[i].name = "log" <=> rest[i].n # 0
    BY DEF OnlyLogIsNumbered
  <2>1. QED
    BY <1>10 DEF OnlyLogIsNumbered
<1>13. QED
  BY <1>2, <1>7, <1>9, <1>11, <1>12 DEF gone, rest

\* A message is added at the end.
LEMMA InboxGrows ==
  ASSUME NEW lines \in Seq(LineType), NEW line \in LineType,
         InOrder(lines), OnlyLogIsNumbered(lines),
         line.name = "log" <=> line.n # 0,
         line.n # 0 => \A n \in Numbers(lines) : n < line.n
  PROVE  InOrder(Append(lines, line)) /\ OnlyLogIsNumbered(Append(lines, line))
<1> DEFINE all == Append(lines, line)
<1>1. /\ Len(lines) \in Nat /\ Len(all) = Len(lines) + 1
      /\ \A k \in 1..Len(lines) : all[k] = lines[k]
      /\ all[Len(lines) + 1] = line
  BY AppendProperties
<1> HIDE DEF all
<1>2. ASSUME NEW k \in 1..Len(all), k # Len(lines) + 1
      PROVE  /\ k \in 1..Len(lines) /\ all[k] = lines[k]
             /\ all[k].n # 0 => all[k].n \in Numbers(lines)
  <2>1. k \in 1..Len(lines) /\ all[k] = lines[k]
    BY <1>1, <1>2
  <2>2. QED
    BY <2>1, NumbersIn
<1>3. InOrder(all)
  <2> SUFFICES ASSUME NEW k \in 1..Len(all), NEW l \in 1..Len(all), k < l,
                      all[k].n # 0, all[l].n # 0
               PROVE  all[k].n < all[l].n
    BY DEF InOrder
  <2>1. k # Len(lines) + 1
    BY <1>1
  <2>2. CASE l = Len(lines) + 1
    BY <1>1, <1>2, <2>1, <2>2
  <2>3. CASE l # Len(lines) + 1
    BY <1>2, <2>1, <2>3 DEF InOrder
  <2>4. QED
    BY <2>2, <2>3
<1>4. OnlyLogIsNumbered(all)
  <2> SUFFICES ASSUME NEW k \in 1..Len(all)
               PROVE  all[k].name = "log" <=> all[k].n # 0
    BY DEF OnlyLogIsNumbered
  <2>1. CASE k = Len(lines) + 1
    BY <1>1, <2>1
  <2>2. CASE k # Len(lines) + 1
    BY <1>2, <2>2 DEF OnlyLogIsNumbered
  <2>3. QED
    BY <2>1, <2>2
<1>5. QED
  BY <1>3, <1>4 DEF all

LEMMA LogStarts == DbInit /\ LogInit => LogInv
<1> SUFFICES ASSUME DbInit, LogInit PROVE LogInv
  OBVIOUS
<1>1. /\ inbox = <<>> /\ table = <<>> /\ sent = 0 /\ refused = {} /\ lost = {}
      /\ m_logmsg = NoLine /\ pc = "sub" /\ overrun = {}
  BY DEF DbInit, LogInit
<1>2. NoLine.n = 0
  BY DEF NoLine
<1>3. Numbers(inbox) = {} /\ Numbers(table) = {}
  BY <1>1, NumbersOfNone
<1>4. InHand = {} /\ RefusedLines = {}
  BY <1>1, <1>2 DEF InHand, RefusedLines
<1>5. Len(inbox) = 0 /\ Len(table) = 0 /\ 1..0 = {}
  BY <1>1
<1>6. Placed
  BY <1>1, <1>3, <1>4, <1>5 DEF Placed, Partition
<1>7. LineOrder
  BY <1>3, <1>4, <1>5 DEF LineOrder, OnlyLogIsNumbered, InOrder
<1>8. TableInv
  BY <1>1, <1>5 DEF TableInv, InOrder
<1>9. HandInv
  BY <1>1 DEF HandInv, Writing
<1>10. LogTypeOK
  <2>1. inbox \in Seq(LineType) /\ table \in Seq(LineType)
    BY <1>1
  <2>2. QED
    BY <1>1, <2>1 DEF LogTypeOK
<1>11. QED
  BY <1>6, <1>7, <1>8, <1>9, <1>10 DEF LogInv

\* What the invariant says in terms of the state.
LEMMA LogFacts ==
  ASSUME LogInv
  PROVE  /\ sent \in Nat
         /\ inbox \in Seq(LineType) /\ table \in Seq(LineType)
         /\ refused \subseteq LineType
         /\ Numbers(inbox) \subseteq 1..sent /\ InHand \subseteq 1..sent
         /\ Numbers(table) \subseteq 1..sent
         /\ ~Writing => InHand = {}
         /\ Writing => /\ m_logmsg \in LineType /\ m_logmsg.name = "log"
                       /\ InHand = {m_logmsg.n} \ {0}
<1>1. NoLine.n = 0
  BY DEF NoLine
<1>2. sent \in Nat /\ inbox \in Seq(LineType) /\ table \in Seq(LineType)
  BY DEF LogInv, LogTypeOK
<1>3. refused \subseteq LineType
  BY DEF LogInv, LogTypeOK
<1>4. /\ Numbers(inbox) \subseteq 1..sent /\ InHand \subseteq 1..sent
      /\ Numbers(table) \subseteq 1..sent
  BY DEF LogInv, Placed, Partition
<1>5. ~Writing => InHand = {}
  BY <1>1 DEF LogInv, HandInv, InHand
<1>6. Writing => /\ m_logmsg \in LineType /\ m_logmsg.name = "log"
                 /\ InHand = {m_logmsg.n} \ {0}
  BY DEF LogInv, HandInv, InHand
<1>7. QED
  BY <1>2, <1>3, <1>4, <1>5, <1>6

\* Steps that leave the lines where they are.
LEMMA LinesStay ==
  ASSUME LogInv,
         UNCHANGED <<sent, inbox, table, refused, lost, overrun, m_logmsg>>,
         disturbed \subseteq disturbed', HandInv'
  PROVE  LogInv'
<1>1. LogTypeOK'
  BY DEF LogInv, LogTypeOK
<1>2. LineOrder' /\ Placed'
  BY ZenonT(60) DEF LogInv, LineOrder, Placed, Numbers, InHand, RefusedLines, InOrder,
         OnlyLogIsNumbered
<1>3. TableInv'
  BY DEF LogInv, TableInv, InOrder
<1>4. QED
  BY <1>1, <1>2, <1>3 DEF LogInv

\* The broker passes a line on.
LEMMA LogPub ==
  ASSUME LogInv, NEW text \in Text, PubLog(text)
  PROVE  LogInv'
<1> DEFINE line == [name |-> "log", n |-> sent + 1, text |-> text]
<1>1. /\ sent' = sent + 1 /\ inbox' = Append(inbox, line)
      /\ UNCHANGED <<pc, m_logmsg, disturbed, refused, lost, overrun, exists,
                     table>>
  BY DEF PubLog, dbVars
<1>2. /\ sent \in Nat /\ inbox \in Seq(LineType) /\ table \in Seq(LineType)
      /\ Numbers(inbox) \subseteq 1..sent /\ InHand \subseteq 1..sent
      /\ Numbers(table) \subseteq 1..sent
  BY LogFacts
<1>3. line \in LineType /\ line.n = sent + 1 /\ line.name = "log"
  BY <1>2, LogTextAssumption DEF LineType, LineText
<1> HIDE DEF line
<1>4. sent + 1 # 0 /\ \A n \in 1..sent : n < sent + 1
  BY <1>2
<1>5. Numbers(inbox') = Numbers(inbox) \cup {sent + 1}
  BY <1>1, <1>2, <1>3, <1>4, NumbersAdded
<1>6. InHand' = InHand /\ Numbers(table)' = Numbers(table)
  BY <1>1 DEF InHand, Numbers
<1>7. RefusedLines' = RefusedLines
  BY <1>1 DEF RefusedLines
<1>8. Placed'
  <2>1. 1..(sent + 1) = (1..sent) \cup {sent + 1} /\ sent + 1 \notin 1..sent
    BY <1>2
  <2>2. Placed
    BY DEF LogInv
  <2>3. Partition(Numbers(inbox'), InHand, Numbers(table), RefusedLines, lost,
                  overrun, sent + 1)
    BY <1>5, <2>1, <2>2 DEF Placed, Partition
  <2>4. QED
    BY <1>1, <1>6, <1>7, <2>3 DEF Placed
<1>9. LineOrder'
  <2>1. InOrder(inbox') /\ OnlyLogIsNumbered(inbox')
    BY <1>1, <1>2, <1>3, <1>4, InboxGrows DEF LogInv, LineOrder
  <2>2. \A a \in Numbers(inbox'), b \in InHand \cup Numbers(table) : b < a
    BY <1>2, <1>4, <1>5 DEF LogInv, LineOrder
  <2>3. \A b \in InHand, c \in Numbers(table) : c < b
    BY DEF LogInv, LineOrder
  <2>4. QED
    BY <1>6, <2>1, <2>2, <2>3 DEF LineOrder
<1>10. LogTypeOK'
  <2>1. inbox' \in Seq(LineType)
    BY <1>1, <1>2, <1>3, AppendProperties
  <2>2. sent' \in Nat
    BY <1>1, <1>2
  <2>3. QED
    BY <1>1, <2>1, <2>2 DEF LogInv, LogTypeOK
<1>11. HandInv' /\ TableInv'
  BY <1>1 DEF LogInv, HandInv, TableInv, InOrder, Writing
<1>12. QED
  BY <1>8, <1>9, <1>10, <1>11 DEF LogInv

\* A message for somebody else.
LEMMA LogStray ==
  ASSUME LogInv, StrayMessage
  PROVE  LogInv'
<1> DEFINE line == [name |-> "other", n |-> 0, text |-> NoText]
<1>1. /\ inbox' = Append(inbox, line)
      /\ UNCHANGED <<sent, pc, m_logmsg, disturbed, refused, lost, overrun,
                     exists, table>>
  BY DEF StrayMessage, dbVars
<1>2. inbox \in Seq(LineType)
  BY LogFacts
<1>3. line \in LineType /\ line.n = 0 /\ line.name = "other"
  <2>1. NoText \in LineText
    BY DEF NoText, LineText
  <2>2. QED
    BY <2>1 DEF LineType
<1> HIDE DEF line
<1>4. Numbers(inbox') = Numbers(inbox)
  <2>1. {line.n} \ {0} = {}
    BY <1>3
  <2>2. Numbers(Append(inbox, line)) = Numbers(inbox) \cup ({line.n} \ {0})
    BY <1>2, <1>3, NumbersAdded
  <2>3. QED
    BY <1>1, <2>1, <2>2
<1>5. InHand' = InHand /\ Numbers(table)' = Numbers(table)
  BY <1>1 DEF InHand, Numbers
<1>6. RefusedLines' = RefusedLines
  BY <1>1 DEF RefusedLines
<1>7. Placed'
  BY <1>1, <1>4, <1>5, <1>6 DEF LogInv, Placed
<1>8. LineOrder'
  <2>1. InOrder(inbox') /\ OnlyLogIsNumbered(inbox')
    BY <1>1, <1>2, <1>3, InboxGrows DEF LogInv, LineOrder
  <2>2. QED
    BY <1>4, <1>5, <2>1 DEF LogInv, LineOrder
<1>9. LogTypeOK'
  <2>1. inbox' \in Seq(LineType)
    BY <1>1, <1>2, <1>3, AppendProperties
  <2>2. QED
    BY <1>1, <2>1 DEF LogInv, LogTypeOK
<1>10. HandInv' /\ TableInv'
  BY <1>1 DEF LogInv, HandInv, TableInv, InOrder, Writing
<1>11. QED
  BY <1>7, <1>8, <1>9, <1>10 DEF LogInv

\* The inbox is lost, with the connection or with the program.
LEMMA LogLoses ==
  ASSUME LogInv, inbox' = <<>>,
         \/ m_logmsg' = m_logmsg /\ lost' = lost \cup Numbers(inbox)
         \/ /\ m_logmsg' = NoLine
            /\ lost' = lost \cup ((Numbers(inbox) \cup {m_logmsg.n}) \ {0}),
         UNCHANGED <<sent, disturbed, refused, overrun, exists, table>>, HandInv'
  PROVE  LogInv'
<1>1. NoLine.n = 0
  BY DEF NoLine
<1>2. /\ inbox \in Seq(LineType) /\ Numbers(inbox') = {}
      /\ RefusedLines' = RefusedLines /\ Numbers(table)' = Numbers(table)
  BY LogFacts, NumbersOfNone DEF RefusedLines, Numbers
<1>3. 0 \notin Numbers(inbox)
  BY DEF Numbers
<1>4. Placed
  BY DEF LogInv
<1>5. \/ InHand' = InHand /\ lost' = lost \cup Numbers(inbox)
      \/ InHand' = {} /\ lost' = lost \cup Numbers(inbox) \cup InHand
  BY <1>1, <1>3 DEF InHand
<1>6. Placed'
  <2>1. CASE InHand' = InHand /\ lost' = lost \cup Numbers(inbox)
    <3>1. Partition({}, InHand, Numbers(table), RefusedLines,
                    lost \cup Numbers(inbox), overrun, sent)
      BY <1>4 DEF Placed, Partition
    <3>2. QED
      BY <1>2, <2>1, <3>1 DEF Placed
  <2>2. CASE InHand' = {} /\ lost' = lost \cup Numbers(inbox) \cup InHand
    <3>1. Partition({}, {}, Numbers(table), RefusedLines,
                    lost \cup Numbers(inbox) \cup InHand, overrun, sent)
      BY <1>4 DEF Placed, Partition
    <3>2. QED
      BY <1>2, <2>2, <3>1 DEF Placed
  <2>3. QED
    BY <1>5, <2>1, <2>2
<1>7. LineOrder'
  <2>1. InHand' \subseteq InHand
    BY <1>5
  <2>2. 1..Len(inbox') = {}
    OBVIOUS
  <2>3. InOrder(inbox') /\ OnlyLogIsNumbered(inbox')
    BY <2>2 DEF InOrder, OnlyLogIsNumbered
  <2>4. QED
    BY <1>2, <2>1, <2>3 DEF LogInv, LineOrder
<1>8. LogTypeOK'
  <2>1. inbox' \in Seq(LineType)
    OBVIOUS
  <2>2. QED
    BY <2>1 DEF LogInv, LogTypeOK
<1>9. TableInv'
  BY DEF LogInv, TableInv, InOrder
<1>10. QED
  BY <1>6, <1>7, <1>8, <1>9 DEF LogInv

(* The limit hits the messages in front; AddLog keeps what it has, or gets *)
(* something that nobody has sent.                                         *)
LEMMA LogOverruns ==
  ASSUME LogInv, NEW k \in 1..Len(inbox), Overrun(k),
         \/ m_logmsg' = m_logmsg
         \/ ~Writing /\ m_logmsg' \in LineType /\ m_logmsg'.n = 0,
         UNCHANGED <<sent, disturbed, refused, lost, exists, table>>, HandInv'
  PROVE  LogInv'
<1> DEFINE gone == SubSeq(inbox, 1, k)
           rest == SubSeq(inbox, k + 1, Len(inbox))
<1>1. inbox' = rest /\ overrun' = overrun \cup Numbers(gone)
  BY DEF Overrun
<1>2. /\ rest \in Seq(LineType)
      /\ Numbers(inbox) = Numbers(gone) \cup Numbers(rest)
      /\ Numbers(gone) \cap Numbers(rest) = {}
      /\ InOrder(rest) /\ OnlyLogIsNumbered(rest)
  <2>1. k \in 0..Len(inbox) /\ inbox \in Seq(LineType)
    BY LogFacts
  <2>2. InOrder(inbox) /\ OnlyLogIsNumbered(inbox)
    BY DEF LogInv, LineOrder
  <2>3. QED
    BY <2>1, <2>2, NumbersSplit
<1> HIDE DEF gone, rest
<1>3. RefusedLines' = RefusedLines /\ Numbers(table)' = Numbers(table)
  BY DEF RefusedLines, Numbers
<1>4. InHand' = InHand
  <2>1. CASE m_logmsg' = m_logmsg
    BY <2>1 DEF InHand
  <2>2. CASE ~Writing /\ m_logmsg'.n = 0
    <3>1. InHand = {}
      BY <2>2, LogFacts
    <3>2. InHand' = {}
      BY <2>2 DEF InHand
    <3>3. QED
      BY <3>1, <3>2
  <2>3. QED
    BY <2>1, <2>2
<1>5. Placed'
  <2>1. Partition(Numbers(rest), InHand, Numbers(table), RefusedLines, lost,
                  overrun \cup Numbers(gone), sent)
    BY <1>2 DEF LogInv, Placed, Partition
  <2>2. QED
    BY <1>1, <1>3, <1>4, <2>1 DEF Placed
<1>6. LineOrder'
  <2>1. Numbers(rest) \subseteq Numbers(inbox)
    BY <1>2
  <2>2. QED
    BY <1>1, <1>2, <1>3, <1>4, <2>1 DEF LogInv, LineOrder
<1>7. LogTypeOK'
  BY <1>1, <1>2 DEF LogInv, LogTypeOK
<1>8. TableInv'
  BY DEF LogInv, TableInv, InOrder
<1>9. QED
  BY <1>5, <1>6, <1>7, <1>8 DEF LogInv

\* What GetLog takes behind a cut.
LEMMA LogMangled ==
  ASSUME LogInv, GetMangled
  PROVE  LogInv'
<1>1. PICK k \in 1..Len(inbox) : Overrun(k)
  BY DEF GetMangled
<1>2. /\ pc = "poll"
      /\ UNCHANGED <<sent, disturbed, refused, lost, exists, table>>
  BY DEF GetMangled, dbVars
<1>3. PICK name \in {"log", "other"}, text \in Text :
        Fetched([name |-> name, n |-> 0, text |-> text])
  BY DEF GetMangled
<1> DEFINE line == [name |-> name, n |-> 0, text |-> text]
<1>4. line \in LineType /\ line.n = 0 /\ line.name = name
  BY LogTextAssumption DEF LineType, LineText
<1>5. IF line.name = "log" THEN m_logmsg' = line /\ pc' = "create"
                           ELSE UNCHANGED <<m_logmsg, pc>>
  BY <1>3 DEF Fetched, IsLog
<1> HIDE DEF line
<1>6. ~Writing
  BY <1>2 DEF Writing
<1>7. HandInv'
  BY <1>2, <1>4, <1>5, <1>6 DEF LogInv, HandInv, Writing
<1>8. QED
  BY <1>1, <1>2, <1>4, <1>5, <1>6, <1>7, LogOverruns

\* GetLog takes the message in front.
LEMMA LogGet ==
  ASSUME LogInv, GetLog
  PROVE  LogInv'
<1> DEFINE line == Head(inbox)
           rest == Tail(inbox)
<1>1. /\ pc = "poll" /\ inbox # <<>> /\ inbox' = rest
      /\ IF line.name = "log" THEN m_logmsg' = line /\ pc' = "create"
                              ELSE UNCHANGED <<m_logmsg, pc>>
      /\ UNCHANGED <<sent, disturbed, refused, lost, overrun, exists, table>>
  BY DEF GetLog, Fetched, IsLog, dbVars
<1>2. /\ sent \in Nat /\ inbox \in Seq(LineType) /\ InHand = {}
      /\ m_logmsg = NoLine
  BY <1>1, LogFacts DEF Writing, LogInv, HandInv
<1>3. InOrder(inbox) /\ OnlyLogIsNumbered(inbox) /\ Placed
  BY DEF LogInv, LineOrder
<1>4. /\ line \in LineType /\ rest \in Seq(LineType)
      /\ line.name = "log" <=> line.n # 0
  <2>1. line \in LineType /\ rest \in Seq(LineType)
    BY <1>1, <1>2, HeadTailProperties
  <2>2. 1 \in 1..Len(inbox) /\ line = inbox[1]
    BY <1>1, <1>2
  <2>3. QED
    BY <1>3, <2>1, <2>2 DEF OnlyLogIsNumbered
<1>5. /\ Numbers(inbox) = Numbers(rest) \cup ({line.n} \ {0})
      /\ InOrder(rest) /\ OnlyLogIsNumbered(rest)
      /\ line.n # 0 => \A n \in Numbers(rest) : line.n < n
  BY <1>1, <1>2, <1>3, NumbersTaken
<1> HIDE DEF line, rest
<1>6. RefusedLines' = RefusedLines /\ Numbers(table)' = Numbers(table)
  BY <1>1 DEF RefusedLines, Numbers
<1>7. TableInv'
  BY <1>1 DEF LogInv, TableInv, InOrder
<1>8. LogTypeOK'
  BY <1>1, <1>4 DEF LogInv, LogTypeOK
<1>9. CASE line.name = "log"
  <2>1. /\ line.n # 0 /\ m_logmsg' = line /\ pc' = "create"
        /\ InHand' = {line.n}
    BY <1>1, <1>4, <1>9 DEF InHand
  <2>2. line.n \notin Numbers(rest)
    <3>1. line.n \in Nat /\ ~(line.n < line.n)
      BY <1>4 DEF LineType
    <3>2. QED
      BY <1>5, <2>1, <3>1
  <2>3. Placed'
    <3>1. Partition(Numbers(rest), {line.n}, Numbers(table), RefusedLines, lost,
                    overrun, sent)
      BY <1>2, <1>3, <1>5, <2>1, <2>2 DEF Placed, Partition
    <3>2. QED
      BY <1>1, <1>6, <2>1, <3>1 DEF Placed
  <2>4. LineOrder'
    <3>1. line.n \in Numbers(inbox)
      BY <1>5, <2>1
    <3>2. \A c \in Numbers(table) : c < line.n
      BY <3>1 DEF LogInv, LineOrder
    <3>3. \A a \in Numbers(rest), c \in Numbers(table) : c < a
      BY <1>5 DEF LogInv, LineOrder
    <3>4. \A a \in Numbers(rest) : line.n < a
      BY <1>5, <2>1
    <3>5. QED
      BY <1>1, <1>5, <1>6, <2>1, <3>2, <3>3, <3>4 DEF LineOrder
  <2>5. HandInv'
    BY <1>4, <1>9, <2>1 DEF HandInv, Writing
  <2>6. QED
    BY <1>7, <1>8, <2>3, <2>4, <2>5 DEF LogInv
<1>10. CASE line.name # "log"
  <2>1. line.n = 0 /\ m_logmsg' = m_logmsg /\ pc' = pc
    BY <1>1, <1>4, <1>10
  <2>2. Numbers(inbox') = Numbers(inbox) /\ InHand' = InHand
    BY <1>1, <1>5, <2>1 DEF InHand
  <2>3. Placed'
    BY <1>1, <1>3, <1>6, <2>2 DEF Placed
  <2>4. LineOrder'
    BY <1>1, <1>5, <1>6, <2>2 DEF LogInv, LineOrder
  <2>5. HandInv'
    BY <1>1, <1>2, <2>1 DEF HandInv, Writing
  <2>6. QED
    BY <1>7, <1>8, <2>3, <2>4, <2>5 DEF LogInv
<1>11. QED
  BY <1>9, <1>10

\* The first exec of AddLog: what is asked is whether there is a table.
LEMMA LogCreates ==
  ASSUME LogInv, AddLogCreate
  PROVE  LogInv'
<1>1. /\ pc = "create" /\ pc' = "insert"
      /\ exists' = (exists \/ ~reading)
      /\ disturbed' = IF reading THEN disturbed \cup {m_logmsg.n} ELSE disturbed
      /\ UNCHANGED <<sent, inbox, table, refused, lost, overrun, m_logmsg>>
  BY DEF AddLogCreate, CreateTable, Disturbed
<1>2. m_logmsg \in LineType /\ m_logmsg.name = "log"
  BY <1>1, LogFacts DEF Writing
<1>3. ~exists' => m_logmsg.n \in disturbed'
  BY <1>1
<1>4. HandInv'
  BY <1>1, <1>2, <1>3 DEF HandInv, Writing
<1>5. disturbed \subseteq disturbed'
  BY <1>1
<1>6. QED
  BY <1>1, <1>4, <1>5, LinesStay

\* A row says what the line said, but for the last character.
LEMMA RowType ==
  ASSUME NEW line \in LineType
  PROVE  /\ Blanked(line) \in LineType /\ Blanked(line).name = line.name
         /\ Blanked(line).n = line.n
         /\ Blanked(line).text.quoted = line.text.quoted
<1> DEFINE text1 == [line.text EXCEPT !.last = "blank"]
<1>1. line.text \in LineText
  BY DEF LineType
<1>2. text1 \in LineText /\ text1.quoted = line.text.quoted
  BY <1>1 DEF LineText
<1>3. Blanked(line) = [line EXCEPT !.text = text1]
  BY DEF Blanked
<1> HIDE DEF text1
<1>4. [line EXCEPT !.text = text1] \in LineType
  BY <1>2 DEF LineType
<1>5. /\ [line EXCEPT !.text = text1].name = line.name
      /\ [line EXCEPT !.text = text1].n = line.n
      /\ [line EXCEPT !.text = text1].text = text1
  BY DEF LineType
<1>6. QED
  BY <1>2, <1>3, <1>4, <1>5

\* The second exec: the line is in the table, or it is refused.
LEMMA LogInserts ==
  ASSUME LogInv, AddLogInsert
  PROVE  LogInv'
<1> DEFINE row == Blanked(m_logmsg)
           num == m_logmsg.n
           hand == {num} \ {0}
<1>1. /\ pc = "insert" /\ pc' = "poll" /\ m_logmsg' = NoLine
      /\ table' = IF Inserts(m_logmsg) THEN Append(table, row) ELSE table
      /\ refused' = IF Inserts(m_logmsg) THEN refused
                                         ELSE refused \cup {m_logmsg}
      /\ disturbed' = IF reading THEN disturbed \cup {num} ELSE disturbed
      /\ UNCHANGED <<sent, inbox, lost, overrun, exists>>
  BY DEF AddLogInsert, InsertRow, AddRow, Disturbed, AfterInsert
<1>2. /\ m_logmsg \in LineType /\ m_logmsg.name = "log"
      /\ InHand = hand /\ table \in Seq(LineType) /\ refused \subseteq LineType
  BY <1>1, LogFacts DEF Writing
<1>3. /\ row \in LineType /\ row.name = "log" /\ row.n = num
      /\ row.text.quoted = m_logmsg.text.quoted
  BY <1>2, RowType
<1> HIDE DEF row
<1>4. InHand' = {} /\ Numbers(inbox)' = Numbers(inbox)
  <2>1. NoLine.n = 0
    BY DEF NoLine
  <2>2. QED
    BY <1>1, <2>1 DEF InHand, Numbers
<1>5. HandInv'
  BY <1>1 DEF HandInv, Writing
<1>6. Placed /\ LineOrder /\ TableInv
  BY DEF LogInv
<1>7. LogTypeOK'
  <2>1. Append(table, row) \in Seq(LineType)
    BY <1>2, <1>3, AppendProperties
  <2>2. table' \in Seq(LineType) /\ refused' \subseteq LineType
    BY <1>1, <1>2, <2>1
  <2>3. QED
    BY <1>1, <2>2 DEF LogInv, LogTypeOK
<1>8. CASE Inserts(m_logmsg)
  <2>1. table' = Append(table, row) /\ refused' = refused
    BY <1>1, <1>8
  <2>2. /\ Len(table) \in Nat /\ Len(table') = Len(table) + 1
        /\ \A k \in 1..Len(table) : table'[k] = table[k]
        /\ table'[Len(table) + 1] = row
    BY <1>2, <1>3, <2>1, AppendProperties
  <2>3. Numbers(table') = Numbers(table) \cup hand
    BY <1>2, <1>3, <2>1, NumbersAdded
  <2>4. RefusedLines' = RefusedLines
    BY <2>1 DEF RefusedLines
  <2>5. Placed'
    <3>1. Partition(Numbers(inbox), {}, Numbers(table) \cup hand, RefusedLines,
                    lost, overrun, sent)
      BY <1>2, <1>6 DEF Placed, Partition
    <3>2. QED
      BY <1>1, <1>4, <2>3, <2>4, <3>1 DEF Placed
  <2>6. \A c \in Numbers(table) : num # 0 => c < num
    BY <1>2, <1>6 DEF LineOrder
  <2>7. LineOrder'
    <3>1. \A a \in Numbers(inbox), b \in hand \cup Numbers(table) : b < a
      BY <1>2, <1>6 DEF LineOrder
    <3>2. QED
      BY <1>1, <1>4, <1>6, <2>3, <3>1 DEF LineOrder
  <2>8. TableInv'
    <3>1. ~m_logmsg.text.quoted
      BY <1>8 DEF Inserts
    <3>2. ASSUME NEW k \in 1..Len(table')
          PROVE  table'[k].name = "log" /\ ~table'[k].text.quoted
      <4>1. CASE k = Len(table) + 1
        BY <1>3, <2>2, <3>1, <4>1
      <4>2. CASE k # Len(table) + 1
        <5>1. k \in 1..Len(table) /\ table'[k] = table[k]
          BY <2>2, <4>2
        <5>2. QED
          BY <1>6, <5>1 DEF TableInv
      <4>3. QED
        BY <4>1, <4>2
    <3>3. ASSUME NEW k \in 1..Len(table'), NEW l \in 1..Len(table'), k < l,
                 table'[k].n # 0, table'[l].n # 0
          PROVE  table'[k].n < table'[l].n
      <4>1. k \in 1..Len(table) /\ table'[k] = table[k]
        BY <2>2, <3>3
      <4>2. CASE l = Len(table) + 1
        <5>1. table[k].n \in Numbers(table)
          BY <3>3, <4>1, NumbersIn
        <5>2. table'[l].n = num
          BY <1>3, <2>2, <4>2
        <5>3. QED
          BY <2>6, <3>3, <4>1, <5>1, <5>2
      <4>3. CASE l # Len(table) + 1
        <5>1. l \in 1..Len(table) /\ table'[l] = table[l]
          BY <2>2, <4>3
        <5>2. QED
          BY <1>6, <3>3, <4>1, <5>1 DEF TableInv, InOrder
      <4>4. QED
        BY <4>2, <4>3
    <3>4. \A line \in refused' : line.text.quoted \/ line.n \in disturbed'
      BY <1>1, <1>6, <2>1 DEF TableInv
    <3>5. InOrder(table')
      BY <3>3 DEF InOrder
    <3>6. QED
      BY <3>2, <3>4, <3>5 DEF TableInv
  <2>9. QED
    BY <1>5, <1>7, <2>5, <2>7, <2>8 DEF LogInv
<1>9. CASE ~Inserts(m_logmsg)
  <2>1. table' = table /\ refused' = refused \cup {m_logmsg}
    BY <1>1, <1>9
  <2>2. RefusedLines' = RefusedLines \cup hand
    BY <2>1 DEF RefusedLines
  <2>3. Numbers(table)' = Numbers(table)
    BY <2>1 DEF Numbers
  <2>4. Placed'
    <3>1. Partition(Numbers(inbox), {}, Numbers(table), RefusedLines \cup hand,
                    lost, overrun, sent)
      BY <1>2, <1>6 DEF Placed, Partition
    <3>2. QED
      BY <1>1, <1>4, <2>2, <2>3, <3>1 DEF Placed
  <2>5. LineOrder'
    BY <1>1, <1>4, <1>6, <2>3 DEF LineOrder
  <2>6. m_logmsg.text.quoted \/ num \in disturbed'
    <3>1. ~exists \/ reading \/ m_logmsg.text.quoted
      BY <1>9 DEF Inserts
    <3>2. CASE ~exists
      BY <1>1, <3>2 DEF LogInv, HandInv
    <3>3. CASE reading
      BY <1>1, <3>3
    <3>4. QED
      BY <3>1, <3>2, <3>3
  <2>7. TableInv'
    <3>1. disturbed \subseteq disturbed'
      BY <1>1
    <3>2. \A line \in refused' : line.text.quoted \/ line.n \in disturbed'
      BY <1>6, <2>1, <2>6, <3>1 DEF TableInv
    <3>3. QED
      BY <1>6, <2>1, <3>2 DEF TableInv, InOrder
  <2>8. QED
    BY <1>5, <1>7, <2>4, <2>5, <2>7 DEF LogInv
<1>10. QED
  BY <1>8, <1>9

\* The console reads the table and changes nothing.
LEMMA ConsoleReads ==
  ASSUME NEW writing, DebugNext(writing)
  PROVE  UNCHANGED <<exists, table>>
<1>1. ASSUME NEW pts \in Pts, NEW line \in Typed, SendMsg(pts, line)
      PROVE  UNCHANGED <<exists, table>>
  BY <1>1 DEF SendMsg, dbVars
<1>2. CASE Task(writing)
  <2>1. ASSUME NEW name, NEW words, Call(name, words, writing)
        PROVE  UNCHANGED <<exists, table>>
    BY <2>1 DEF Call, PrintSock, Log, Answer, GetLogLines, QueryBegins, dbVars
  <2>2. QED
    BY <1>2, <2>1 DEF Task, dbVars
<1>3. CASE GetLogReturns
  BY <1>3 DEF GetLogReturns, QueryEnds
<1>4. CASE StartTask
  BY <1>4 DEF StartTask, QueryEnds, dbVars
<1>5. QED
  BY <1>1, <1>2, <1>3, <1>4 DEF DebugNext

LEMMA LogSteps ==
  ASSUME LogInv, LogServerNext
  PROVE  LogInv'
<1>1. CASE BrokerKnows
  <2>1. /\ UNCHANGED <<sent, inbox, table, refused, lost, overrun, m_logmsg,
                       disturbed>>
        /\ UNCHANGED <<pc, exists>>
    BY <1>1 DEF BrokerKnows, dbVars
  <2>2. QED
    BY <2>1, LinesStay DEF LogInv, HandInv, Writing
<1>2. ASSUME NEW text \in Text, PubLog(text) PROVE LogInv'
  BY <1>2, LogPub
<1>3. CASE StrayMessage
  BY <1>3, LogStray
<1>4. CASE ConnectionBreaks
  <2>1. /\ inbox' = <<>> /\ m_logmsg' = m_logmsg
        /\ lost' = lost \cup Numbers(inbox)
        /\ UNCHANGED <<sent, disturbed, refused, overrun, exists, table, pc>>
    BY <1>4 DEF ConnectionBreaks, dbVars
  <2>2. HandInv'
    BY <2>1 DEF LogInv, HandInv, Writing
  <2>3. QED
    BY <2>1, <2>2, LogLoses
<1>5. ASSUME NEW ok \in SubResults, SubMsg(ok) PROVE LogInv'
  <2>1. /\ UNCHANGED <<sent, inbox, table, refused, lost, overrun, m_logmsg,
                       disturbed, exists>>
        /\ pc \notin {"create", "insert"} /\ pc' \notin {"create", "insert"}
    BY <1>5 DEF SubMsg, dbVars
  <2>2. HandInv'
    BY <2>1 DEF LogInv, HandInv, Writing
  <2>3. QED
    BY <2>1, <2>2, LinesStay
<1>6. CASE GetLog
  BY <1>6, LogGet
<1>7. CASE AddLogCreate
  BY <1>7, LogCreates
<1>8. CASE AddLogInsert
  BY <1>8, LogInserts
<1>9. CASE TaskEnds
  <2>1. /\ UNCHANGED <<sent, inbox, table, refused, lost, overrun, m_logmsg,
                       disturbed, exists>>
        /\ pc \notin {"create", "insert"} /\ pc' \notin {"create", "insert"}
    BY <1>9 DEF TaskEnds, dbVars
  <2>2. HandInv'
    BY <2>1 DEF LogInv, HandInv, Writing
  <2>3. QED
    BY <2>1, <2>2, LinesStay
<1>10. CASE Destroy
  <2>1. /\ UNCHANGED <<sent, inbox, table, refused, lost, overrun, m_logmsg,
                       disturbed>>
        /\ UNCHANGED <<pc, exists>>
    BY <1>10 DEF Destroy, dbVars
  <2>2. QED
    BY <2>1, LinesStay DEF LogInv, HandInv, Writing
<1>11. CASE Gone
  <2>1. /\ inbox' = <<>> /\ m_logmsg' = NoLine
        /\ lost' = lost \cup ((Numbers(inbox) \cup {m_logmsg.n}) \ {0})
        /\ UNCHANGED <<sent, disturbed, refused, overrun, exists, table>>
        /\ pc' = "down"
    BY <1>11 DEF Gone, dbVars
  <2>2. HandInv'
    BY <2>1 DEF HandInv, Writing
  <2>3. QED
    BY <2>1, <2>2, LogLoses
<1>12. CASE Restart
  <2>1. /\ UNCHANGED <<sent, inbox, table, refused, lost, overrun, m_logmsg,
                       disturbed, exists>>
        /\ pc \notin {"create", "insert"} /\ pc' \notin {"create", "insert"}
    BY <1>12 DEF Restart, dbVars
  <2>2. HandInv'
    BY <2>1 DEF LogInv, HandInv, Writing
  <2>3. QED
    BY <2>1, <2>2, LinesStay
<1>13. CASE ConnReadCb
  <2>1. PICK k \in 1..Len(inbox) : Overrun(k)
    BY <1>13 DEF ConnReadCb
  <2>2. UNCHANGED <<pc, m_logmsg, sent, disturbed, refused, lost, exists, table>>
    BY <1>13 DEF ConnReadCb, dbVars
  <2>3. HandInv'
    BY <2>2 DEF LogInv, HandInv, Writing
  <2>4. QED
    BY <2>1, <2>2, <2>3, LogOverruns
<1>14. CASE GetMangled
  BY <1>14, LogMangled
<1>15. QED
  BY <1>1, <1>2, <1>3, <1>4, <1>5, <1>6, <1>7, <1>8, <1>9, <1>10, <1>11, <1>12,
     <1>13, <1>14
  DEF LogServerNext, LogTask, Exit, Crash

(* Every line the broker has passed on is in exactly one place, however    *)
(* many lines, faults and readers of the file there are and whatever the   *)
(* limit of the buffer does to them; a line is refused for its quote or    *)
(* for a reader only; the table is in order.                               *)
THEOREM LinesAlwaysAccounted == ConsoleSpec => []LinesAccountedFor
<1>1. LogInv /\ [ConsoleNext]_consoleVars => LogInv'
  <2> SUFFICES ASSUME LogInv, [ConsoleNext]_consoleVars PROVE LogInv'
    OBVIOUS
  <2>1. CASE LogServerNext
    BY <2>1, LogSteps
  <2>2. CASE DebugNext(Writing) /\ UNCHANGED serverVars
    <3>1. UNCHANGED <<exists, table>>
      BY <2>2, ConsoleReads
    <3>2. UNCHANGED <<sent, inbox, refused, lost, overrun, m_logmsg, disturbed,
                      pc>>
      BY <2>2 DEF serverVars
    <3>3. QED
      BY <3>1, <3>2, LinesStay DEF LogInv, HandInv, Writing
  <2>3. CASE UNCHANGED consoleVars
    BY <2>3, LinesStay DEF consoleVars, serverVars, dbVars, LogInv, HandInv, Writing
  <2>4. QED
    BY <2>1, <2>2, <2>3 DEF ConsoleNext
<1>2. LogInv => LinesAccountedFor
  <2> SUFFICES ASSUME LogInv PROVE LinesAccountedFor
    OBVIOUS
  <2>1. LET places == <<Numbers(inbox), InHand, Numbers(table), RefusedLines,
                        lost, overrun>>
        IN  /\ UNION {places[k] : k \in 1..6} = 1..sent
            /\ \A k, l \in 1..6 : k # l => places[k] \cap places[l] = {}
    BY PartitionIs DEF LogInv, Placed
  <2>2. TableInv
    BY DEF LogInv
  <2>3. QED
    BY <2>1, <2>2 DEF LinesAccountedFor, TableInv, InOrder
<1>3. ConsoleInit => LogInv
  BY LogStarts DEF ConsoleInit
<1>4. QED
  BY <1>1, <1>2, <1>3, PTL DEF ConsoleSpec

-----------------------------------------------------------------------------
(* The debug console.  The thread has words in its hand exactly behind an  *)
(* odd number of bare messages.                                            *)

Word == Pts \cup {Prog} \cup STRING

\* A message as SendMsg makes it.
MsgType == {msg \in Seq(Word) : Len(msg) >= 2 /\ msg[1] \in Pts}

DebugTypeOK ==
  queue \in Seq(MsgType) /\ heard \in Seq(MsgType) /\ vecstr \in Seq(Word)

\* What CommandsAreCalled says of one message.
IsCalled(k) ==
  /\ ~Bare(heard[k]) /\ heard[k][3] \in m_map_funname_pfun /\ EvenBefore(k)

WordsInv ==
  \E j \in 1..(Len(heard) + 1) :
    /\ BareFrom(j, Len(heard) + 1)
    /\ IF (Len(heard) + 1 - j) % 2 = 0 THEN vecstr = <<>> ELSE Len(vecstr) = 2

DebugInv == DebugTypeOK /\ WordsInv /\ CommandsAreCalled

\* There is one place where the bare messages begin.
LEMMA OneBeginning ==
  ASSUME NEW k \in Nat, NEW i \in 1..k, NEW j \in 1..k, BareFrom(i, k), BareFrom(j, k)
  PROVE  i = j
<1>1. ASSUME NEW a \in 1..k, NEW b \in 1..k, BareFrom(a, k), BareFrom(b, k), a < b
      PROVE  FALSE
  <2>1. b > 1 /\ b - 1 \in a..(k - 1)
    BY <1>1
  <2>2. QED
    BY <1>1, <2>1 DEF BareFrom
<1>2. ~(i < j) /\ ~(j < i)
  BY <1>1
<1>3. QED
  BY <1>2

LEMMA Parity ==
  ASSUME NEW n \in Nat
  PROVE  n % 2 = 0 <=> (n + 1) % 2 # 0
  OBVIOUS

\* A message that is heard changes nothing for those before it.
LEMMA BareKept ==
  ASSUME NEW n \in Nat, Len(heard) = n, NEW h, Len(heard') = n + 1,
         \A i \in 1..n : heard'[i] = heard[i], heard'[n + 1] = h,
         NEW k \in 1..(n + 1), NEW j \in 1..k
  PROVE  BareFrom(j, k)' <=> BareFrom(j, k)
<1>1. \A i \in j..(k - 1) : heard'[i] = heard[i]
  OBVIOUS
<1>2. j > 1 => heard'[j - 1] = heard[j - 1]
  OBVIOUS
<1>3. QED
  BY <1>1, <1>2 DEF BareFrom, Bare

\* The bare messages go on with another, or end.
LEMMA BareGoesOn ==
  ASSUME NEW n \in Nat, Len(heard') = n + 1, Bare(heard'[n + 1]),
         NEW j \in 1..(n + 1), BareFrom(j, n + 1)',
         IF (n + 1 - j) % 2 = 0 THEN Len(vecstr') = 2 ELSE vecstr' = <<>>
  PROVE  WordsInv'
<1>1. BareFrom(j, (n + 1) + 1)'
  <2>1. \A i \in j..(((n + 1) + 1) - 1) : Bare(heard'[i])
    <3>1. ASSUME NEW i \in j..(((n + 1) + 1) - 1)
          PROVE  i \in j..((n + 1) - 1) \/ i = n + 1
      OBVIOUS
    <3>2. \A i \in j..((n + 1) - 1) : Bare(heard'[i])
      BY DEF BareFrom, Bare
    <3>3. QED
      BY <3>1, <3>2
  <2>2. j > 1 => ~Bare(heard'[j - 1])
    BY DEF BareFrom, Bare
  <2>3. QED
    BY <2>1, <2>2 DEF BareFrom, Bare
<1>2. j \in 1..((n + 1) + 1) /\ n + 1 - j \in Nat /\ (n + 1) + 1 - j = (n + 1 - j) + 1
  OBVIOUS
<1>3. (n + 1 - j) % 2 = 0 <=> ((n + 1) + 1 - j) % 2 # 0
  BY <1>2, Parity
<1>4. QED
  BY <1>1, <1>2, <1>3 DEF WordsInv

LEMMA BareEnds ==
  ASSUME NEW n \in Nat, Len(heard') = n + 1, ~Bare(heard'[n + 1]), vecstr' = <<>>
  PROVE  WordsInv'
<1> DEFINE j == (n + 1) + 1
<1>1. /\ j \in 1..((n + 1) + 1) /\ j..(((n + 1) + 1) - 1) = {} /\ j - 1 = n + 1
      /\ ((n + 1) + 1 - j) % 2 = 0
  OBVIOUS
<1>2. BareFrom(j, (n + 1) + 1)'
  BY <1>1 DEF BareFrom, Bare
<1>3. QED
  BY <1>1, <1>2 DEF WordsInv

LEMMA DebugStarts == DebugInit => DebugInv
<1> SUFFICES ASSUME DebugInit PROVE DebugInv
  OBVIOUS
<1>1. queue = <<>> /\ heard = <<>> /\ vecstr = <<>> /\ ran = {}
  BY DEF DebugInit
<1>2. Len(heard) = 0 /\ 1..0 = {}
  BY <1>1
<1>3. DebugTypeOK
  <2>1. <<>> \in Seq(MsgType) /\ <<>> \in Seq(Word)
    OBVIOUS
  <2>2. QED
    BY <1>1, <2>1 DEF DebugTypeOK
<1>4. WordsInv
  <2>1. 1 \in 1..(0 + 1) /\ (0 + 1 - 1) % 2 = 0 /\ 1..((0 + 1) - 1) = {}
    OBVIOUS
  <2>2. BareFrom(1, 0 + 1)
    BY <2>1 DEF BareFrom
  <2>3. QED
    BY <1>1, <1>2, <2>1, <2>2 DEF WordsInv
<1>5. CommandsAreCalled
  BY <1>1, <1>2 DEF CommandsAreCalled
<1>6. QED
  BY <1>3, <1>4, <1>5 DEF DebugInv

\* Steps of somebody else.
LEMMA WordsStay ==
  ASSUME DebugInv, UNCHANGED <<vecstr, heard, ran>>, queue' \in Seq(MsgType)
  PROVE  DebugInv'
  BY DEF DebugInv, DebugTypeOK, WordsInv, CommandsAreCalled, BareFrom, EvenBefore,
         Bare

LEMMA MessageSent ==
  ASSUME DebugInv, NEW pts \in Pts, NEW line \in Typed, SendMsg(pts, line)
  PROVE  DebugInv'
<1> DEFINE msg == <<pts, Prog>> \o line
<1>1. line \in Seq(Word)
  BY DebugAssumption DEF Word
<1>2. <<pts, Prog>> \in Seq(Word) /\ Len(<<pts, Prog>>) = 2
  BY DEF Word
<1>3. msg \in Seq(Word) /\ Len(msg) >= 2 /\ msg[1] = pts
  <2>1. /\ msg \in Seq(Word) /\ Len(msg) = Len(<<pts, Prog>>) + Len(line)
        /\ msg[1] = <<pts, Prog>>[1]
    BY <1>1, <1>2, ConcatProperties
  <2>2. QED
    BY <1>1, <1>2, <2>1
<1>4. msg \in MsgType
  BY <1>3 DEF MsgType
<1> HIDE DEF msg
<1>5. /\ queue' = Append(queue, msg) /\ UNCHANGED <<vecstr, heard, ran>>
  BY DEF SendMsg, msg
<1>6. queue \in Seq(MsgType)
  BY DEF DebugInv, DebugTypeOK
<1>7. queue' \in Seq(MsgType)
  BY <1>4, <1>5, <1>6
<1>8. QED
  BY <1>5, <1>7, WordsStay

\* The program is started again with nothing in its hands.
LEMMA StartedAgain ==
  ASSUME DebugInv, StartTask
  PROVE  DebugInv'
<1>1. queue' = queue /\ heard' = <<>> /\ vecstr' = <<>> /\ ran' = {}
  BY DEF StartTask
<1>2. Len(heard') = 0 /\ 1..0 = {}
  BY <1>1
<1>3. DebugTypeOK'
  <2>1. <<>> \in Seq(MsgType) /\ <<>> \in Seq(Word)
    OBVIOUS
  <2>2. QED
    BY <1>1, <2>1 DEF DebugInv, DebugTypeOK
<1>4. WordsInv'
  <2>1. 1 \in 1..(0 + 1) /\ (0 + 1 - 1) % 2 = 0 /\ 1..((0 + 1) - 1) = {}
    OBVIOUS
  <2>2. BareFrom(1, 0 + 1)'
    BY <2>1 DEF BareFrom
  <2>3. QED
    BY <1>1, <1>2, <2>1, <2>2 DEF WordsInv
<1>5. CommandsAreCalled'
  BY <1>1, <1>2 DEF CommandsAreCalled
<1>6. QED
  BY <1>3, <1>4, <1>5 DEF DebugInv

\* A message is heard.
LEMMA MessageHeard ==
  ASSUME DebugInv, NEW writing, Task(writing)
  PROVE  DebugInv'
<1> DEFINE h     == Head(queue)
           words == vecstr \o h
<1>0. PICK n \in Nat : n = Len(heard)
  BY DEF DebugInv, DebugTypeOK
<1>1. queue # <<>> /\ queue' = Tail(queue) /\ heard' = Append(heard, h)
  BY DEF Task
<1>2. IF Len(words) > 2
      THEN /\ vecstr' = <<>>
           /\ ran' = IF words[3] \in m_map_funname_pfun
                     THEN ran \cup {<<n + 1, words>>} ELSE ran
      ELSE vecstr' = words /\ ran' = ran
  BY <1>0 DEF Task, Cleared
<1>3. queue \in Seq(MsgType) /\ heard \in Seq(MsgType) /\ vecstr \in Seq(Word)
  BY DEF DebugInv, DebugTypeOK
<1>4. h \in MsgType /\ queue' \in Seq(MsgType)
  BY <1>1, <1>3, HeadTailProperties
<1>5. h \in Seq(Word) /\ Len(h) \in Nat /\ Len(h) >= 2 /\ h[1] \in Pts
  BY <1>4 DEF MsgType
<1>6. /\ heard' \in Seq(MsgType) /\ Len(heard') = n + 1
      /\ \A i \in 1..n : heard'[i] = heard[i]
      /\ heard'[n + 1] = h /\ n \in Nat
  BY <1>1, <1>3, <1>4, <1>0, AppendProperties
<1>7. PICK j \in 1..(n + 1) :
        /\ BareFrom(j, n + 1)
        /\ IF (n + 1 - j) % 2 = 0 THEN vecstr = <<>> ELSE Len(vecstr) = 2
  BY <1>0 DEF DebugInv, WordsInv
<1>8. CommandsAreCalled
  BY DEF DebugInv
<1> HIDE DEF h, words
<1>9. n = Len(heard)
  BY <1>0
<1>10. ASSUME NEW k \in 1..(n + 1), NEW i \in 1..k
       PROVE  BareFrom(i, k)' <=> BareFrom(i, k)
  BY <1>6, <1>9, BareKept
<1>11. EvenBefore(n + 1)' <=> (n + 1 - j) % 2 = 0
  <2>1. n + 1 \in 1..(n + 1) /\ n + 1 \in Nat
    BY <1>6
  <2>2. ASSUME NEW i \in 1..(n + 1), BareFrom(i, n + 1)'
        PROVE  i = j
    <3>1. BareFrom(i, n + 1)
      BY <1>10, <2>1, <2>2
    <3>2. QED
      BY <1>7, <2>1, <3>1, OneBeginning
  <2>3. BareFrom(j, n + 1)'
    BY <1>7, <1>10, <2>1
  <2>4. EvenBefore(n + 1)' <=>
          \E i \in 1..(n + 1) : BareFrom(i, n + 1)' /\ (n + 1 - i) % 2 = 0
    BY DEF EvenBefore, BareFrom
  <2>5. EvenBefore(n + 1)' => (n + 1 - j) % 2 = 0
    BY <2>2, <2>4
  <2>6. (n + 1 - j) % 2 = 0 => EvenBefore(n + 1)'
    BY <1>7, <2>3, <2>4
  <2>7. QED
    BY <2>5, <2>6
<1>12. DebugTypeOK' /\ \/ vecstr' = <<>>
                       \/ vecstr' = words /\ words \in Seq(Word)
  <2>1. words \in Seq(Word)
    BY <1>3, <1>5, ConcatProperties DEF words
  <2>2. <<>> \in Seq(Word)
    OBVIOUS
  <2>3. QED
    BY <1>2, <1>4, <1>6, <2>1, <2>2 DEF DebugTypeOK
<1>13. \* what is remembered
       /\ WordsInv'
       /\ ran' = IF /\ ~Bare(h) /\ h[3] \in m_map_funname_pfun
                    /\ (n + 1 - j) % 2 = 0
                 THEN ran \cup {<<n + 1, h>>} ELSE ran
  <2>1. CASE (n + 1 - j) % 2 = 0
    <3>1. words = h
      BY <1>5, <1>7, <2>1 DEF words
    <3>2. CASE Len(h) = 2
      <4>1. vecstr' = h /\ ran' = ran /\ Bare(h)
        BY <1>2, <3>1, <3>2 DEF Bare
      <4>2. WordsInv'
        BY <1>6, <1>7, <1>10, <2>1, <3>2, <4>1, BareGoesOn
      <4>3. QED
        BY <4>1, <4>2
    <3>3. CASE Len(h) # 2
      <4>8. Len(h) > 2
        <5>1. Len(h) # 2
          BY <3>3
        <5>2. QED
          BY <1>5, <5>1
      <4>9. ~Bare(h)
        BY <3>3 DEF Bare
      <4>1. Len(h) > 2 /\ ~Bare(h)
        BY <4>8, <4>9
      <4>2. /\ vecstr' = <<>>
            /\ ran' = IF h[3] \in m_map_funname_pfun
                      THEN ran \cup {<<n + 1, h>>} ELSE ran
        BY <1>2, <3>1, <4>1
      <4>3. WordsInv'
        BY <1>6, <4>1, <4>2, BareEnds
      <4>4. QED
        BY <2>1, <4>1, <4>2, <4>3
    <3>4. QED
      BY <3>2, <3>3
  <2>2. CASE (n + 1 - j) % 2 # 0
    <3>1. Len(vecstr) = 2
      BY <1>7, <2>2
    <3>2. Len(words) > 2 /\ words[3] = h[1]
      <4>1. /\ Len(words) = Len(vecstr) + Len(h)
            /\ \A i \in 1..(Len(vecstr) + Len(h)) :
                 words[i] = IF i <= Len(vecstr) THEN vecstr[i]
                                                ELSE h[i - Len(vecstr)]
        BY <1>3, <1>5, ConcatProperties DEF words
      <4>2. 3 \in 1..(2 + Len(h)) /\ ~(3 <= 2) /\ 3 - 2 = 1
        BY <1>5
      <4>3. QED
        BY <1>5, <3>1, <4>1, <4>2
    <3>3. words[3] \notin m_map_funname_pfun
      BY <1>5, <3>2, DebugAssumption
    <3>4. vecstr' = <<>> /\ ran' = ran
      BY <1>2, <3>2, <3>3
    <3>5. WordsInv'
      <4>1. CASE Bare(h)
        BY <1>6, <1>7, <1>10, <2>2, <3>4, <4>1, BareGoesOn
      <4>2. CASE ~Bare(h)
        BY <1>6, <3>4, <4>2, BareEnds
      <4>3. QED
        BY <4>1, <4>2
    <3>6. QED
      BY <2>2, <3>4, <3>5
  <2>3. QED
    BY <2>1, <2>2
<1>14. CommandsAreCalled'
  <2>1. ASSUME NEW k \in 1..n
        PROVE  heard'[k] = heard[k] /\ (EvenBefore(k)' <=> EvenBefore(k))
    <3>1. k \in 1..(n + 1)
      BY <1>6
    <3>2. QED
      BY <1>6, <1>10, <3>1 DEF EvenBefore
  <2> DEFINE Old == {k \in 1..n : IsCalled(k)}
             New == {k \in 1..(n + 1) : IsCalled(k)'}
  <2>2. ran = {<<k, heard[k]>> : k \in Old}
    BY <1>8, <1>9 DEF CommandsAreCalled, IsCalled
  <2>3. CommandsAreCalled' <=> ran' = {<<k, heard'[k]>> : k \in New}
    BY <1>6 DEF CommandsAreCalled, IsCalled
  <2>4. IsCalled(n + 1)' <=> /\ ~Bare(h) /\ h[3] \in m_map_funname_pfun
                             /\ (n + 1 - j) % 2 = 0
    <3>1. IsCalled(n + 1)' <=> /\ ~Bare(heard'[n + 1])
                               /\ heard'[n + 1][3] \in m_map_funname_pfun
                               /\ EvenBefore(n + 1)'
      BY DEF IsCalled, Bare, m_map_funname_pfun
    <3>2. heard'[n + 1] = h
      BY <1>6
    <3>3. QED
      BY <1>11, <3>1, <3>2
  <2>5. \A k \in 1..n : IsCalled(k)' <=> IsCalled(k)
    BY <2>1 DEF IsCalled, Bare
  <2>6. New = IF IsCalled(n + 1)' THEN Old \cup {n + 1} ELSE Old
    <3>1. 1..(n + 1) = (1..n) \cup {n + 1} /\ n + 1 \notin 1..n
      BY <1>6
    <3>2. ASSUME NEW k
          PROVE  k \in New <=>
                   \/ k \in Old
                   \/ k = n + 1 /\ IsCalled(n + 1)'
      <4>1. CASE k \in 1..n
        BY <2>5, <3>1, <4>1
      <4>2. CASE k = n + 1
        BY <3>1, <4>2
      <4>3. CASE k \notin 1..(n + 1)
        BY <3>1, <4>3
      <4>4. QED
        BY <3>1, <4>1, <4>2, <4>3
    <3> HIDE DEF Old, New
    <3>3. QED
      BY <3>2
  <2>7. \A k \in Old : heard'[k] = heard[k]
    BY <2>1
  <2> HIDE DEF Old, New
  <2>8. CASE IsCalled(n + 1)'
    <3>1. ran' = ran \cup {<<n + 1, h>>}
      BY <1>13, <2>4, <2>8
    <3>2. New = Old \cup {n + 1}
      BY <2>6, <2>8
    <3>3. QED
      BY <1>6, <2>2, <2>3, <2>7, <3>1, <3>2
  <2>9. CASE ~IsCalled(n + 1)'
    <3>1. ran' = ran
      BY <1>13, <2>4, <2>9
    <3>2. New = Old
      BY <2>6, <2>9
    <3>3. QED
      BY <2>2, <2>3, <2>7, <3>1, <3>2
  <2>10. QED
    BY <2>8, <2>9
<1>15. QED
  BY <1>12, <1>13, <1>14 DEF DebugInv

LEMMA DebugStep == DebugInv /\ [ConsoleNext]_consoleVars => DebugInv'
<1> SUFFICES ASSUME DebugInv, [ConsoleNext]_consoleVars
             PROVE  DebugInv'
  OBVIOUS
<1>1. ASSUME UNCHANGED debugVars
      PROVE  DebugInv'
  <2>1. UNCHANGED <<vecstr, heard, ran>> /\ queue' = queue
    BY <1>1 DEF debugVars
  <2>2. queue' \in Seq(MsgType)
    BY <2>1 DEF DebugInv, DebugTypeOK
  <2>3. QED
    BY <2>1, <2>2, WordsStay
<1>2. ASSUME GetLogReturns
      PROVE  DebugInv'
  <2>1. UNCHANGED <<vecstr, heard, ran>> /\ queue' = queue
    BY <1>2 DEF GetLogReturns
  <2>2. queue' \in Seq(MsgType)
    BY <2>1 DEF DebugInv, DebugTypeOK
  <2>3. QED
    BY <2>1, <2>2, WordsStay
<1>3. ASSUME DebugNext(Writing)
      PROVE  DebugInv'
  BY <1>2, <1>3, MessageSent, MessageHeard, StartedAgain DEF DebugNext
<1>4. CASE UNCHANGED consoleVars
  BY <1>1, <1>4 DEF consoleVars
<1>5. QED
  BY <1>1, <1>3, <1>4 DEF ConsoleNext

(* The console calls a command, and with its own words only, unless the    *)
(* command comes behind an odd number of calls that named none, for any    *)
(* commands typed at any terminals and any starts of the program:          *)
(* DebugModule::Task collects the words of two messages into one vector.   *)
THEOREM CommandsAlwaysCalled == ConsoleSpec => []CommandsAreCalled
<1>1. ConsoleInit => DebugInv
  BY DebugStarts DEF ConsoleInit
<1>2. DebugInv => CommandsAreCalled
  BY DEF DebugInv
<1>3. QED
  BY <1>1, <1>2, DebugStep, PTL DEF ConsoleSpec
=============================================================================
