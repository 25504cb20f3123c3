---------------------------- MODULE LinesProofs ----------------------------
(***************************************************************************)
(* What holds of Lines for every size of the table, every set of addresses *)
(* and every input.                                                        *)
(***************************************************************************)
EXTENDS Lines, SequenceTheorems, WellFoundedInduction, TLAPS

-----------------------------------------------------------------------------
(* Types.                                                                  *)

LEMMA LineTypes == Line \subseteq Nat /\ NoLine \notin Line /\ NoLine \in Int
  BY MaxConnsAssumption DEF Line, NoLine

\* Growing the buffer keeps its length a natural number, and makes room for n
\* characters and the NUL after them (append_input).
LEMMA GrownFits ==
  ASSUME NEW len \in Nat, NEW n \in Nat
  PROVE  Grown(len, n) \in Nat /\ n + 1 < Grown(len, n)
<1>1. CASE n + 1 < len
  BY <1>1 DEF Grown
<1>2. CASE ~(n + 1 < len)
  <2> DEFINE q == (n + 1 - len) \div InbufLength
  <2>1. q \in Nat /\ n + 1 - len < InbufLength * (q + 1)
    BY <1>2, BoundAssumption
  <2>2. InbufLength * (q + 1) \in Nat
    BY <2>1, BoundAssumption
  <2>3. Grown(len, n) = len + InbufLength * (q + 1)
    BY <1>2 DEF Grown
  <2> HIDE DEF q
  <2> QED BY <2>1, <2>2, <2>3, BoundAssumption
<1> QED BY <1>1, <1>2

\* What is sent is text of the history too.
LEMMA SentTypes ==
  /\ NUL \in Sent /\ <<NUL>> \in Seq(Sent)
  /\ \A s \in Seq(Char) : s \in Seq(Sent)
  BY DEF Sent

\* What follows a place of a sequence.
LEMMA Behind ==
  ASSUME NEW S, NEW s \in Seq(S), NEW i \in 1 .. Len(s)
  PROVE  /\ SubSeq(s, i + 1, Len(s)) \in Seq(S)
         /\ Len(SubSeq(s, i + 1, Len(s))) = Len(s) - i
         /\ \A k \in 1 .. Len(s) - i : SubSeq(s, i + 1, Len(s))[k] = s[i + k]
  OBVIOUS

LEMMA InitTypeOK == Init => TypeOK
  BY LineTypes, BoundAssumption DEF Init, TypeOK, Quiet

LEMMA StepTypeOK == TypeOK /\ [Next]_vars => TypeOK'
<1> SUFFICES ASSUME TypeOK, [Next]_vars PROVE TypeOK'
  OBVIOUS
<1> USE LineTypes, BoundAssumption
<1>1. ASSUME NEW h \in Handle, NEW l \in Line, Connect(h, l) PROVE TypeOK'
  BY <1>1, SMTT(30) DEF TypeOK, Connect, Polling
<1>2. ASSUME NEW h \in Handle, ConnectFull(h) PROVE TypeOK'
  BY <1>2 DEF TypeOK, ConnectFull, Polling, table, history
<1>3. ASSUME NEW h \in Handle, ConnectRefused(h) PROVE TypeOK'
  BY <1>3 DEF TypeOK, ConnectRefused, Polling, table, history
<1>4. ASSUME NEW h \in Handle, NEW data \in Chunk, NEW err \in BOOLEAN,
             ClientRead(h, data, err)
      PROVE  TypeOK'
  <2> DEFINE took == {l \in Line : IsLineOf(l, h) /\ Connected(l)}
  <2>1. data \in Seq(Char)
    BY ChunkAssumption
  <2>2. inbuf' \in [Line -> Seq(Char)]
    BY <1>4, <2>1 DEF TypeOK, ClientRead
  <2>3. fifo' \in [Handle -> Seq(Sent)]
    <3>1. data \in Seq(Sent) /\ fifo \in [Handle -> Seq(Sent)]
      BY <2>1, SentTypes DEF TypeOK
    <3>2. fifo[h] \o data \in Seq(Sent)
      BY <3>1
    <3> QED BY <1>4, <3>1, <3>2 DEF ClientRead
  <2>4. length' \in [Line -> Nat]
    <3>1. ASSUME NEW l \in Line
          PROVE  Grown(length[l], Len(inbuf[l]) + Len(data)) \in Nat
      <4>1. length[l] \in Nat /\ Len(inbuf[l]) + Len(data) \in Nat
        BY <2>1 DEF TypeOK
      <4> QED BY <4>1, GrownFits
    <3> QED BY <1>4, <3>1 DEF TypeOK, ClientRead
  <2>5. status' \in [Line -> {"empty", "connecting", "disconnecting", "data",
                              "idle"}]
    BY <1>4 DEF TypeOK, ClientRead
  <2>6. socket' \in [Handle -> {"unallocated", "open", "closing", "closed"}]
    BY <1>4 DEF TypeOK, ClientRead
  <2> QED BY <1>4, <2>2, <2>3, <2>4, <2>5, <2>6 DEF TypeOK, ClientRead
<1>5. ASSUME NEW h \in Handle, NEW l \in Line, ClientNegotiates(h, l)
      PROVE  TypeOK'
  BY <1>5 DEF TypeOK, ClientNegotiates, Polling, history, Connected
<1>6. ASSUME NEW h \in Handle, ClientGone(h) PROVE TypeOK'
  BY <1>6 DEF TypeOK, ClientGone, Polling, table, history
<1>7. ASSUME NEW h \in Handle, NEW l \in Line, ClientOnClose(h, l)
      PROVE  TypeOK'
  BY <1>7 DEF TypeOK, ClientOnClose, Closing, history
<1>8. ASSUME NEW h \in Handle, ClientOnCloseNull(h) PROVE TypeOK'
  BY <1>8 DEF TypeOK, ClientOnCloseNull, Closing, table, history
<1>9. CASE EndPoll
  BY <1>9 DEF TypeOK, EndPoll, Polling, table, history
<1>10. CASE EndClosing
  BY <1>10 DEF TypeOK, EndClosing, Closing, table, history
<1>11. ASSUME NEW l \in Line, Scan(l)
       PROVE  /\ polls' \in 0 .. MaxPolls
              /\ lastconn' \in 0 .. 255
              /\ wait' \in [Line -> Nat]
  <2>1. polls' \in 0 .. MaxPolls
    BY <1>11 DEF TypeOK, Scan
  <2>2. lastconn' \in 0 .. 255
    BY <1>11, MaxConnsAssumption DEF Scan, Line
  <2>3. wait' \in [Line -> Nat]
    BY <1>11, MaxConnsAssumption DEF TypeOK, Scan, Longer
  <2> QED BY <2>1, <2>2, <2>3
<1>12. ASSUME NEW l \in Line, InputConnect(l) PROVE TypeOK'
  BY <1>11, <1>12, SMTT(30) DEF TypeOK, InputConnect, Scan, Coding
<1>13. ASSUME NEW l \in Line, InputDisconnect(l) PROVE TypeOK'
  <2>1. status' \in [Line -> {"empty", "connecting", "disconnecting", "data",
                              "idle"}]
    BY <1>13 DEF TypeOK, InputDisconnect
  <2>2. socket' \in [Handle -> {"unallocated", "open", "closing", "closed"}]
    BY <1>13 DEF TypeOK, InputDisconnect
  <2>3. /\ inbuf' \in [Line -> Seq(Char)]
        /\ fifo' \in [Handle -> Seq(Sent)]
    BY <1>13 DEF TypeOK, InputDisconnect
  <2>4. conn' \in [Handle -> Line \cup {NoLine}] /\ told' \in [Line -> Handle \cup {NoHandle}]
    BY <1>13 DEF TypeOK, InputDisconnect
  <2> QED BY <1>11, <1>13, <2>1, <2>2, <2>3, <2>4, SMTT(30)
          DEF TypeOK, InputDisconnect, Scan, Coding
<1>14. ASSUME NEW l \in Line, NEW i \in 1 .. MaxIn, NEW n \in 0 .. MaxIn, InputData(l, i, n)
       PROVE  TypeOK'
  <2>1. /\ i \in 1 .. Len(inbuf[l])
        /\ SubSeq(inbuf[l], 1, i - 1) \in Seq(Char)
        /\ SubSeq(SubSeq(inbuf[l], i + 1, Len(inbuf[l])), 1, n) \in Seq(Char)
    <3>1. inbuf[l] \in Seq(Char)
      BY DEF TypeOK
    <3>2. i \in 1 .. Len(inbuf[l])
      BY <1>14 DEF InputData, FirstNewline
    <3>3. SubSeq(inbuf[l], 1, i - 1) \in Seq(Char)
      BY <3>1, <3>2
    <3> DEFINE behind == SubSeq(inbuf[l], i + 1, Len(inbuf[l]))
    <3>4. behind \in Seq(Char)
      BY <3>1, <3>2
    <3>5. n \in 0 .. Len(behind)
      BY <1>14 DEF InputData, StringLength
    <3> HIDE DEF behind
    <3>6. SubSeq(behind, 1, n) \in Seq(Char)
      BY <3>4, <3>5
    <3> QED BY <3>2, <3>3, <3>6 DEF behind
  <2>2. ASSUME NEW h \in Handle
        PROVE  ReadUpTo(i, fifo[h]) \in Seq(Sent)
    <3>1. fifo[h] \in Seq(Sent)
      BY DEF TypeOK
    <3>2. FirstNewline(i, fifo[h]) =>
            SubSeq(fifo[h], i + 1, Len(fifo[h])) \in Seq(Sent)
      BY <3>1, Behind DEF FirstNewline
    <3> QED BY <3>2, SentTypes DEF ReadUpTo
  <2>7. inbuf' \in [Line -> Seq(Char)]
    BY <1>14, <2>1 DEF TypeOK, InputData
  <2>8. fifo' \in [Handle -> Seq(Sent)]
    BY <1>14, <2>2 DEF TypeOK, InputData
  <2>3. inbuf' \in [Line -> Seq(Char)] /\ fifo' \in [Handle -> Seq(Sent)]
    BY <2>7, <2>8
  <2>4. event' \in [ret : {-1, 0, 1, 2, 3}, line : Line \cup {NoLine},
                    text : Seq(Char)]
    BY <1>14, <2>1 DEF TypeOK, InputData, StatusAfter
  <2>5. status' \in [Line -> {"empty", "connecting", "disconnecting", "data",
                              "idle"}]
    BY <1>14 DEF TypeOK, InputData, StatusAfter
  <2>6. length' \in [Line -> Nat] /\ told' \in [Line -> Handle \cup {NoHandle}]
    BY <1>14 DEF TypeOK, InputData, StatusAfter
  <2> QED BY <1>11, <1>14, <2>3, <2>4, <2>5, <2>6
          DEF TypeOK, InputData, Scan, Coding
<1>19. ASSUME NEW l \in Line, InputNoNewline(l) PROVE TypeOK'
  <2>1. UNCHANGED <<phase, status, line_handle, telnet, inbuf, length, outbuf,
                    event, socket, conn, fifo, told>>
    BY <1>19 DEF InputNoNewline, table
  <2>2. fault' = "null_eol"
    BY <1>19 DEF InputNoNewline
  <2>3. Scan(l)
    BY <1>19 DEF InputNoNewline
  <2>4. /\ polls' \in 0 .. MaxPolls /\ lastconn' \in 0 .. 255
        /\ wait' \in [Line -> Nat]
    BY <1>11, <2>3
  <2>5. fault' \in {"none", "null_line", "null_eol", "bad_free", "bad_telnet"}
    BY <2>2
  <2> QED BY <2>1, <2>4, <2>5 DEF TypeOK
<1>15. CASE InputNothing
  BY <1>15, MaxConnsAssumption DEF TypeOK, InputNothing, Coding, table, Longer
<1>16. ASSUME NEW l \in Line, NetWrite(l) PROVE TypeOK'
  BY <1>16 DEF TypeOK, NetWrite, Coding, history, Connected
<1>17. CASE Flush
  BY <1>17 DEF TypeOK, Flush, Coding, history, Connected, Quiet
<1>18. CASE UNCHANGED vars
  BY <1>18 DEF TypeOK, vars, table, history
<1> QED
  BY <1>1, <1>2, <1>3, <1>4, <1>5, <1>6, <1>7, <1>8, <1>9, <1>10, <1>12,
     <1>13, <1>14, <1>15, <1>16, <1>17, <1>18, <1>19 DEF Next, NetInput

\* Every variable keeps its type, whatever the environment does.
THEOREM TypeCorrect == Spec => []TypeOK
<1>1. Init => TypeOK
  BY InitTypeOK
<1>2. TypeOK /\ [Next]_vars => TypeOK'
  BY StepTypeOK
<1> QED BY <1>1, <1>2, PTL DEF Spec

-----------------------------------------------------------------------------
(* The queueing of lc_net_input.                                           *)

\* How many calls of net.input may still report something else than line l:
\* the lines from Start up to l, or, when the scan is past l, those to the end
\* of the table, the call that finds nothing there, and the lines before l.
Ahead(l) == IF Start <= l THEN l - Start ELSE (MaxConns - Start) + 1 + l

\* FairQueue is not inductive: it does not say where the scan is.  What a line
\* has waited and what may still come before it never exceed MaxConns together.
FairInv == \A l \in Line : wait[l] + Ahead(l) <= MaxConns

LEMMA StartType == TypeOK => Start \in Line
  BY MaxConnsAssumption DEF TypeOK, Start, Line

LEMMA AheadArithmetic ==
  ASSUME NEW s \in Line, NEW l \in Line
  PROVE  (IF s <= l THEN l - s ELSE (MaxConns - s) + 1 + l) \in 0 .. MaxConns
  BY MaxConnsAssumption DEF Line

LEMMA AheadBound ==
  ASSUME TypeOK, NEW l \in Line
  PROVE  Ahead(l) \in 0 .. MaxConns
  BY StartType, MaxConnsAssumption DEF Ahead, Line

LEMMA InitFairInv == Init => FairInv
<1> SUFFICES ASSUME Init, NEW l \in Line PROVE wait[l] + Ahead(l) <= MaxConns
  BY DEF FairInv
<1>1. wait[l] = 0 /\ Ahead(l) \in 0 .. MaxConns
  BY InitTypeOK, AheadBound DEF Init
<1> QED BY <1>1, MaxConnsAssumption

\* A call that reports line m brings every other active line nearer.
LEMMA ScanFair ==
  ASSUME TypeOK, TypeOK', FairInv, NEW m \in Line, Scan(m)
  PROVE  FairInv'
<1> SUFFICES ASSUME NEW l \in Line PROVE wait'[l] + Ahead(l)' <= MaxConns
  BY DEF FairInv
<1>1. Start \in Line /\ Start' \in Line /\ Ahead(l)' \in 0 .. MaxConns
  <2>1. Start \in Line
    BY StartType
  <2>2. Start' = IF m + 1 >= MaxConns THEN 0 ELSE m + 1
    BY MaxConnsAssumption DEF Scan, Start, Line
  <2>3. Start' \in Line
    BY <2>2, MaxConnsAssumption DEF Line
  <2>4. Ahead(l)' = IF Start' <= l THEN l - Start'
                                  ELSE (MaxConns - Start') + 1 + l
    BY DEF Ahead
  <2>5. Ahead(l)' \in 0 .. MaxConns
    BY <2>3, <2>4, AheadArithmetic
  <2> QED BY <2>1, <2>3, <2>5
<1>2. CASE l = m \/ ~Active(l)
  <2>1. wait'[l] = 0
    BY <1>2 DEF Scan
  <2> QED BY <1>1, <2>1, MaxConnsAssumption
<1>3. CASE l # m /\ Active(l)
  <2>1. wait'[l] \in Nat /\ wait'[l] <= wait[l] + 1 /\ wait[l] \in Nat
    <3>1. wait[l] \in Nat
      BY DEF TypeOK
    <3>2. wait'[l] = Longer(wait[l])
      BY <1>3 DEF Scan
    <3> QED BY <3>1, <3>2, MaxConnsAssumption DEF Longer
  <2>2. m >= Start /\ ~(Start <= l /\ l < m)
    BY <1>3 DEF Scan
  <2>3. Start' = IF m + 1 >= MaxConns THEN 0 ELSE m + 1
    BY MaxConnsAssumption DEF Scan, Start, Line
  <2>4. Ahead(l)' <= Ahead(l) - 1
    BY <1>1, <1>3, <2>2, <2>3, MaxConnsAssumption DEF Ahead, Line
  <2>5. wait[l] + Ahead(l) <= MaxConns
    BY DEF FairInv
  <2>6. Ahead(l) \in Int /\ Ahead(l)' \in Int
    BY <1>1, AheadBound
  <2> QED BY <2>1, <2>4, <2>5, <2>6, MaxConnsAssumption
<1> QED BY <1>2, <1>3

\* A call that reports nothing starts the next scan at line 0.
LEMMA NothingFair ==
  ASSUME TypeOK, TypeOK', FairInv, InputNothing
  PROVE  FairInv'
<1> SUFFICES ASSUME NEW l \in Line PROVE wait'[l] + Ahead(l)' <= MaxConns
  BY DEF FairInv
<1>1. Start \in Line /\ Start' = 0 /\ Ahead(l)' = l
  <2>1. Start \in Line
    BY StartType
  <2>2. Start' = 0
    BY MaxConnsAssumption DEF InputNothing, Start
  <2> QED BY <2>1, <2>2 DEF Ahead, Line
<1>2. CASE ~Active(l)
  <2>1. wait'[l] = 0
    BY <1>2 DEF InputNothing
  <2> QED BY <1>1, <2>1, MaxConnsAssumption DEF Line
<1>3. CASE Active(l)
  <2>1. wait'[l] \in Nat /\ wait'[l] <= wait[l] + 1 /\ wait[l] \in Nat
    <3>1. wait[l] \in Nat
      BY DEF TypeOK
    <3>2. wait'[l] = Longer(wait[l])
      BY <1>3 DEF InputNothing
    <3> QED BY <3>1, <3>2, MaxConnsAssumption DEF Longer
  <2>2. Start > l
    BY <1>1, <1>3 DEF InputNothing, Line
  <2>3. wait[l] + Ahead(l) <= MaxConns
    BY DEF FairInv
  <2>4. Ahead(l) = (MaxConns - Start) + 1 + l
    BY <1>1, <2>2 DEF Ahead, Line
  <2> QED BY <1>1, <2>1, <2>3, <2>4, MaxConnsAssumption DEF Line
<1> QED BY <1>2, <1>3

LEMMA StepFairInv == TypeOK /\ TypeOK' /\ FairInv /\ [Next]_vars => FairInv'
<1> SUFFICES ASSUME TypeOK, TypeOK', FairInv, [Next]_vars PROVE FairInv'
  OBVIOUS
<1>1. CASE UNCHANGED <<lastconn, wait>>
  BY <1>1 DEF FairInv, Ahead, Start
<1>2. CASE \E l \in Line : Scan(l)
  BY <1>2, ScanFair
<1>3. CASE InputNothing
  BY <1>3, NothingFair
<1>4. \/ UNCHANGED <<lastconn, wait>>
      \/ \E l \in Line : Scan(l)
      \/ InputNothing
  BY DEF Next, Connect, ConnectFull, ConnectRefused, ClientRead,
         ClientNegotiates, ClientGone, ClientOnClose, ClientOnCloseNull,
         EndPoll, EndClosing, NetInput, InputConnect, InputDisconnect,
         InputData, InputNoNewline, NetWrite, Flush, vars, history
<1> QED BY <1>1, <1>2, <1>3, <1>4

\* Whatever the other lines do, an active line is passed over at most MaxConns
\* times before net.input reports it: for every size of the table.
THEOREM QueueIsFair == Spec => []FairQueue
<1>1. Init => TypeOK /\ FairInv
  BY InitTypeOK, InitFairInv
<1>2. TypeOK /\ FairInv /\ [Next]_vars => TypeOK' /\ FairInv'
  BY StepTypeOK, StepFairInv
<1>3. TypeOK /\ FairInv => FairQueue
  <2> SUFFICES ASSUME TypeOK, FairInv, NEW l \in Line
               PROVE  wait[l] <= MaxConns
    BY DEF FairQueue
  <2>1. wait[l] \in Nat /\ Ahead(l) \in 0 .. MaxConns
    BY AheadBound DEF TypeOK
  <2>2. wait[l] + Ahead(l) <= MaxConns
    BY DEF FairInv
  <2> QED BY <2>1, <2>2, MaxConnsAssumption
<1> QED BY <1>1, <1>2, <1>3, PTL DEF Spec

-----------------------------------------------------------------------------
(* Which line a socket has, and what the game may rely on.                 *)

\* What FindLineExact rests on: an occupied line and its socket point at each
\* other, and no line below it holds the same address, because it was the
\* first empty line when it was taken and what is below changes only to
\* addresses malloc gave out later.
OccupiedInv ==
  \A l \in Line : status[l] # "empty" =>
    /\ line_handle[l] \in Handle
    /\ conn[line_handle[l]] = l
    /\ telnet[l] = "live"

SocketInv ==
  \A h \in Handle :
    IF socket[h] = "unallocated" THEN conn[h] = NoLine
    ELSE /\ conn[h] \in Line
         /\ status[conn[h]] # "empty"
         /\ line_handle[conn[h]] = h
         /\ \A k \in Line : k < conn[h] => line_handle[k] # h
         /\ status[conn[h]] = "disconnecting" <=> socket[h] = "closed"

ClosedInv == phase = "code" => \A h \in Handle : socket[h] # "closing"

KnownInv ==
  \A l \in Line : told[l] # NoHandle =>
    status[l] # "empty" /\ told[l] = line_handle[l]

TableInv == TypeOK /\ OccupiedInv /\ SocketInv /\ ClosedInv /\ KnownInv

\* uv_accept succeeds, and clients come only while a line is free.
Orderly == Rough \cap {"full", "refused"} = {}

LEMMA InitTableInv == Init => TableInv
  BY InitTypeOK DEF Init, TableInv, OccupiedInv, SocketInv, ClosedInv, KnownInv

\* find_line finds the line of an allocated socket, and only that.
LEMMA FindLine ==
  ASSUME TableInv, NEW h \in Handle, socket[h] # "unallocated", NEW l \in Line
  PROVE  IsLineOf(l, h) <=> conn[h] = l
<1> DEFINE c == conn[h]
<1>1. /\ c \in Line
      /\ line_handle[c] = h
      /\ \A k \in Line : k < c => line_handle[k] # h
  BY DEF TableInv, SocketInv
<1>2. c = l => IsLineOf(l, h)
  BY <1>1 DEF IsLineOf
<1>3. ASSUME IsLineOf(l, h) PROVE c = l
  <2>1. ~(c < l) /\ ~(l < c)
    BY <1>1, <1>3 DEF IsLineOf
  <2> HIDE DEF c
  <2> QED BY <1>1, <2>1 DEF Line
<1> QED BY <1>2, <1>3

LEMMA ConnectTable ==
  ASSUME TableInv, NEW h \in Handle, NEW l \in Line, Connect(h, l)
  PROVE  OccupiedInv' /\ SocketInv' /\ ClosedInv' /\ KnownInv'
<1> USE DEF TableInv
<1>1. conn[h] = NoLine /\ \A k \in Line : status[k] # "empty" => line_handle[k] # h
  BY LineTypes DEF Connect, SocketInv, OccupiedInv
<1>2. OccupiedInv'
  BY <1>1 DEF Connect, OccupiedInv, TypeOK, FirstEmpty
<1>3. SocketInv'
  <2> SUFFICES ASSUME NEW g \in Handle PROVE
        IF socket'[g] = "unallocated" THEN conn'[g] = NoLine
        ELSE /\ conn'[g] \in Line
             /\ status'[conn'[g]] # "empty"
             /\ line_handle'[conn'[g]] = g
             /\ \A k \in Line : k < conn'[g] => line_handle'[k] # g
             /\ status'[conn'[g]] = "disconnecting" <=> socket'[g] = "closed"
    BY DEF SocketInv
  <2>1. CASE g = h
    <3>1. conn'[g] = l /\ socket'[g] = "open" /\ status'[l] = "connecting"
      BY <2>1 DEF Connect, TypeOK
    <3>2. line_handle'[l] = g
      BY <2>1 DEF Connect, TypeOK
    <3>3. \A k \in Line : k < l => line_handle'[k] # g
      BY <1>1, <2>1 DEF Connect, TypeOK, FirstEmpty, Line
    <3> QED BY <3>1, <3>2, <3>3
  <2>2. CASE g # h
    <3>1. conn'[g] = conn[g] /\ socket'[g] = socket[g]
      BY <2>2 DEF Connect, TypeOK
    <3>2. CASE socket[g] = "unallocated"
      BY <3>1, <3>2 DEF SocketInv
    <3>3. CASE socket[g] # "unallocated"
      <4>1. conn[g] \in Line /\ status[conn[g]] # "empty" /\ status[l] = "empty"
        BY <3>3 DEF SocketInv, Connect, FirstEmpty
      <4>2. /\ status'[conn[g]] = status[conn[g]]
            /\ line_handle'[conn[g]] = line_handle[conn[g]]
        BY <4>1 DEF Connect, TypeOK
      <4>3. \A k \in Line : k < conn[g] => line_handle'[k] # g
        BY <2>2, <3>3 DEF Connect, TypeOK, SocketInv
      <4> QED BY <3>1, <3>3, <4>1, <4>2, <4>3 DEF SocketInv
    <3> QED BY <3>2, <3>3
  <2> QED BY <2>1, <2>2
<1>4. ClosedInv' /\ KnownInv'
  BY DEF Connect, Polling, ClosedInv, KnownInv, TypeOK, FirstEmpty
<1> QED BY <1>2, <1>3, <1>4

LEMMA ReadTable ==
  ASSUME TableInv, NEW h \in Handle, NEW data \in Chunk, NEW err \in BOOLEAN,
         ClientRead(h, data, err)
  PROVE  OccupiedInv' /\ SocketInv' /\ ClosedInv' /\ KnownInv'
<1> USE DEF TableInv
<1>1. \A l \in Line :
        /\ status'[l] = "empty" <=> status[l] = "empty"
        /\ status'[l] = "disconnecting" <=> status[l] = "disconnecting"
  BY DEF ClientRead, TypeOK, Connected
<1>2. \A g \in Handle :
        /\ socket'[g] = "unallocated" <=> socket[g] = "unallocated"
        /\ socket'[g] = "closed" <=> socket[g] = "closed"
  BY DEF ClientRead, TypeOK
<1>3. UNCHANGED <<line_handle, telnet, conn, told, phase>> /\ phase = "poll"
  BY DEF ClientRead, Polling
<1>4. OccupiedInv'
  BY <1>1, <1>3 DEF OccupiedInv
<1>5. SocketInv'
  BY <1>1, <1>2, <1>3 DEF SocketInv
<1> QED BY <1>1, <1>3, <1>4, <1>5 DEF ClosedInv, KnownInv, TypeOK

LEMMA CloseTable ==
  ASSUME TableInv, NEW h \in Handle, NEW l \in Line, ClientOnClose(h, l)
  PROVE  OccupiedInv' /\ SocketInv' /\ ClosedInv' /\ KnownInv'
<1> USE DEF TableInv
<1>1. conn[h] = l /\ status[l] # "empty"
  BY FindLine DEF ClientOnClose, SocketInv
<1>2. OccupiedInv'
  BY <1>1 DEF ClientOnClose, OccupiedInv, TypeOK, history
<1>3. SocketInv'
  <2>1. \A g \in Handle : g # h /\ socket[g] # "unallocated" => conn[g] # l
    BY <1>1 DEF SocketInv, ClientOnClose
  <2> QED BY <1>1, <2>1 DEF ClientOnClose, SocketInv, TypeOK, history
<1> QED
  BY <1>1, <1>2, <1>3
  DEF ClientOnClose, Closing, ClosedInv, KnownInv, TypeOK, history

\* A report that keeps the line: a new connection, or data.
LEMMA ReportTable ==
  ASSUME TableInv, NEW l \in Line, Coding, Connected(l), Connected(l)',
         status' = [status EXCEPT ![l] = status'[l]], 
         told' = [told EXCEPT ![l] = line_handle[l]],
         UNCHANGED <<phase, line_handle, telnet, socket, conn>>
  PROVE  OccupiedInv' /\ SocketInv' /\ ClosedInv' /\ KnownInv'
<1> USE DEF TableInv
<1>1. \A k \in Line :
        /\ status'[k] = "empty" <=> status[k] = "empty"
        /\ status'[k] = "disconnecting" <=> status[k] = "disconnecting"
  BY DEF TypeOK, Connected
<1>2. OccupiedInv'
  BY <1>1 DEF OccupiedInv
<1>3. SocketInv'
  BY <1>1 DEF SocketInv
<1>4. KnownInv'
  BY <1>1 DEF KnownInv, TypeOK, Connected
<1> QED BY <1>2, <1>3, <1>4 DEF ClosedInv

LEMMA DisconnectTable ==
  ASSUME TableInv, NEW l \in Line, InputDisconnect(l)
  PROVE  /\ OccupiedInv' /\ SocketInv' /\ ClosedInv' /\ KnownInv'
         /\ fault' = "none"
<1> USE DEF TableInv
<1> DEFINE h == line_handle[l]
<1>1. status[l] # "empty" /\ h \in Handle /\ conn[h] = l /\ telnet[l] = "live"
  BY DEF InputDisconnect, OccupiedInv
<1>2. \A g \in Handle : conn[g] = l <=> g = h
  BY <1>1, LineTypes DEF SocketInv
<1>3. OccupiedInv'
  <2> SUFFICES ASSUME NEW k \in Line, status'[k] # "empty"
               PROVE  /\ line_handle'[k] \in Handle
                      /\ conn'[line_handle'[k]] = k
                      /\ telnet'[k] = "live"
    BY DEF OccupiedInv
  <2>1. k # l /\ status[k] # "empty" /\ telnet'[k] = telnet[k]
    BY DEF InputDisconnect, TypeOK
  <2> QED BY <2>1 DEF InputDisconnect, OccupiedInv
<1>4. SocketInv'
  <2> SUFFICES ASSUME NEW g \in Handle PROVE
        IF socket'[g] = "unallocated" THEN conn'[g] = NoLine
        ELSE /\ conn'[g] \in Line
             /\ status'[conn'[g]] # "empty"
             /\ line_handle'[conn'[g]] = g
             /\ \A k \in Line : k < conn'[g] => line_handle'[k] # g
             /\ status'[conn'[g]] = "disconnecting" <=> socket'[g] = "closed"
    BY DEF SocketInv
  <2>1. CASE g = h
    BY <1>2, <2>1 DEF InputDisconnect
  <2>2. CASE g # h
    <3>1. conn[g] # l /\ conn'[g] = conn[g] /\ socket'[g] = socket[g]
      BY <1>2, <2>2 DEF InputDisconnect
    <3>2. conn[g] \in Line => status'[conn[g]] = status[conn[g]]
      BY <3>1 DEF InputDisconnect, TypeOK
    <3> QED BY <3>1, <3>2 DEF InputDisconnect, SocketInv
  <2> QED BY <2>1, <2>2
<1>5. KnownInv'
  BY DEF InputDisconnect, KnownInv, TypeOK
<1>6. ClosedInv'
  BY DEF InputDisconnect, ClosedInv, TypeOK
<1> QED BY <1>1, <1>3, <1>4, <1>5, <1>6 DEF InputDisconnect

LEMMA StepTableInv ==
  ASSUME Orderly, TableInv, [Next]_vars
  PROVE  /\ TableInv'
         /\ Rough = {} /\ fault = "none" =>
              fault' = "none" \/ \E l \in Line : InputNoNewline(l)
<1> DEFINE Safe == /\ OccupiedInv' /\ SocketInv' /\ ClosedInv' /\ KnownInv'
                   /\ Rough = {} /\ fault = "none" =>
                        fault' = "none" \/ \E l \in Line : InputNoNewline(l)
<1> SUFFICES Safe
  BY StepTypeOK DEF TableInv
<1>1. ASSUME NEW h \in Handle, NEW l \in Line, Connect(h, l) PROVE Safe
  BY <1>1, ConnectTable DEF Connect
<1>2. ASSUME NEW h \in Handle, ConnectFull(h) \/ ConnectRefused(h) PROVE Safe
  BY <1>2 DEF ConnectFull, ConnectRefused, Orderly
<1>3. ASSUME NEW h \in Handle, NEW data \in Chunk, NEW err \in BOOLEAN,
             ClientRead(h, data, err)
      PROVE  Safe
  BY <1>3, ReadTable DEF ClientRead
<1>4. ASSUME NEW h \in Handle, NEW l \in Line, ClientNegotiates(h, l)
      PROVE  Safe
  BY <1>4 DEF ClientNegotiates, TableInv, OccupiedInv, SocketInv, ClosedInv,
              KnownInv, history
<1>5. ASSUME NEW h \in Handle, ClientGone(h) PROVE Safe
  <2>1. /\ \A g \in Handle :
             /\ socket'[g] = "unallocated" <=> socket[g] = "unallocated"
             /\ socket'[g] = "closed" <=> socket[g] = "closed"
        /\ UNCHANGED <<phase, table, fault, history>> /\ phase = "poll"
    BY <1>5 DEF ClientGone, Polling, TableInv, TypeOK
  <2>2. SocketInv'
    BY <2>1 DEF TableInv, SocketInv, table, history
  <2> QED BY <2>1, <2>2
          DEF TableInv, OccupiedInv, ClosedInv, KnownInv, table, history
<1>6. ASSUME NEW h \in Handle, NEW l \in Line, ClientOnClose(h, l) PROVE Safe
  BY <1>6, CloseTable DEF ClientOnClose
<1>7. ASSUME NEW h \in Handle, ClientOnCloseNull(h) PROVE Safe
  BY <1>7 DEF ClientOnCloseNull, NoLineOf, TableInv, SocketInv
<1>8. CASE EndPoll
  BY <1>8 DEF EndPoll, TableInv, OccupiedInv, SocketInv, ClosedInv, KnownInv,
              table, history
<1>9. CASE EndClosing
  BY <1>9 DEF EndClosing, TableInv, OccupiedInv, SocketInv, ClosedInv,
              KnownInv, table, history
<1>10. ASSUME NEW l \in Line, InputConnect(l) PROVE Safe
  <2>1. Connected(l) /\ Connected(l)'
    BY <1>10 DEF InputConnect, Connected, TableInv, TypeOK
  <2>2. status' = [status EXCEPT ![l] = status'[l]]
    BY <1>10 DEF InputConnect, TableInv, TypeOK
  <2> QED BY <1>10, <2>1, <2>2, ReportTable DEF InputConnect, Scan
<1>11. ASSUME NEW l \in Line, InputDisconnect(l) PROVE Safe
  BY <1>11, DisconnectTable
<1>12. ASSUME NEW l \in Line, NEW i \in 1 .. MaxIn, NEW n \in 0 .. MaxIn, InputData(l, i, n)
       PROVE  Safe
  <2>1. Connected(l) /\ Connected(l)'
    BY <1>12 DEF InputData, StatusAfter, Connected, TableInv, TypeOK
  <2>2. status' = [status EXCEPT ![l] = status'[l]]
    BY <1>12 DEF InputData, TableInv, TypeOK
  <2> QED BY <1>12, <2>1, <2>2, ReportTable DEF InputData, Scan
<1>17. ASSUME NEW l \in Line, InputNoNewline(l) PROVE Safe
  BY <1>17 DEF InputNoNewline, TableInv, OccupiedInv, SocketInv, ClosedInv,
               KnownInv, table
<1>13. CASE InputNothing
  BY <1>13 DEF InputNothing, TableInv, OccupiedInv, SocketInv, ClosedInv,
               KnownInv, table
<1>14. ASSUME NEW l \in Line, NetWrite(l) PROVE Safe
  <2>1. Rough = {} => telnet[l] = "live"
    BY <1>14 DEF NetWrite, TableInv, KnownInv, OccupiedInv
  <2> QED BY <1>14, <2>1 DEF NetWrite, TableInv, OccupiedInv, SocketInv,
                              ClosedInv, KnownInv, history
<1>15. CASE Flush
  BY <1>15 DEF Flush, TableInv, OccupiedInv, SocketInv, ClosedInv, KnownInv,
               history
<1>16. CASE UNCHANGED vars
  BY <1>16 DEF vars, TableInv, OccupiedInv, SocketInv, ClosedInv, KnownInv,
               table, history
<1> QED
  BY <1>1, <1>2, <1>3, <1>4, <1>5, <1>6, <1>7, <1>8, <1>9, <1>10, <1>11,
     <1>12, <1>13, <1>14, <1>15, <1>16, <1>17 DEF Next, NetInput

LEMMA TableInvariant == ASSUME Orderly PROVE Spec => []TableInv
<1>1. Init => TableInv
  BY InitTableInv
<1>2. TableInv /\ [Next]_vars => TableInv'
  BY StepTableInv
<1> QED BY <1>1, <1>2, PTL DEF Spec

\* find_line never confuses connections: stale addresses in freed lines and
\* addresses that malloc gives out again do not mislead it.
THEOREM FindLineIsExact == ASSUME Orderly PROVE Spec => []FindLineExact
<1>1. TableInv => FindLineExact
  BY FindLine DEF FindLineExact
<1> QED BY <1>1, TableInvariant, PTL

\* What the game was told is connected has its own client and a live telnet,
\* until the game is told that it has gone.
THEOREM GameViewIsSafe == ASSUME Orderly PROVE Spec => []GameViewSafe
<1>1. TableInv => GameViewSafe
  BY DEF TableInv, TypeOK, KnownInv, OccupiedInv, GameViewSafe
<1> QED BY <1>1, TableInvariant, PTL

\* uv_write is only ever called for sockets that are open.
THEOREM FlushIsSafe == ASSUME Orderly PROVE Spec => []FlushTargetsOpen
<1>1. TableInv => FlushTargetsOpen
  <2> SUFFICES ASSUME TableInv, phase = "code", NEW l \in Line, Connected(l)
               PROVE  socket[line_handle[l]] = "open"
    BY DEF FlushTargetsOpen
  <2> DEFINE h == line_handle[l]
  <2>1. h \in Handle /\ conn[h] = l /\ l # NoLine
    BY LineTypes DEF TableInv, OccupiedInv, Connected
  <2>2. socket[h] \notin {"unallocated", "closed", "closing"}
    BY <2>1 DEF TableInv, SocketInv, ClosedInv, Connected
  <2> QED BY <2>1, <2>2 DEF TableInv, TypeOK
<1> QED BY <1>1, TableInvariant, PTL

-----------------------------------------------------------------------------
(* Input.                                                                  *)

LEMMA NewlineOfConcat ==
  ASSUME NEW s \in Seq(Char), NEW t \in Seq(Char)
  PROVE  HasNewline(s \o t) <=> HasNewline(s) \/ HasNewline(t)
<1>1. ASSUME NEW i \in 1 .. Len(s), s[i] = NL PROVE HasNewline(s \o t)
  BY <1>1 DEF HasNewline
<1>2. ASSUME NEW i \in 1 .. Len(t), t[i] = NL PROVE HasNewline(s \o t)
  <2>1. Len(s) + i \in 1 .. Len(s \o t) /\ (s \o t)[Len(s) + i] = t[i]
    OBVIOUS
  <2> QED BY <1>2, <2>1 DEF HasNewline
<1>3. ASSUME NEW i \in 1 .. Len(s \o t), (s \o t)[i] = NL
      PROVE  HasNewline(s) \/ HasNewline(t)
  <2>1. CASE i <= Len(s)
    BY <1>3, <2>1 DEF HasNewline
  <2>2. CASE ~(i <= Len(s))
    <3>1. i - Len(s) \in 1 .. Len(t) /\ (s \o t)[i] = t[i - Len(s)]
      BY <2>2
    <3> QED BY <1>3, <3>1 DEF HasNewline
  <2> QED BY <2>1, <2>2
<1> QED BY <1>1, <1>2, <1>3 DEF HasNewline

\* A buffer with a newline that strchr does not find has a NUL in front of it.
LEMMA NewlineBehindNul ==
  ASSUME NEW s \in Seq(Char), HasNewline(s), NoFirstNewline(s)
  PROVE  HasNul(s)
<1> DEFINE T == {i \in 1 .. Len(s) : s[i] = NL}
           R == OpToRel(<, Nat)
<1>1. IsWellFoundedOn(R, Nat)
  BY NatLessThanWellFounded
<1>2. T \subseteq Nat /\ T # {}
  BY DEF HasNewline
<1> HIDE DEF R, T
<1>3. PICK i \in T : \A j \in T : ~ (<<j, i>> \in R)
  BY <1>1, <1>2, WFMin
<1>4. i \in 1 .. Len(s) /\ s[i] = NL
  BY DEF T
<1>5. ASSUME NEW j \in 1 .. i - 1 PROVE s[j] # NL
  <2>1. j \in 1 .. Len(s) /\ j < i /\ j \in Nat /\ i \in Nat
    BY <1>4
  <2>2. <<j, i>> \in R
    BY <2>1 DEF R, OpToRel
  <2> QED BY <1>3, <2>1, <2>2 DEF T
<1>6. PICK j \in 1 .. i - 1 : s[j] = NUL
  BY <1>4, <1>5 DEF NoFirstNewline, FirstNewline
<1> QED BY <1>4, <1>6 DEF HasNul

\* The half of DataHasNewline that the steps keep: the other follows.
DataInv ==
  \A l \in Line : status[l] \notin {"empty", "disconnecting"} =>
    (status[l] = "data" <=> HasNewline(inbuf[l]))

LEMMA StepDataInv ==
  ASSUME TypeOK, DataInv, [Next]_vars
  PROVE  DataInv'
<1> DEFINE Good(l) == status'[l] \notin {"empty", "disconnecting"} =>
                        (status'[l] = "data" <=> HasNewline(inbuf'[l]))
<1> SUFFICES ASSUME NEW l \in Line PROVE Good(l)
  BY DEF DataInv, HasNewline
<1>1. CASE status'[l] = status[l] /\ inbuf'[l] = inbuf[l]
  BY <1>1 DEF DataInv
<1>2. ASSUME NEW h \in Handle, NEW k \in Line, Connect(h, k) PROVE Good(l)
  BY <1>1, <1>2 DEF Connect, TypeOK, HasNewline
<1>3. ASSUME NEW h \in Handle, NEW data \in Chunk, NEW err \in BOOLEAN,
             ClientRead(h, data, err)
      PROVE  Good(l)
  <2> DEFINE took == {k \in Line : IsLineOf(k, h) /\ Connected(k)}
  <2>1. CASE l \in took
    <3>1. /\ inbuf'[l] = inbuf[l] \o data
          /\ status'[l] = IF HasNewline(data) THEN "data" ELSE status[l]
      BY <1>3, <2>1 DEF ClientRead
    <3>2. HasNewline(inbuf'[l]) <=> HasNewline(inbuf[l]) \/ HasNewline(data)
      BY <3>1, NewlineOfConcat, ChunkAssumption DEF TypeOK
    <3> QED BY <2>1, <3>1, <3>2 DEF DataInv, Connected
  <2>2. CASE l \notin took
    BY <1>1, <1>3, <2>2 DEF ClientRead
  <2> QED BY <2>1, <2>2
<1>4. ASSUME NEW h \in Handle, NEW k \in Line, ClientOnClose(h, k)
      PROVE  Good(l)
  BY <1>1, <1>4 DEF ClientOnClose, TypeOK
<1>5. ASSUME NEW k \in Line, InputConnect(k) PROVE Good(l)
  BY <1>1, <1>5 DEF InputConnect, TypeOK, DataInv
<1>6. ASSUME NEW k \in Line, InputDisconnect(k) PROVE Good(l)
  BY <1>1, <1>6 DEF InputDisconnect, TypeOK
<1>7. ASSUME NEW k \in Line, NEW i \in 1 .. MaxIn, NEW n \in 0 .. MaxIn, InputData(k, i, n)
      PROVE  Good(l)
  BY <1>1, <1>7 DEF InputData, StatusAfter, TypeOK
<1>8. CASE UNCHANGED <<status, inbuf>>
  BY <1>1, <1>8
<1>9. \/ \E h \in Handle, k \in Line : Connect(h, k) \/ ClientOnClose(h, k)
      \/ \E h \in Handle, data \in Chunk, err \in BOOLEAN :
           ClientRead(h, data, err)
      \/ \E k \in Line : \/ InputConnect(k)
                         \/ InputDisconnect(k)
                         \/ \E i \in 1 .. MaxIn, n \in 0 .. MaxIn : InputData(k, i, n)
      \/ UNCHANGED <<status, inbuf>>
  BY DEF Next, ConnectFull, ConnectRefused, ClientNegotiates, ClientGone,
         ClientOnCloseNull, EndPoll, EndClosing, NetInput, InputNothing,
         InputNoNewline, NetWrite, Flush, vars, table
<1> QED BY <1>2, <1>3, <1>4, <1>5, <1>6, <1>7, <1>8, <1>9

\* A connected line is in the state LINE_data exactly when its buffer holds a
\* newline, so that no whole line waits unnoticed, and get_input finds it unless
\* there is a NUL in the buffer.  True of every environment.
THEOREM DataMeansNewline == Spec => []DataHasNewline
<1>1. Init => DataInv
  BY DEF Init, DataInv
<1>2. TypeOK /\ DataInv /\ [Next]_vars => DataInv'
  BY StepDataInv
<1>3. TypeOK /\ DataInv => DataHasNewline
  BY NewlineBehindNul DEF TypeOK, DataInv, DataHasNewline
<1> QED BY <1>1, <1>2, <1>3, TypeCorrect, PTL DEF Spec

-----------------------------------------------------------------------------
(* The allocation of the input buffer.                                     *)

\* InputFits is not inductive: net.input copies what is left of the input to
\* a buffer of InbufLength characters, so what it leaves must be bounded.
FitInv == InputFits /\ \A l \in Line : Len(inbuf[l]) <= MaxIn

LEMMA StepFitInv ==
  ASSUME MaxIn <= InbufLength, TypeOK, FitInv, [Next]_vars
  PROVE  FitInv'
<1> DEFINE Good(l) == Len(inbuf'[l]) < length'[l] /\ Len(inbuf'[l]) <= MaxIn
<1> SUFFICES ASSUME NEW l \in Line PROVE Good(l)
  BY DEF FitInv, InputFits
<1>0. inbuf[l] \in Seq(Char) /\ Len(inbuf[l]) \in Nat /\ length[l] \in Nat
  BY DEF TypeOK
<1>1. CASE inbuf'[l] = inbuf[l] /\ length'[l] = length[l]
  BY <1>1 DEF FitInv, InputFits
<1>2. CASE inbuf'[l] = <<>> /\ length'[l] = InbufLength
  BY <1>2, BoundAssumption
<1>3. ASSUME NEW h \in Handle, NEW k \in Line, Connect(h, k) PROVE Good(l)
  BY <1>1, <1>2, <1>3 DEF Connect, TypeOK
<1>4. ASSUME NEW h \in Handle, NEW data \in Chunk, NEW err \in BOOLEAN,
             ClientRead(h, data, err)
      PROVE  Good(l)
  <2> DEFINE took == {k \in Line : IsLineOf(k, h) /\ Connected(k)}
             n == Len(inbuf[l]) + Len(data)
  <2>1. CASE l \in took
    <3>1. /\ inbuf'[l] = inbuf[l] \o data
          /\ length'[l] = Grown(length[l], n)
          /\ n <= MaxIn
      BY <1>4, <2>1 DEF ClientRead
    <3>2. n \in Nat /\ Len(inbuf[l] \o data) = n
      BY <1>0, ChunkAssumption
    <3>3. n + 1 < Grown(length[l], n) /\ Grown(length[l], n) \in Nat
      BY <1>0, <3>2, GrownFits
    <3> QED BY <3>1, <3>2, <3>3
  <2>2. CASE l \notin took
    BY <1>1, <1>4, <2>2 DEF ClientRead
  <2> QED BY <2>1, <2>2
<1>5. ASSUME NEW k \in Line, InputDisconnect(k) PROVE Good(l)
  BY <1>1, <1>2, <1>5 DEF InputDisconnect, TypeOK
<1>6. ASSUME NEW k \in Line, NEW i \in 1 .. MaxIn, NEW n \in 0 .. MaxIn, InputData(k, i, n)
      PROVE  Good(l)
  <2>1. CASE l = k
    <3>1. /\ i \in 1 .. Len(inbuf[l])
          /\ inbuf'[l] = SubSeq(SubSeq(inbuf[l], i + 1, Len(inbuf[l])), 1, n)
          /\ n \in 0 .. Len(SubSeq(inbuf[l], i + 1, Len(inbuf[l])))
          /\ length'[l] = InbufLength
      BY <1>6, <2>1 DEF InputData, FirstNewline, StringLength, TypeOK
    <3> DEFINE behind == SubSeq(inbuf[l], i + 1, Len(inbuf[l]))
    <3>3. behind \in Seq(Char) /\ Len(behind) < Len(inbuf[l])
      BY <1>0, <3>1
    <3>2. Len(inbuf'[l]) < Len(inbuf[l])
      <4>1. inbuf'[l] = SubSeq(behind, 1, n) /\ n \in 0 .. Len(behind)
        BY <3>1
      <4> HIDE DEF behind
      <4>2. Len(SubSeq(behind, 1, n)) = n
        BY <3>3, <4>1
      <4> QED BY <1>0, <3>3, <4>1, <4>2
    <3> QED BY <1>0, <3>1, <3>2, BoundAssumption DEF FitInv
  <2>2. CASE l # k
    BY <1>1, <1>6, <2>2 DEF InputData, TypeOK
  <2> QED BY <2>1, <2>2
<1>7. CASE UNCHANGED <<inbuf, length>>
  BY <1>1, <1>7
<1>8. \/ \E h \in Handle, k \in Line : Connect(h, k)
      \/ \E h \in Handle, data \in Chunk, err \in BOOLEAN :
           ClientRead(h, data, err)
      \/ \E k \in Line : \/ InputDisconnect(k)
                         \/ \E i \in 1 .. MaxIn, n \in 0 .. MaxIn : InputData(k, i, n)
      \/ UNCHANGED <<inbuf, length>>
  BY DEF Next, ConnectFull, ConnectRefused, ClientNegotiates, ClientGone,
         ClientOnClose, ClientOnCloseNull, EndPoll, EndClosing, NetInput,
         InputConnect, InputNothing, InputNoNewline, NetWrite, Flush, vars,
         table
<1> QED BY <1>3, <1>4, <1>5, <1>6, <1>7, <1>8

\* The input buffer has room for what is in it and the NUL after it as long as
\* no client has more than INBUF_LENGTH characters unread.  The bound is sharp:
\* get_input copies the rest to a buffer of that size, whatever its length.
THEOREM InputAlwaysFits ==
  ASSUME MaxIn <= InbufLength
  PROVE  Spec => []InputFits
<1>1. Init => FitInv
  BY BoundAssumption DEF Init, FitInv, InputFits
<1>2. TypeOK /\ FitInv /\ [Next]_vars => FitInv'
  BY StepFitInv
<1>3. FitInv => InputFits
  BY DEF FitInv
<1> QED BY <1>1, <1>2, <1>3, TypeCorrect, PTL DEF Spec

-----------------------------------------------------------------------------
(* Input, unmixed and in order.                                            *)

\* A buffer that keeps what is unread, none of which is a NUL, is just that.
LEMMA KeepsAll ==
  ASSUME NEW b \in Seq(Char), NEW f \in Seq(Sent),
         Keeps(b, f), ~HasNul(f)
  PROVE  Len(b) = Len(f) /\ \A j \in 1 .. Len(f) : b[j] = f[j]
<1>1. \A j \in 1 .. Len(f) : f[j] # NUL
  BY DEF HasNul
<1> QED BY <1>1 DEF Keeps

\* append_input keeps what was unread in front of what it appends.
LEMMA AppendKeeps ==
  ASSUME NEW b \in Seq(Char), NEW f \in Seq(Sent), Keeps(b, f),
         NEW data \in Seq(Char)
  PROVE  Keeps(b \o data, IF HasNul(f) THEN f ELSE f \o data)
<1>1. /\ Len(b \o data) = Len(b) + Len(data)
      /\ \A j \in 1 .. Len(b) : (b \o data)[j] = b[j]
  OBVIOUS
<1>2. CASE HasNul(f)
  <2>1. ASSUME NEW j \in 1 .. Len(f), \A k \in 1 .. j : f[k] # NUL
        PROVE  j <= Len(b \o data) /\ (b \o data)[j] = f[j]
    <3>1. j <= Len(b) /\ b[j] = f[j]
      BY <2>1 DEF Keeps
    <3> QED BY <1>1, <3>1
  <2> QED BY <1>2, <2>1 DEF Keeps
<1>3. CASE ~HasNul(f)
  <2>1. Len(b) = Len(f) /\ \A j \in 1 .. Len(f) : b[j] = f[j]
    BY <1>3, KeepsAll
  <2>2. b = f
    BY <2>1, SeqEqual
  <2>3. Keeps(b \o data, b \o data)
    BY <1>1 DEF Keeps
  <2> QED BY <1>3, <2>2, <2>3
<1> QED BY <1>2, <1>3

\* get_input takes the oldest line of what is unread, or there is a NUL in it and
\* no line in front.
LEMMA OldestOfUnread ==
  ASSUME NEW b \in Seq(Char), NEW f \in Seq(Sent), Keeps(b, f),
         NEW i \in Nat, FirstNewline(i, b)
  PROVE  \/ /\ FirstNewline(i, f)
            /\ \A k \in 1 .. i : b[k] = f[k]
         \/ NoFirstNewline(f) /\ HasNul(f)
<1>1. i \in 1 .. Len(b) /\ b[i] = NL /\ \A k \in 1 .. i - 1 : b[k] \notin {NL, NUL}
  BY DEF FirstNewline
<1>2. CASE ~HasNul(f)
  <2>1. Len(b) = Len(f) /\ \A j \in 1 .. Len(f) : b[j] = f[j]
    BY <1>2, KeepsAll
  <2> QED BY <1>1, <2>1 DEF FirstNewline
<1>3. ASSUME NEW j \in 1 .. Len(f), FirstNewline(j, f)
      PROVE  FirstNewline(i, f) /\ \A k \in 1 .. i : b[k] = f[k]
  <2>1. f[j] = NL /\ \A k \in 1 .. j - 1 : f[k] \notin {NL, NUL}
    BY <1>3 DEF FirstNewline
  <2>2. ASSUME NEW k \in 1 .. j PROVE k <= Len(b) /\ b[k] = f[k]
    <3>1. k \in 1 .. Len(f) /\ \A m \in 1 .. k : f[m] # NUL
      BY <2>1, NulAssumption
    <3> QED BY <3>1 DEF Keeps
  <2>3. ~(i < j) /\ ~(j < i)
    BY <1>1, <2>1, <2>2
  <2>4. i = j
    BY <2>3
  <2> QED BY <1>3, <2>2, <2>4
<1> QED BY <1>2, <1>3 DEF NoFirstNewline

\* What get_input leaves of the buffer keeps what is left unread.
LEMMA ReadKeeps ==
  ASSUME NEW b \in Seq(Char), NEW f \in Seq(Sent), Keeps(b, f),
         NEW i \in Nat, FirstNewline(i, b),
         NEW n \in Nat, StringLength(n, SubSeq(b, i + 1, Len(b)))
  PROVE  Keeps(SubSeq(SubSeq(b, i + 1, Len(b)), 1, n), ReadUpTo(i, f))
<1> DEFINE behind == SubSeq(b, i + 1, Len(b))
           rest == SubSeq(behind, 1, n)
           g == SubSeq(f, i + 1, Len(f))
<1>1. i \in 1 .. Len(b)
  BY DEF FirstNewline
<1>2. /\ behind \in Seq(Char) /\ Len(behind) = Len(b) - i
      /\ \A k \in 1 .. Len(b) - i : behind[k] = b[i + k]
  BY <1>1
<1>3. /\ n \in 0 .. Len(behind)
      /\ \A j \in 1 .. n : behind[j] # NUL
      /\ n < Len(behind) => behind[n + 1] = NUL
  BY DEF StringLength
<1> HIDE DEF behind
<1>4. Len(rest) = n /\ \A k \in 1 .. n : rest[k] = behind[k]
  BY <1>2, <1>3
<1> HIDE DEF rest
<1>5. CASE FirstNewline(i, f)
  <2>1. /\ i \in 1 .. Len(f) /\ f[i] = NL
        /\ \A k \in 1 .. i : f[k] # NUL
    BY <1>5, NulAssumption DEF FirstNewline
  <2>2. /\ g \in Seq(Sent) /\ Len(g) = Len(f) - i
        /\ \A k \in 1 .. Len(f) - i : g[k] = f[i + k]
    BY <2>1
  <2> HIDE DEF g
  <2>3. ASSUME NEW j \in 1 .. Len(g), \A k \in 1 .. j : g[k] # NUL
        PROVE  j <= Len(rest) /\ rest[j] = g[j]
    <3>1. ASSUME NEW m \in 1 .. i + j PROVE f[m] # NUL
      <4>1. CASE m <= i
        BY <2>1, <4>1
      <4>2. CASE ~(m <= i)
        <5>1. m - i \in 1 .. j /\ i + (m - i) = m
          BY <2>2, <4>2
        <5>2. g[m - i] # NUL
          BY <2>3, <5>1
        <5>3. m - i \in 1 .. Len(f) - i
          BY <2>1, <2>2, <5>1
        <5>4. g[m - i] = f[i + (m - i)]
          BY <2>2, <5>3
        <5> QED BY <5>1, <5>2, <5>4
      <4> QED BY <4>1, <4>2
    <3>2. ASSUME NEW m \in 1 .. i + j PROVE m <= Len(b) /\ b[m] = f[m]
      <4>1. m \in 1 .. Len(f)
        BY <2>1, <2>2
      <4>2. \A k \in 1 .. m : f[k] # NUL
        BY <3>1
      <4> QED BY <4>1, <4>2 DEF Keeps
    <3>3. ASSUME NEW k \in 1 .. j PROVE k <= Len(behind) /\ behind[k] = g[k]
      <4>1. i + k \in 1 .. i + j
        BY <2>1
      <4>2. i + k <= Len(b) /\ b[i + k] = f[i + k]
        BY <3>2, <4>1
      <4> QED BY <1>1, <1>2, <2>2, <4>2
    <3>4. j <= n
      <4> SUFFICES ASSUME n < j PROVE FALSE
        BY <1>3
      <4>1. n + 1 \in 1 .. j
        BY <1>3
      <4>2. n + 1 <= Len(behind) /\ behind[n + 1] = g[n + 1]
        BY <3>3, <4>1
      <4>3. g[n + 1] # NUL
        BY <2>3, <4>1
      <4> QED BY <1>3, <4>2, <4>3
    <3>5. j \in 1 .. n /\ j \in 1 .. j
      BY <3>4
    <3> QED BY <1>4, <3>3, <3>4, <3>5
  <2>4. ASSUME ~HasNul(g) PROVE Len(rest) = Len(g)
    <3>1. \A k \in 1 .. Len(g) : g[k] # NUL
      BY <2>4 DEF HasNul
    <3>2. ~HasNul(f)
      <4> SUFFICES ASSUME NEW m \in 1 .. Len(f), f[m] = NUL PROVE FALSE
        BY DEF HasNul
      <4>1. m - i \in 1 .. Len(g) /\ i + (m - i) = m
        BY <2>1, <2>2
      <4> QED BY <2>2, <3>1, <4>1
    <3>3. Len(b) = Len(f)
      BY <3>2, KeepsAll
    <3>4. CASE Len(g) = 0
      BY <1>2, <1>3, <1>4, <2>2, <3>3, <3>4
    <3>5. CASE Len(g) # 0
      <4>1. Len(g) \in 1 .. Len(g)
        BY <2>2, <3>5
      <4>2. Len(g) <= Len(rest)
        BY <2>3, <3>1, <4>1
      <4> QED BY <1>2, <1>3, <1>4, <2>2, <3>3, <4>2
    <3> QED BY <3>4, <3>5
  <2>5. ReadUpTo(i, f) = g
    BY <1>5 DEF ReadUpTo, g
  <2> QED BY <2>3, <2>4, <2>5 DEF Keeps, rest, behind
<1>6. CASE ~FirstNewline(i, f)
  <2>1. ReadUpTo(i, f) = <<NUL>>
    BY <1>6 DEF ReadUpTo
  <2>2. /\ HasNul(<<NUL>>)
        /\ \A j \in 1 .. Len(<<NUL>>) : ~(\A k \in 1 .. j : <<NUL>>[k] # NUL)
    BY DEF HasNul
  <2> QED BY <2>1, <2>2 DEF Keeps
<1> QED BY <1>5, <1>6

LEMMA StepInputIntact ==
  ASSUME Orderly, TableInv, InputIntact, [Next]_vars
  PROVE  InputIntact'
<1> DEFINE Good(g) == conn'[g] # NoLine => Keeps(inbuf'[conn'[g]], fifo'[g])
<1> USE DEF TableInv
<1> SUFFICES ASSUME NEW g \in Handle PROVE Good(g)
  BY DEF InputIntact, Keeps, HasNul
<1>1. conn[g] # NoLine =>
        /\ conn[g] \in Line
        /\ status[conn[g]] # "empty"
        /\ line_handle[conn[g]] = g
        /\ Keeps(inbuf[conn[g]], fifo[g])
        /\ inbuf[conn[g]] \in Seq(Char) /\ fifo[g] \in Seq(Sent)
  BY DEF SocketInv, InputIntact, TypeOK
<1>10. Keeps(<<>>, <<>>)
  BY DEF Keeps
<1>2. ASSUME NEW h \in Handle, NEW l \in Line, Connect(h, l) PROVE Good(g)
  <2>1. CASE g = h
    BY <1>2, <1>10, <2>1 DEF Connect, TypeOK
  <2>2. CASE g # h
    BY <1>1, <1>2, <2>2 DEF Connect, TypeOK, FirstEmpty
  <2> QED BY <2>1, <2>2
<1>3. ASSUME NEW h \in Handle, NEW data \in Chunk, NEW err \in BOOLEAN,
             ClientRead(h, data, err)
      PROVE  Good(g)
  <2> DEFINE took == {k \in Line : IsLineOf(k, h) /\ Connected(k)}
  <2>1. socket[h] = "open"
    BY <1>3 DEF ClientRead
  <2>2. took = {conn[h]}
    BY <2>1, FindLine DEF SocketInv, Connected
  <2>3. conn' = conn
    BY <1>3 DEF ClientRead
  <2>4. CASE g = h /\ conn[g] # NoLine
    <3>1. /\ inbuf'[conn[g]] = inbuf[conn[g]] \o data
          /\ fifo'[g] = IF HasNul(fifo[g]) THEN fifo[g] ELSE fifo[g] \o data
      BY <1>1, <1>3, <2>2, <2>4 DEF ClientRead, TypeOK
    <3>2. Keeps(inbuf'[conn[g]], fifo'[g])
      BY <1>1, <2>4, <3>1, AppendKeeps, ChunkAssumption
    <3> QED BY <2>3, <3>2
  <2>5. CASE g # h /\ conn[g] # NoLine
    <3>1. conn[g] \notin took
      BY <1>1, <2>1, <2>2, <2>5 DEF SocketInv
    <3> QED BY <1>1, <1>3, <2>3, <2>5, <3>1 DEF ClientRead, TypeOK
  <2> QED BY <2>3, <2>4, <2>5
<1>4. ASSUME NEW l \in Line, InputDisconnect(l) PROVE Good(g)
  BY <1>1, <1>4 DEF InputDisconnect, TypeOK
<1>5. ASSUME NEW l \in Line, NEW i \in 1 .. MaxIn, NEW n \in 0 .. MaxIn,
             InputData(l, i, n)
      PROVE  Good(g)
  <2> DEFINE behind == SubSeq(inbuf[l], i + 1, Len(inbuf[l]))
  <2>1. CASE conn[g] = l
    <3>1. /\ FirstNewline(i, inbuf[l]) /\ StringLength(n, behind)
          /\ inbuf'[l] = SubSeq(behind, 1, n)
          /\ fifo'[g] = ReadUpTo(i, fifo[g])
          /\ conn' = conn
      BY <1>5, <2>1 DEF InputData, TypeOK
    <3>2. i \in Nat /\ n \in Nat /\ l # NoLine
      BY LineTypes
    <3>3. Keeps(SubSeq(behind, 1, n), ReadUpTo(i, fifo[g]))
      BY <1>1, <2>1, <3>1, <3>2, ReadKeeps
    <3> QED BY <2>1, <3>1, <3>3
  <2>2. CASE conn[g] # l
    BY <1>1, <1>5, <2>2 DEF InputData, TypeOK
  <2> QED BY <2>1, <2>2
<1>6. CASE UNCHANGED <<conn, inbuf, fifo>>
  BY <1>1, <1>6
<1>7. \/ \E h \in Handle, l \in Line : Connect(h, l)
      \/ \E h \in Handle, data \in Chunk, err \in BOOLEAN :
           ClientRead(h, data, err)
      \/ \E l \in Line : \/ InputDisconnect(l)
                         \/ \E i \in 1 .. MaxIn, n \in 0 .. MaxIn : InputData(l, i, n)
      \/ UNCHANGED <<conn, inbuf, fifo>>
  BY DEF Next, ConnectFull, ConnectRefused, ClientNegotiates, ClientGone,
         ClientOnClose, ClientOnCloseNull, EndPoll, EndClosing, NetInput,
         InputConnect, InputNothing, InputNoNewline, NetWrite, Flush, vars,
         table, history
<1> QED BY <1>2, <1>3, <1>4, <1>5, <1>6, <1>7

\* What a client sent and the game has not got is in its line's buffer, in
\* order, all of it or what is in front of the first NUL: nothing is lost, doubled
\* or mixed with what another client sent.
THEOREM InputStaysIntact == ASSUME Orderly PROVE Spec => []InputIntact
<1>1. Init => InputIntact
  BY DEF Init, InputIntact
<1>2. TableInv /\ InputIntact /\ [Next]_vars => InputIntact'
  BY StepInputIntact
<1> QED BY <1>1, <1>2, TableInvariant, PTL DEF Spec

\* In ordinary play no callback and no library call touches freed memory, and
\* none writes through NULL but get_input after a client sent a NUL.
THEOREM PlayIsFaultFree == ASSUME Rough = {} PROVE Spec => []NoFault
<1>1. Orderly
  BY DEF Orderly
<1>2. Init => NoFault
  BY DEF Init, NoFault
<1>3. TableInv /\ InputIntact /\ DataHasNewline /\ NoFault /\ [Next]_vars => NoFault'
  <2> SUFFICES ASSUME TableInv, InputIntact, DataHasNewline, NoFault, [Next]_vars,
                      fault' # "none"
               PROVE  fault' = "null_eol" /\ \E h \in Handle : HasNul(fifo'[h])
    BY DEF NoFault, HasNul
  <2>1. CASE fault # "none"
    <3>1. UNCHANGED <<fault, fifo>>
      BY <2>1 DEF Next, Connect, ConnectFull, ConnectRefused, ClientRead,
                  ClientNegotiates, ClientGone, ClientOnClose, ClientOnCloseNull,
                  EndPoll, EndClosing, NetInput, Scan, InputConnect,
                  InputDisconnect, InputData, InputNoNewline, InputNothing,
                  NetWrite, Flush, Polling, Closing, Coding, vars, history
    <3> QED BY <2>1, <3>1 DEF NoFault
  <2>2. CASE fault = "none"
    <3>1. PICK l \in Line : InputNoNewline(l)
      BY <1>1, <2>2, StepTableInv
    <3>2. /\ status[l] = "data" /\ NoFirstNewline(inbuf[l])
          /\ fault' = "null_eol" /\ fifo' = fifo
      BY <3>1 DEF InputNoNewline
    <3>3. HasNul(inbuf[l])
      BY <3>2 DEF DataHasNewline
    <3> DEFINE h == line_handle[l]
    <3>4. h \in Handle /\ conn[h] = l
      BY <3>2 DEF TableInv, OccupiedInv
    <3> HIDE DEF h
    <3>5. /\ inbuf[l] \in Seq(Char) /\ fifo[h] \in Seq(Sent)
          /\ Keeps(inbuf[l], fifo[h])
      BY <3>4, LineTypes DEF TableInv, TypeOK, InputIntact
    <3>6. HasNul(fifo[h])
      BY <3>3, <3>5, KeepsAll DEF HasNul
    <3> QED BY <3>2, <3>4, <3>6
  <2> QED BY <2>1, <2>2
<1>4. Spec => []TableInv
  BY <1>1, TableInvariant
<1>5. Spec => []InputIntact
  BY <1>1, InputStaysIntact
<1> QED BY <1>2, <1>3, <1>4, <1>5, DataMeansNewline, PTL DEF Spec

LEMMA CutAtNewline ==
  ASSUME NEW S, NEW s \in Seq(S), NEW i \in 1 .. Len(s), FirstNewline(i, s)
  PROVE  /\ s = SubSeq(s, 1, i - 1) \o <<NL>> \o SubSeq(s, i + 1, Len(s))
         /\ ~HasNewline(SubSeq(s, 1, i - 1))
         /\ ~HasNul(SubSeq(s, 1, i - 1))
<1> DEFINE a == SubSeq(s, 1, i - 1)
           c == SubSeq(s, i + 1, Len(s))
<1>1. /\ a \in Seq(S) /\ Len(a) = i - 1
      /\ \A k \in 1 .. i - 1 : a[k] = s[k]
  OBVIOUS
<1>2. /\ c \in Seq(S) /\ Len(c) = Len(s) - i
      /\ \A k \in 1 .. Len(s) - i : c[k] = s[i + k]
  OBVIOUS
<1>3. s[i] = NL /\ NL \in S /\ \A k \in 1 .. i - 1 : s[k] \notin {NL, NUL}
  BY DEF FirstNewline
<1> HIDE DEF a, c
<1> DEFINE b == a \o <<NL>>
<1>4. /\ b \in Seq(S) /\ Len(b) = i
      /\ \A k \in 1 .. i : b[k] = s[k]
  BY <1>1, <1>3
<1> HIDE DEF b
<1>5. /\ b \o c \in Seq(S) /\ Len(b \o c) = Len(s)
      /\ \A k \in 1 .. Len(s) : (b \o c)[k] = s[k]
  <2>1. b \o c \in Seq(S) /\ Len(b \o c) = Len(s)
    <3>1. b \in Seq(S) /\ c \in Seq(S) /\ Len(b) = i /\ Len(c) = Len(s) - i
      BY <1>2, <1>4
    <3>2. b \o c \in Seq(S) /\ Len(b \o c) = Len(b) + Len(c)
      BY <3>1, ConcatProperties
    <3> QED BY <3>1, <3>2
  <2>2. ASSUME NEW k \in 1 .. Len(s), k <= i PROVE (b \o c)[k] = s[k]
    BY <1>2, <1>4, <2>2
  <2>3. ASSUME NEW k \in 1 .. Len(s), ~(k <= i) PROVE (b \o c)[k] = s[k]
    <3>1. k - i \in 1 .. Len(s) - i /\ i + (k - i) = k
      BY <2>3
    <3>2. (b \o c)[k] = c[k - i]
      BY <1>2, <1>4, <2>3
    <3> QED BY <1>2, <3>1, <3>2
  <2> QED BY <2>1, <2>2, <2>3
<1>6. b \o c = s
  <2> HIDE DEF b, c
  <2>1. \A k \in 1 .. Len(b \o c) : (b \o c)[k] = s[k]
    BY <1>5
  <2> QED BY <1>5, <2>1, SeqEqual
<1>7. ~HasNewline(a) /\ ~HasNul(a)
  BY <1>1, <1>3 DEF HasNewline, HasNul
<1> QED BY <1>6, <1>7 DEF a, b, c

\* Sequences that agree up to i have the same front.
LEMMA SameFront ==
  ASSUME NEW b \in Seq(Char), NEW f \in Seq(Sent),
         NEW i \in 1 .. Len(b), i <= Len(f), \A k \in 1 .. i : b[k] = f[k]
  PROVE  SubSeq(b, 1, i - 1) = SubSeq(f, 1, i - 1)
<1> DEFINE c == SubSeq(b, 1, i - 1)
           g == SubSeq(f, 1, i - 1)
<1>1. c \in Seq(Char) /\ Len(c) = i - 1 /\ \A k \in 1 .. i - 1 : c[k] = b[k]
  OBVIOUS
<1>2. /\ g \in Seq(Sent) /\ Len(g) = i - 1
      /\ \A k \in 1 .. i - 1 : g[k] = f[k]
  OBVIOUS
<1> HIDE DEF c, g
<1>3. \A k \in 1 .. Len(c) : c[k] = g[k]
  BY <1>1, <1>2
<1>4. c = g
  BY <1>1, <1>2, <1>3, SeqEqual
<1> QED BY <1>4 DEF c, g

LEMMA StepDelivers ==
  ASSUME TableInv, InputIntact, [Next]_vars, event' # event, event'.ret = 3
  PROVE  \E h \in Handle :
           /\ conn[h] = event'.line
           /\ socket[h] # "unallocated"
           /\ \/ /\ fifo[h] = event'.text \o <<NL>> \o fifo'[h]
                 /\ ~HasNewline(event'.text) /\ ~HasNul(event'.text)
              \/ NoFirstNewline(fifo[h]) /\ HasNul(fifo[h])
<1>1. \E l \in Line, i \in 1 .. MaxIn, n \in 0 .. MaxIn : InputData(l, i, n)
  BY DEF Next, Connect, ConnectFull, ConnectRefused, ClientRead,
         ClientNegotiates, ClientGone, ClientOnClose, ClientOnCloseNull,
         EndPoll, EndClosing, NetInput, InputConnect, InputDisconnect,
         InputNothing, InputNoNewline, NetWrite, Flush, Quiet, vars
<1>2. PICK l \in Line, i \in 1 .. MaxIn, n \in 0 .. MaxIn : InputData(l, i, n)
  BY <1>1
<1> DEFINE h == line_handle[l]
<1>3. h \in Handle /\ conn[h] = l
  BY <1>2 DEF InputData, TableInv, OccupiedInv
<1> HIDE DEF h
<1>4. socket[h] # "unallocated"
  BY <1>3, LineTypes DEF TableInv, SocketInv
<1>5. /\ inbuf[l] \in Seq(Char) /\ fifo[h] \in Seq(Sent)
      /\ Keeps(inbuf[l], fifo[h])
  BY <1>3, LineTypes DEF InputIntact, TableInv, TypeOK
<1>6. FirstNewline(i, inbuf[l]) /\ i \in 1 .. Len(inbuf[l])
  BY <1>2 DEF InputData, FirstNewline
<1>7. /\ event'.line = l
      /\ event'.text = SubSeq(inbuf[l], 1, i - 1)
      /\ fifo'[h] = ReadUpTo(i, fifo[h])
  BY <1>2, <1>3 DEF InputData
<1>8. CASE NoFirstNewline(fifo[h]) /\ HasNul(fifo[h])
  BY <1>3, <1>4, <1>7, <1>8
<1>9. CASE FirstNewline(i, fifo[h]) /\ \A k \in 1 .. i : inbuf[l][k] = fifo[h][k]
  <2>1. i \in 1 .. Len(fifo[h])
    BY <1>9 DEF FirstNewline
  <2>2. event'.text = SubSeq(fifo[h], 1, i - 1)
    <3>1. SubSeq(inbuf[l], 1, i - 1) = SubSeq(fifo[h], 1, i - 1)
      BY <1>5, <1>6, <1>9, <2>1, SameFront, SMTT(30)
    <3> QED BY <1>7, <3>1
  <2>3. fifo'[h] = SubSeq(fifo[h], i + 1, Len(fifo[h]))
    BY <1>7, <1>9 DEF ReadUpTo
  <2>4. /\ fifo[h] = event'.text \o <<NL>> \o fifo'[h]
        /\ ~HasNewline(event'.text) /\ ~HasNul(event'.text)
    BY <1>5, <1>9, <2>1, <2>2, <2>3, CutAtNewline
  <2> QED BY <1>3, <1>4, <1>7, <2>4
<1>10. i \in Nat
  OBVIOUS
<1> QED BY <1>5, <1>6, <1>8, <1>9, <1>10, OldestOfUnread

\* What the game is given as data is the oldest whole line of input of the client
\* that is on the line: net.input neither skips nor splits one, until it comes to
\* what is behind a NUL.
THEOREM OldestLineIsDelivered == ASSUME Orderly PROVE Spec => DeliversOldestLine
<1> DEFINE Oldest == event' # event /\ event'.ret = 3 =>
             \E h \in Handle :
               /\ conn[h] = event'.line
               /\ socket[h] # "unallocated"
               /\ \/ /\ fifo[h] = event'.text \o <<NL>> \o fifo'[h]
                     /\ ~HasNewline(event'.text) /\ ~HasNul(event'.text)
                  \/ NoFirstNewline(fifo[h]) /\ HasNul(fifo[h])
<1>1. TableInv /\ InputIntact /\ [Next]_vars => [Oldest]_vars
  BY StepDelivers
<1>2. Spec => []TableInv
  BY TableInvariant
<1>3. Spec => []InputIntact
  BY InputStaysIntact
<1>4. Spec => [][Oldest]_vars
  <2> HIDE DEF Oldest
  <2> QED BY <1>1, <1>2, <1>3, PTL DEF Spec
<1> QED BY <1>4 DEF DeliversOldestLine

-----------------------------------------------------------------------------
(* The table keeps the promise of LineService.                             *)

\* What the mapped variables are, said of the table: a line that is not empty has
\* the client its handle points to.
View ==
  /\ Clients = [l \in Line |->
       IF status[l] = "empty" THEN "none"
       ELSE IF socket[line_handle[l]] = "open" THEN "here" ELSE "gone"]
  /\ Unread = [l \in Line |-> IF status[l] = "empty" THEN <<>> ELSE fifo[line_handle[l]]]
  /\ Known = [l \in Line |-> told[l] # NoHandle]
  /\ Outputs = [l \in Line |-> status[l] # "empty" /\ outbuf[l]]

LEMMA OnLine ==
  ASSUME TableInv, NEW l \in Line
  PROVE  IF status[l] = "empty" THEN On(l) = {}
         ELSE On(l) # {} /\ ClientOn(l) = line_handle[l]
<1>1. \A h \in Handle : conn[h] = l =>
        status[l] # "empty" /\ line_handle[l] = h
  BY LineTypes DEF TableInv, SocketInv
<1>2. status[l] = "empty" => On(l) = {}
  BY <1>1 DEF On
<1>3. status[l] # "empty" => On(l) = {line_handle[l]}
  BY <1>1 DEF On, TableInv, OccupiedInv
<1>4. \A h : On(l) = {h} => ClientOn(l) = h
  BY DEF ClientOn
<1> QED BY <1>2, <1>3, <1>4

LEMMA TableView == TableInv => View
<1> SUFFICES ASSUME TableInv PROVE View
  OBVIOUS
<1>1. \A l \in Line :
        IF status[l] = "empty" THEN On(l) = {}
        ELSE On(l) # {} /\ ClientOn(l) = line_handle[l]
  BY OnLine
<1>2. Clients = [l \in Line |->
        IF status[l] = "empty" THEN "none"
        ELSE IF socket[line_handle[l]] = "open" THEN "here" ELSE "gone"]
  BY <1>1 DEF Clients
<1>3. Unread = [l \in Line |-> IF status[l] = "empty" THEN <<>> ELSE fifo[line_handle[l]]]
  BY <1>1 DEF Unread
<1>4. Outputs = [l \in Line |-> status[l] # "empty" /\ outbuf[l]]
  BY <1>1 DEF Outputs
<1> QED BY <1>2, <1>3, <1>4 DEF View, Known

LEMMA NextView == TableInv' => View'
  BY TableView, PTL

\* What a line has besides an open, closing or closed socket of its own.
LEMMA Occupied ==
  ASSUME TableInv, NEW l \in Line, status[l] # "empty"
  PROVE  /\ line_handle[l] \in Handle
         /\ socket[line_handle[l]] \in {"open", "closing", "closed"}
         /\ socket[line_handle[l]] = "closed" <=> status[l] = "disconnecting"
         /\ phase = "code" => (socket[line_handle[l]] = "open" <=> Connected(l))
<1>1. line_handle[l] \in Handle /\ conn[line_handle[l]] = l /\ l # NoLine
  BY LineTypes DEF TableInv, OccupiedInv
<1>2. socket[line_handle[l]] \in {"open", "closing", "closed"}
  BY <1>1 DEF TableInv, TypeOK, SocketInv
<1>3. socket[line_handle[l]] = "closed" <=> status[l] = "disconnecting"
  BY <1>1, <1>2 DEF TableInv, SocketInv
<1> QED BY <1>1, <1>2, <1>3 DEF TableInv, ClosedInv, Connected

\* The lines that are not empty have different sockets.
LEMMA Apart ==
  ASSUME TableInv, NEW k \in Line, NEW l \in Line,
         status[k] # "empty", status[l] # "empty", line_handle[k] = line_handle[l]
  PROVE  k = l
  BY DEF TableInv, OccupiedInv

\* The line of an open socket is the one that append_input finds.
LEMMA Took ==
  ASSUME TableInv, NEW h \in Handle, socket[h] = "open"
  PROVE  \E l \in Line :
           /\ conn[h] = l /\ line_handle[l] = h
           /\ Connected(l)
           /\ {k \in Line : IsLineOf(k, h) /\ Connected(k)} = {l}
           /\ \A k \in Line : IsLineOf(k, h) <=> k = l
<1> WITNESS conn[h] \in Line
<1>1. \A k \in Line : IsLineOf(k, h) <=> k = conn[h]
  BY FindLine
<1> QED BY <1>1 DEF TableInv, SocketInv, Connected

\* The game is not told of a connection before net.input reports it.
UntoldInv == \A l \in Line : status[l] = "connecting" => told[l] = NoHandle

ServiceInv == TableInv /\ InputIntact /\ DataHasNewline /\ UntoldInv

LEMMA ArriveService ==
  ASSUME ServiceInv, View, View', NEW h \in Handle, NEW l \in Line, Connect(h, l)
  PROVE  Service!Arrive(l)
<1>1. /\ status[l] = "empty"
      /\ status' = [status EXCEPT ![l] = "connecting"]
      /\ line_handle' = [line_handle EXCEPT ![l] = h]
      /\ socket[h] = "unallocated" /\ socket' = [socket EXCEPT ![h] = "open"]
      /\ fifo' = [fifo EXCEPT ![h] = <<>>]
      /\ outbuf' = [outbuf EXCEPT ![l] = FALSE]
      /\ UNCHANGED <<event, told>>
  BY DEF Connect, FirstEmpty
<1>2. TableInv /\ TypeOK
  BY DEF ServiceInv, TableInv
<1>3. \A k \in Line : status[k] # "empty" =>
        k # l /\ line_handle[k] \in Handle /\ line_handle[k] # h
  BY <1>1, <1>2, Occupied
<1>4. Clients' = [Clients EXCEPT ![l] = "here"]
  BY <1>1, <1>2, <1>3 DEF View, TypeOK
<1>5. Unread' = Unread
  BY <1>1, <1>2, <1>3 DEF View, TypeOK
<1>6. Outputs' = Outputs /\ ~Outputs[l]
  BY <1>1, <1>2, <1>3 DEF View, TypeOK
<1>7. Known' = Known /\ ~Known[l]
  BY <1>1, <1>2 DEF View, TableInv, KnownInv
<1>8. Clients[l] = "none"
  BY <1>1 DEF View
<1> QED BY <1>1, <1>4, <1>5, <1>6, <1>7, <1>8 DEF Service!Arrive

LEMMA SendService ==
  ASSUME ServiceInv, View, View', NEW h \in Handle, NEW data \in Chunk,
         NEW err \in BOOLEAN, ClientRead(h, data, err)
  PROVE  \E l \in Line : Service!Send(l, data, err)
<1>1. /\ TableInv /\ TypeOK /\ socket[h] = "open"
      /\ fifo \in [Handle -> Seq(Sent)]
  BY DEF ServiceInv, TableInv, TypeOK, ClientRead
<1>2. PICK l \in Line :
        /\ line_handle[l] = h /\ Connected(l)
        /\ {k \in Line : IsLineOf(k, h) /\ Connected(k)} = {l}
  BY <1>1, Took
<1> SUFFICES Service!Send(l, data, err)
  OBVIOUS
<1>3. /\ fifo' = [fifo EXCEPT ![h] = IF HasNul(@) THEN @ ELSE @ \o data]
      /\ status' = [k \in Line |->
           IF k \in {l} /\ HasNewline(data) THEN "data" ELSE status[k]]
      /\ socket' = [socket EXCEPT ![h] = IF err THEN "closing" ELSE "open"]
      /\ UNCHANGED <<line_handle, outbuf, event, told>>
  BY <1>1, <1>2 DEF ClientRead
<1>4. \A k \in Line : status'[k] = "empty" <=> status[k] = "empty"
  BY <1>2, <1>3 DEF Connected
<1>5. \A k \in Line : k # l /\ status[k] # "empty" =>
        line_handle[k] \in Handle /\ line_handle[k] # h
  BY <1>1, <1>2, Occupied, Apart DEF Connected
<1>6. status[l] # "empty"
  BY <1>2 DEF Connected
<1>7. Clients[l] = "here"
  BY <1>1, <1>2, <1>6 DEF View
<1>8. Clients' = [Clients EXCEPT ![l] = IF err THEN "gone" ELSE "here"]
  BY <1>1, <1>2, <1>3, <1>4, <1>5, <1>6, ZenonT(60) DEF View, TypeOK
<1>9. Unread' = [Unread EXCEPT ![l] =
                   IF Service!HasNul(@) THEN @ ELSE @ \o data]
  <2>1. \A k \in Line : status[k] # "empty" /\ k # l =>
          fifo'[line_handle'[k]] = fifo[line_handle[k]]
    BY <1>1, <1>3, <1>5 DEF TypeOK
  <2>2. fifo'[line_handle'[l]] = IF Service!HasNul(fifo[h]) THEN fifo[h]
                                                          ELSE fifo[h] \o data
    BY <1>1, <1>2, <1>3 DEF TypeOK, HasNul, Service!HasNul
  <2>3. Unread[l] = fifo[h]
    BY <1>2, <1>6 DEF View
  <2>4. \A k \in Line : (IF status'[k] = "empty" THEN <<>> ELSE fifo'[line_handle'[k]])
                          = IF k = l THEN fifo'[line_handle'[l]] ELSE Unread[k]
    BY <1>4, <1>6, <2>1 DEF View
  <2>5. Unread' = [k \in Line |-> IF k = l THEN fifo'[line_handle'[l]] ELSE Unread[k]]
    BY <2>4 DEF View
  <2>6. Unread = [k \in Line |-> Unread[k]]
    BY DEF View
  <2> QED BY <2>2, <2>3, <2>5, <2>6
<1>10. Outputs' = Outputs /\ Known' = Known
  BY <1>3, <1>4 DEF View
<1> QED BY <1>3, <1>7, <1>8, <1>9, <1>10 DEF Service!Send

LEMMA LeaveService ==
  ASSUME ServiceInv, View, View', NEW h \in Handle, ClientGone(h)
  PROVE  \E l \in Line : Service!Leave(l)
<1>1. /\ TableInv /\ TypeOK /\ socket[h] = "open"
      /\ socket' = [socket EXCEPT ![h] = "closing"]
      /\ UNCHANGED <<status, line_handle, fifo, outbuf, event, told>>
  BY DEF ServiceInv, TableInv, ClientGone, table, history
<1>2. PICK l \in Line : line_handle[l] = h /\ Connected(l)
  BY <1>1, Took
<1>3. \A k \in Line : k # l /\ status[k] # "empty" =>
        line_handle[k] \in Handle /\ line_handle[k] # h
  BY <1>1, <1>2, Occupied, Apart DEF Connected
<1>4. status[l] # "empty"
  BY <1>2 DEF Connected
<1>5. Clients[l] = "here"
  BY <1>1, <1>2, <1>4 DEF View
<1>6. Clients' = [Clients EXCEPT ![l] = "gone"]
  BY <1>1, <1>2, <1>3, <1>4 DEF View, TypeOK
<1>7. Unread' = Unread /\ Outputs' = Outputs /\ Known' = Known
  BY <1>1 DEF View
<1> QED BY <1>1, <1>5, <1>6, <1>7 DEF Service!Leave

LEMMA CloseService ==
  ASSUME ServiceInv, View, View', NEW h \in Handle, NEW l \in Line,
         ClientOnClose(h, l)
  PROVE  UNCHANGED Service!vars
<1>1. /\ TableInv /\ TypeOK /\ socket[h] = "closing" /\ line_handle[l] = h
      /\ conn[h] = l
      /\ socket' = [socket EXCEPT ![h] = "closed"]
      /\ status' = [status EXCEPT ![l] = "disconnecting"]
      /\ UNCHANGED <<line_handle, fifo, outbuf, event, told>>
  BY FindLine DEF ServiceInv, TableInv, ClientOnClose, history, IsLineOf
<1>2. status[l] # "empty"
  BY <1>1 DEF TableInv, SocketInv
<1>3. \A k \in Line : k # l /\ status[k] # "empty" =>
        line_handle[k] \in Handle /\ line_handle[k] # h
  BY <1>1, <1>2, Occupied, Apart
<1>4. \A k \in Line : status'[k] = "empty" <=> status[k] = "empty"
  BY <1>1, <1>2 DEF TypeOK
<1>5. Clients' = Clients
  BY <1>1, <1>2, <1>3, <1>4 DEF View, TypeOK
<1>6. Unread' = Unread /\ Outputs' = Outputs /\ Known' = Known
  BY <1>1, <1>4 DEF View
<1> QED BY <1>1, <1>5, <1>6 DEF Service!vars

\* net.write to a client that has gone, or to an empty line, leaves nothing that
\* is sent to anybody.
LEMMA WriteService ==
  ASSUME ServiceInv, View, View', NEW l \in Line,
         outbuf' = [outbuf EXCEPT ![l] = @ \/ Connected(l)],
         Connected(l) => socket[line_handle[l]] = "open",
         UNCHANGED <<status, line_handle, fifo, event, socket, told>>
  PROVE  Service!Write(l) \/ UNCHANGED Service!vars
<1>1. Clients' = Clients /\ Unread' = Unread /\ Known' = Known
  BY DEF View
<1>2. outbuf \in [Line -> BOOLEAN]
  BY DEF ServiceInv, TableInv, TypeOK
<1>3. CASE Connected(l)
  <2>1. status[l] # "empty"
    BY <1>3 DEF Connected
  <2>2. Clients[l] = "here"
    BY <1>3, <2>1 DEF View
  <2>3. outbuf' = [outbuf EXCEPT ![l] = TRUE]
    BY <1>2, <1>3
  <2>4. Outputs' = [Outputs EXCEPT ![l] = TRUE]
    BY <1>2, <2>1, <2>3 DEF View
  <2> QED BY <1>1, <2>2, <2>4 DEF Service!Write
<1>4. CASE ~Connected(l)
  <2>1. outbuf' = outbuf
    BY <1>2, <1>4
  <2>2. Outputs' = Outputs
    BY <2>1 DEF View
  <2> QED BY <1>1, <2>2 DEF Service!vars
<1> QED BY <1>3, <1>4

LEMMA NegotiateService ==
  ASSUME ServiceInv, View, View', NEW h \in Handle, NEW l \in Line,
         ClientNegotiates(h, l)
  PROVE  Service!Write(l) \/ UNCHANGED Service!vars
  BY WriteService DEF ClientNegotiates, IsLineOf, history

LEMMA NetWriteService ==
  ASSUME ServiceInv, View, View', NEW l \in Line, NetWrite(l)
  PROVE  Service!Write(l) \/ UNCHANGED Service!vars
<1>1. Connected(l) => socket[line_handle[l]] = "open"
  BY Occupied DEF ServiceInv, NetWrite, Coding, Connected
<1> QED BY <1>1, WriteService DEF NetWrite, history

LEMMA FlushService ==
  ASSUME ServiceInv, View, View', Flush
  PROVE  Service!Turn
<1>1. /\ phase = "code"
      /\ outbuf' = [l \in Line |-> outbuf[l] /\ ~Connected(l)]
      /\ event' = Quiet
      /\ UNCHANGED <<status, line_handle, fifo, socket, told>>
  BY DEF Flush, Coding, history
<1>2. Clients' = Clients /\ Unread' = Unread /\ Known' = Known
  BY <1>1 DEF View
<1>3. \A l \in Line : status[l] # "empty" => (Clients[l] = "here" <=> Connected(l))
  BY <1>1, Occupied DEF ServiceInv, View
<1>4. Outputs' = [l \in Line |-> Outputs[l] /\ Clients[l] # "here"]
  BY <1>1, <1>3 DEF View
<1> QED BY <1>1, <1>2, <1>4 DEF Service!Turn, Service!Report, Quiet

LEMMA ConnectedService ==
  ASSUME ServiceInv, View, View', NEW l \in Line, InputConnect(l)
  PROVE  Service!Connected(l)
<1>1. /\ TableInv /\ TypeOK /\ phase = "code" /\ status[l] = "connecting"
      /\ status' = [status EXCEPT ![l] = "idle"]
      /\ event' = [ret |-> 1, line |-> l, text |-> <<>>]
      /\ told' = [told EXCEPT ![l] = line_handle[l]]
      /\ UNCHANGED <<line_handle, fifo, outbuf, socket>>
  BY DEF ServiceInv, TableInv, InputConnect, Scan, Coding
<1>2. socket[line_handle[l]] = "open" /\ line_handle[l] # NoHandle
  BY <1>1, Occupied, HandleAssumption DEF Connected
<1>3. \A k \in Line : status'[k] = "empty" <=> status[k] = "empty"
  BY <1>1 DEF TypeOK
<1>4. Clients' = Clients /\ Clients[l] = "here"
  BY <1>1, <1>2, <1>3 DEF View
<1>5. Unread' = Unread /\ Outputs' = Outputs
  BY <1>1, <1>3 DEF View
<1>6. Known' = [Known EXCEPT ![l] = TRUE] /\ ~Known[l]
  BY <1>1, <1>2 DEF View, TypeOK, ServiceInv, UntoldInv
<1>7. ~Service!HasLine(Unread[l])
  <2> DEFINE f == fifo[line_handle[l]]
  <2>1. Unread[l] = f /\ Keeps(inbuf[l], f)
    BY <1>1, LineTypes DEF View, ServiceInv, InputIntact, TableInv, OccupiedInv
  <2>2. \A j \in 1 .. Len(inbuf[l]) : inbuf[l][j] # NL
    BY <1>1 DEF ServiceInv, DataHasNewline, HasNewline
  <2>4. f \in Seq(Sent)
    BY <1>1 DEF TypeOK, TableInv, OccupiedInv
  <2> HIDE DEF f
  <2>3. ASSUME NEW j \in 1 .. Len(f), Service!EndsLine(j, f) PROVE FALSE
    <3>1. f[j] = NL /\ \A k \in 1 .. j : f[k] # NUL
      BY <2>3, NulAssumption DEF Service!EndsLine
    <3>2. j <= Len(inbuf[l]) /\ inbuf[l][j] = f[j]
      BY <2>1, <3>1 DEF Keeps
    <3> QED BY <2>2, <2>4, <3>1, <3>2
  <2> QED BY <2>1, <2>3 DEF Service!HasLine
<1> QED BY <1>1, <1>4, <1>5, <1>6, <1>7 DEF Service!Connected, Service!Report

LEMMA InputService ==
  ASSUME ServiceInv, View, View', NEW l \in Line, NEW i \in 1 .. MaxIn,
         NEW n \in 0 .. MaxIn, InputData(l, i, n)
  PROVE  Service!Input(l) \/ Service!Garbled(l)
<1> DEFINE h == line_handle[l]
           f == fifo[h]
<1>0. \E m : status' = [status EXCEPT ![l] = m] /\ m # "empty"
  <2> DEFINE rest == SubSeq(SubSeq(inbuf[l], i + 1, Len(inbuf[l])), 1, n)
  <2>1. status' = [status EXCEPT ![l] = StatusAfter(rest)]
    BY DEF InputData
  <2>2. StatusAfter(rest) # "empty"
    BY DEF StatusAfter
  <2> QED BY <2>1, <2>2
<1>1. /\ TableInv /\ TypeOK /\ phase = "code" /\ status[l] = "data"
      /\ FirstNewline(i, inbuf[l])
      /\ event' = [ret |-> 3, line |-> l, text |-> SubSeq(inbuf[l], 1, i - 1)]
      /\ told' = [told EXCEPT ![l] = h]
      /\ fifo' = [g \in Handle |->
           IF conn[g] = l THEN ReadUpTo(i, fifo[g]) ELSE fifo[g]]
      /\ UNCHANGED <<line_handle, outbuf, socket>>
  BY DEF ServiceInv, TableInv, InputData, Scan, Coding
<1>2. socket[h] = "open" /\ h # NoHandle /\ h \in Handle /\ conn[h] = l
  BY <1>1, Occupied, HandleAssumption DEF Connected, TableInv, OccupiedInv
<1>3. \A k \in Line : status'[k] = "empty" <=> status[k] = "empty"
  BY <1>0, <1>1 DEF TypeOK
<1>4. Clients' = Clients /\ Clients[l] = "here"
  BY <1>1, <1>2, <1>3 DEF View
<1>5. Outputs' = Outputs /\ Unread[l] = f
  BY <1>1, <1>3 DEF View
<1>6. Unread' = [Unread EXCEPT ![l] = ReadUpTo(i, f)]
  <2>1. \A k \in Line : status[k] # "empty" =>
          /\ line_handle[k] \in Handle
          /\ conn[line_handle[k]] = l <=> k = l
    BY <1>1 DEF TableInv, OccupiedInv
  <2>2. \A k \in Line : status[k] # "empty" =>
          fifo'[line_handle'[k]] =
            IF k = l THEN ReadUpTo(i, f) ELSE fifo[line_handle[k]]
    BY <1>1, <2>1
  <2>3. \A k \in Line : (IF status'[k] = "empty" THEN <<>> ELSE fifo'[line_handle'[k]])
                          = IF k = l THEN ReadUpTo(i, f) ELSE Unread[k]
    BY <1>1, <1>3, <2>2 DEF View
  <2> HIDE DEF f
  <2>4. Unread' = [k \in Line |-> IF k = l THEN ReadUpTo(i, f) ELSE Unread[k]]
    BY <2>3 DEF View
  <2>5. Unread = [k \in Line |-> Unread[k]]
    BY DEF View
  <2> QED BY <2>4, <2>5
<1>7. Known' = [Known EXCEPT ![l] = TRUE]
  BY <1>1, <1>2 DEF View, TypeOK
<1>8. /\ inbuf[l] \in Seq(Char) /\ f \in Seq(Sent)
      /\ Keeps(inbuf[l], f) /\ i \in Nat /\ i \in 1 .. Len(inbuf[l])
  <2>1. inbuf[l] \in Seq(Char) /\ f \in Seq(Sent)
    BY <1>1, <1>2 DEF TypeOK
  <2>2. Keeps(inbuf[l], f)
    BY <1>2, LineTypes DEF ServiceInv, InputIntact
  <2>3. i \in Nat /\ i \in 1 .. Len(inbuf[l])
    BY <1>1 DEF FirstNewline
  <2> QED BY <2>1, <2>2, <2>3
<1> HIDE DEF f, h
<1>9. Unread = [k \in Line |-> Unread[k]]
  BY DEF View
<1>10. CASE FirstNewline(i, f) /\ \A k \in 1 .. i : inbuf[l][k] = f[k]
  <2>1. i \in 1 .. Len(f) /\ Service!EndsLine(i, f)
    BY <1>10 DEF FirstNewline, Service!EndsLine
  <2>2. SubSeq(inbuf[l], 1, i - 1) = SubSeq(f, 1, i - 1)
    BY <1>8, <1>10, <2>1, SameFront
  <2>3. event' = [ret |-> 3, line |-> l, text |-> SubSeq(Unread[l], 1, i - 1)]
    BY <1>1, <1>5, <2>2
  <2>4. Unread' = [Unread EXCEPT ![l] = SubSeq(@, i + 1, Len(@))]
    BY <1>5, <1>6, <1>9, <1>10 DEF ReadUpTo
  <2> QED BY <1>4, <1>5, <1>7, <2>1, <2>3, <2>4
          DEF Service!Input, Service!Report
<1>11. CASE NoFirstNewline(f) /\ HasNul(f)
  <2>1. Service!HasNul(Unread[l]) /\ ~Service!HasLine(Unread[l])
    BY <1>5, <1>11 DEF HasNul, Service!HasNul, NoFirstNewline, FirstNewline,
                       Service!HasLine, Service!EndsLine
  <2>2. ~FirstNewline(i, f)
    BY <1>11 DEF NoFirstNewline, FirstNewline
  <2>3. Unread' = [Unread EXCEPT ![l] = <<NUL>>]
    BY <1>6, <2>2 DEF ReadUpTo
  <2>4. event' = [ret |-> 3, line |-> l, text |-> event'.text]
    BY <1>1
  <2> QED BY <1>4, <1>5, <1>7, <2>1, <2>3, <2>4
          DEF Service!Garbled, Service!Report
<1> QED BY <1>1, <1>8, <1>10, <1>11, OldestOfUnread

LEMMA GoneService ==
  ASSUME ServiceInv, View, View', NEW l \in Line, InputDisconnect(l)
  PROVE  Service!Gone(l)
<1>1. /\ TableInv /\ TypeOK /\ status[l] = "disconnecting"
      /\ status' = [status EXCEPT ![l] = "empty"]
      /\ socket' = [h \in Handle |->
           IF h = line_handle[l] THEN "unallocated" ELSE socket[h]]
      /\ fifo' = [h \in Handle |-> IF conn[h] = l THEN <<>> ELSE fifo[h]]
      /\ outbuf' = [outbuf EXCEPT ![l] = FALSE]
      /\ event' = [ret |-> 2, line |-> l, text |-> <<>>]
      /\ told' = [told EXCEPT ![l] = NoHandle]
      /\ line_handle' = line_handle
  BY DEF ServiceInv, TableInv, InputDisconnect
<1>2. socket[line_handle[l]] = "closed"
  BY <1>1, Occupied
<1>3. \A k \in Line : k # l /\ status[k] # "empty" =>
        /\ line_handle[k] \in Handle /\ line_handle[k] # line_handle[l]
        /\ conn[line_handle[k]] = k
  BY <1>1, Occupied, Apart DEF TableInv, OccupiedInv
<1>4. \A k \in Line : status'[k] = "empty" <=> (k = l \/ status[k] = "empty")
  BY <1>1 DEF TypeOK
<1>5. Clients[l] = "gone"
  BY <1>1, <1>2 DEF View
<1>6. Clients' = [Clients EXCEPT ![l] = "none"]
  BY <1>1, <1>3, <1>4 DEF View
<1>7. Unread' = [Unread EXCEPT ![l] = <<>>]
  <2>1. \A k \in Line : k # l /\ status[k] # "empty" =>
          fifo'[line_handle'[k]] = fifo[line_handle[k]]
    BY <1>1, <1>3
  <2>2. \A k \in Line :
          (IF status'[k] = "empty" THEN <<>> ELSE fifo'[line_handle'[k]])
            = IF k = l THEN <<>> ELSE Unread[k]
    BY <1>4, <2>1 DEF View
  <2>3. Unread' = [k \in Line |-> IF k = l THEN <<>> ELSE Unread[k]]
    BY <2>2 DEF View
  <2>4. Unread = [k \in Line |-> Unread[k]]
    BY DEF View
  <2> QED BY <2>3, <2>4
<1>8. Outputs' = [Outputs EXCEPT ![l] = FALSE]
  BY <1>1, <1>4 DEF View, TypeOK
<1>9. Known' = [Known EXCEPT ![l] = FALSE]
  BY <1>1 DEF View, TypeOK
<1> QED BY <1>1, <1>5, <1>6, <1>7, <1>8, <1>9 DEF Service!Gone, Service!Report

LEMMA NothingService ==
  ASSUME View, View', InputNothing
  PROVE  Service!Nothing
<1>1. /\ UNCHANGED <<status, line_handle, fifo, outbuf, socket, told>>
      /\ event' = [ret |-> 0, line |-> NoLine, text |-> <<>>]
  BY DEF InputNothing, table
<1>2. UNCHANGED <<Clients, Unread, Known, Outputs>>
  BY <1>1 DEF View
<1> QED BY <1>1, <1>2 DEF Service!Nothing, Service!Report

LEMMA StutterService ==
  ASSUME View, View',
         \/ EndPoll \/ EndClosing \/ UNCHANGED vars
         \/ \E l \in Line : InputNoNewline(l)
  PROVE  UNCHANGED Service!vars
<1>1. UNCHANGED <<status, line_handle, fifo, outbuf, socket, told, event>>
  BY DEF EndPoll, EndClosing, InputNoNewline, vars, table, history
<1>2. UNCHANGED <<Clients, Unread, Known, Outputs>>
  BY <1>1 DEF View
<1> QED BY <1>1, <1>2 DEF Service!vars

LEMMA StepUntold ==
  ASSUME TableInv, UntoldInv, [Next]_vars
  PROVE  UntoldInv'
<1> USE DEF UntoldInv
<1>1. TypeOK
  BY DEF TableInv
<1>2. ASSUME NEW h \in Handle, NEW l \in Line, Connect(h, l) PROVE UntoldInv'
  <2>1. told[l] = NoHandle
    BY <1>2 DEF TableInv, KnownInv, Connect, FirstEmpty
  <2> QED BY <1>1, <1>2, <2>1 DEF Connect, TypeOK
<1>3. ASSUME NEW h \in Handle, NEW data \in Chunk, NEW err \in BOOLEAN,
             ClientRead(h, data, err)
      PROVE  UntoldInv'
  BY <1>1, <1>3 DEF ClientRead, TypeOK
<1>4. ASSUME NEW h \in Handle, NEW l \in Line, ClientOnClose(h, l)
      PROVE  UntoldInv'
  BY <1>1, <1>4 DEF ClientOnClose, history, TypeOK
<1>5. ASSUME NEW l \in Line,
             \/ InputConnect(l) \/ InputDisconnect(l)
             \/ \E i \in 1 .. MaxIn, n \in 0 .. MaxIn : InputData(l, i, n)
      PROVE  UntoldInv'
  <2>1. CASE InputConnect(l)
    BY <1>1, <2>1 DEF InputConnect, TypeOK
  <2>2. CASE InputDisconnect(l)
    BY <1>1, <2>2 DEF InputDisconnect, TypeOK
  <2>3. ASSUME NEW i \in 1 .. MaxIn, NEW n \in 0 .. MaxIn, InputData(l, i, n) PROVE UntoldInv'
    BY <1>1, <2>3 DEF InputData, StatusAfter, TypeOK
  <2> QED BY <1>5, <2>1, <2>2, <2>3
<1>6. CASE UNCHANGED <<status, told>>
  BY <1>6
<1> QED BY <1>2, <1>3, <1>4, <1>5, <1>6
  DEF Next, ConnectFull, ConnectRefused, ClientNegotiates, ClientGone,
      ClientOnCloseNull, EndPoll, EndClosing, NetInput, InputNothing,
      InputNoNewline, NetWrite, Flush, vars, table, history

LEMMA ServiceInvariant == ASSUME Orderly PROVE Spec => []ServiceInv
<1>1. Init => UntoldInv
  BY DEF Init, UntoldInv
<1>2. TableInv /\ UntoldInv /\ [Next]_vars => UntoldInv'
  BY StepUntold
<1>3. Spec => []TableInv
  BY TableInvariant
<1>4. Spec => []InputIntact
  BY InputStaysIntact
<1>5. Spec => []UntoldInv
  BY <1>1, <1>2, <1>3, PTL DEF Spec
<1> QED BY <1>3, <1>4, <1>5, DataMeansNewline, PTL DEF ServiceInv

LEMMA ServiceStep ==
  ASSUME Orderly, ServiceInv, View, View', [Next]_vars
  PROVE  [Service!Next]_Service!vars
<1>1. ASSUME NEW h \in Handle, NEW l \in Line, Connect(h, l)
      PROVE  Service!Next
  BY <1>1, ArriveService DEF Service!Next
<1>2. ASSUME NEW h \in Handle, ConnectFull(h) \/ ConnectRefused(h) PROVE FALSE
  BY <1>2 DEF ConnectFull, ConnectRefused, Orderly
<1>3. ASSUME NEW h \in Handle, NEW data \in Chunk, NEW err \in BOOLEAN,
             ClientRead(h, data, err)
      PROVE  Service!Next
  BY <1>3, SendService DEF Service!Next
<1>4. ASSUME NEW h \in Handle, NEW l \in Line, ClientNegotiates(h, l)
      PROVE  [Service!Next]_Service!vars
  BY <1>4, NegotiateService DEF Service!Next
<1>5. ASSUME NEW h \in Handle, ClientGone(h) PROVE Service!Next
  BY <1>5, LeaveService DEF Service!Next
<1>6. ASSUME NEW h \in Handle, NEW l \in Line, ClientOnClose(h, l)
      PROVE  [Service!Next]_Service!vars
  BY <1>6, CloseService
<1>7. ASSUME NEW h \in Handle, ClientOnCloseNull(h) PROVE FALSE
  BY <1>7 DEF ClientOnCloseNull, NoLineOf, ServiceInv, TableInv, SocketInv
<1>8. CASE EndPoll \/ EndClosing \/ UNCHANGED vars
  BY <1>8, StutterService
<1>9. CASE NetInput
  <2>1. ASSUME NEW l \in Line, InputConnect(l) PROVE Service!Next
    BY <2>1, ConnectedService DEF Service!Next
  <2>2. ASSUME NEW l \in Line, InputDisconnect(l) PROVE Service!Next
    BY <2>2, GoneService DEF Service!Next
  <2>3. ASSUME NEW l \in Line, NEW i \in 1 .. MaxIn, NEW n \in 0 .. MaxIn, InputData(l, i, n)
        PROVE  Service!Next
    BY <2>3, InputService DEF Service!Next
  <2>4. CASE InputNothing
    BY <2>4, NothingService DEF Service!Next
  <2>5. ASSUME NEW l \in Line, InputNoNewline(l) PROVE UNCHANGED Service!vars
    BY <2>5, StutterService
  <2> QED BY <1>9, <2>1, <2>2, <2>3, <2>4, <2>5 DEF NetInput
<1>10. ASSUME NEW l \in Line, NetWrite(l) PROVE [Service!Next]_Service!vars
  BY <1>10, NetWriteService DEF Service!Next
<1>11. CASE Flush
  BY <1>11, FlushService DEF Service!Next
<1> QED BY <1>1, <1>2, <1>3, <1>4, <1>5, <1>6, <1>7, <1>8, <1>9, <1>10, <1>11
        DEF Next

\* The table implements LineService: whatever addresses malloc gives out again and
\* however callbacks and library calls follow each other, the whole lines of a
\* client are given in order, up to a NUL, its connection is told at most once and
\* not behind one of them, its end once, and what waits to be sent to it never
\* reaches another.
THEOREM LinesImplementLineService ==
  ASSUME Orderly
  PROVE  Spec => ServiceSpec
<1>1. Init => Service!Init
  <2> SUFFICES ASSUME Init PROVE Service!Init
    OBVIOUS
  <2>1. View
    BY TableView, InitTableInv DEF Init, InputIntact
  <2> QED BY <2>1 DEF Init, View, Quiet, Service!Init
<1>2. ServiceInv => View
  BY TableView DEF ServiceInv
<1>3. ServiceInv /\ ServiceInv' /\ [Next]_vars => [Service!Next]_Service!vars
  BY <1>2, ServiceStep, NextView DEF ServiceInv
<1>4. Spec => []ServiceInv
  BY ServiceInvariant
<1> QED BY <1>1, <1>3, <1>4, PTL DEF Spec, ServiceSpec, Service!Spec

=============================================================================
