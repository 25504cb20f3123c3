------------------------------- MODULE Lines -------------------------------
(***************************************************************************)
(* The connection table of the engine (src/network.c) and the two library  *)
(* calls game code reaches it with: net.input and net.write                *)
(* (src/libcall.c).  One thread runs everything: libuv goes round the      *)
(* phases below, and each callback runs to its end.                        *)
(*                                                                         *)
(*   "code"     timers and idle handle: game code runs, then output is     *)
(*              flushed (input_processor)                                  *)
(*   "poll"     connections are accepted and sockets read                  *)
(*   "closing"  the callbacks of the sockets passed to uv_close            *)
(*                                                                         *)
(* Text is a sequence of characters of which only the newline and the NUL  *)
(* matter: libtelnet lets a NUL through, memchr and memcpy take it for a   *)
(* character, and get_input reads the buffer as a C string.                *)
(***************************************************************************)
EXTENDS Integers, Sequences

CONSTANTS
  MaxConns,     \* config.maxconns, the size of the line table
  Handle,       \* the addresses malloc may return for a uv_tcp_t
  NoHandle,     \* an address that is none of them
  Chunk,        \* what one read of a socket may bring, a set of sequences
  NL,           \* the newline character
  NUL,          \* the character that ends a C string
  InbufLength,  \* INBUF_LENGTH, the allocation unit of the input buffer
  MaxIn,        \* bound: characters the engine holds unread for one line
  MaxPolls,     \* bound: calls of net.input in one turn of the loop
  Rough         \* what the world does besides ordinary play, see below

(* "full":    a client connects while no line is free                      *)
(* "refused": uv_accept fails for a pending connection                     *)
(* "writes":  game code writes to lines it was never told are connected    *)
Liberty == {"full", "refused", "writes"}

ASSUME MaxConnsAssumption == MaxConns \in 1..255   \* uint8_t, config.h:28
ASSUME HandleAssumption == NoHandle \notin Handle
ASSUME RoughAssumption == Rough \subseteq Liberty
ASSUME NulAssumption == NUL # NL
ASSUME BoundAssumption == /\ InbufLength \in Nat \ {0}
                          /\ MaxIn \in Nat
                          /\ MaxPolls \in Nat \ {0}

Char == UNION {{c[i] : i \in 1 .. Len(c)} : c \in Chunk}
ASSUME ChunkAssumption == \A c \in Chunk : c \in Seq(Char)

\* What the history of a client is made of: a NUL of it outlives the chunk.
Sent == Char \cup {NUL}

Line == 0 .. MaxConns - 1
NoLine == -1

VARIABLES
  phase,        \* where the event loop is
  polls,        \* calls of net.input so far in this turn of the loop
  status,       \* line[l].status
  line_handle,  \* line[l].line_handle; keeps its value when the line is freed
  telnet,       \* line[l].telnet: "null" until set, "live", "freed"
  inbuf,        \* line[l].inbuf->buf
  length,       \* line[l].inbuf->length
  outbuf,       \* line[l].outbuf->buf.len > 0
  lastconn,     \* config.lastconn
  event,        \* what the latest net.input of this turn told the game
  socket,       \* state of the uv_tcp_t at an address
  fault,        \* "none", or how the process died
  \* History variables: read by no guard.
  conn,         \* conn[h]: the line add_line gave the socket at h
  fifo,         \* fifo[h]: what the socket at h sent and the game has not got,
                \* up to the chunk with the first NUL: behind it nothing is sure
  told,         \* told[l]: the socket the game believes to be on line l
  wait          \* wait[l]: calls of net.input that passed over active line l

table == <<status, line_handle, telnet, inbuf, length, outbuf>>
history == <<conn, fifo, told, wait>>
vars == <<phase, polls, table, lastconn, event, socket, fault, history>>

Quiet == [ret |-> -1, line |-> NoLine, text |-> <<>>]

Init ==
  /\ phase = "code"
  /\ polls = 0
  /\ status = [l \in Line |-> "empty"]
  /\ line_handle = [l \in Line |-> NoHandle]  \* GROW_ARRAY clears new memory
  /\ telnet = [l \in Line |-> "null"]
  /\ inbuf = [l \in Line |-> <<>>]
  /\ length = [l \in Line |-> InbufLength]
  /\ outbuf = [l \in Line |-> FALSE]
  /\ lastconn = 255
  /\ event = Quiet
  /\ socket = [h \in Handle |-> "unallocated"]
  /\ fault = "none"
  /\ conn = [h \in Handle |-> NoLine]
  /\ fifo = [h \in Handle |-> <<>>]
  /\ told = [l \in Line |-> NoHandle]
  /\ wait = [l \in Line |-> 0]

-----------------------------------------------------------------------------
(* What the code computes about the table.                                 *)

\* Mutant: the search starts at the end of the table.
IsLineOfLast(l, h) ==
  /\ line_handle[l] = h
  /\ \A k \in Line : k > l => line_handle[k] # h

\* find_line returns l for h: the first line that holds the address.
IsLineOf(l, h) ==
  /\ line_handle[l] = h
  /\ \A k \in Line : k < l => line_handle[k] # h

NoLineOf(h) == \A l \in Line : line_handle[l] # h

\* Mutant: any empty line.
AnyEmpty(l) == status[l] = "empty"

\* Mutant: a line whose client has gone is as good as an empty one.
FirstUnused(l) ==
  /\ status[l] \in {"empty", "disconnecting"}
  /\ \A k \in Line : k < l => status[k] \notin {"empty", "disconnecting"}

\* The line add_line picks: the first empty one.
FirstEmpty(l) ==
  /\ status[l] = "empty"
  /\ \A k \in Line : k < l => status[k] # "empty"

\* Mutant: a line is connected until it is freed.
NotEmpty(l) == status[l] # "empty"

\* The test of append_input, append_output and the flush loop.
Connected(l) == status[l] \notin {"empty", "disconnecting"}

\* Mutant: net.input does not report disconnections.
ActiveUnlessGone(l) == status[l] \in {"connecting", "data"}

\* The states net.input reports.
Active(l) == status[l] \in {"connecting", "disconnecting", "data"}

\* memchr: s holds a newline, wherever it is.
HasNewline(s) == \E i \in 1 .. Len(s) : s[i] = NL

HasNul(s) == \E i \in 1 .. Len(s) : s[i] = NUL

\* Mutant: strrchr.
LastNewline(i, s) ==
  /\ i \in 1 .. Len(s)
  /\ s[i] = NL
  /\ \A j \in i + 1 .. Len(s) : s[j] # NL

\* strchr finds the first newline of the C string s at i; not behind a NUL.
FirstNewline(i, s) ==
  /\ i \in 1 .. Len(s)
  /\ s[i] = NL
  /\ \A j \in 1 .. i - 1 : s[j] \notin {NL, NUL}

NoFirstNewline(s) == ~\E i \in 1 .. Len(s) : FirstNewline(i, s)

\* n is strlen(s): what strcpy copies of s.
StringLength(n, s) ==
  /\ n \in 0 .. Len(s)
  /\ \A j \in 1 .. n : s[j] # NUL
  /\ n < Len(s) => s[n + 1] = NUL

\* Mutant: the line stays in LINE_data.
StatusKept(rest) == "data"

\* The status get_input leaves, rest being what it leaves in the buffer.
StatusAfter(rest) == IF HasNewline(rest) THEN "data" ELSE "idle"

\* Mutant: the NUL is forgotten.
GrownNoNul(len, n) ==
  IF n <= len THEN len
  ELSE len + InbufLength * ((n - len) \div InbufLength + 1)

\* The allocation after append_input has embiggened it for n characters.
Grown(len, n) ==
  IF n + 1 < len THEN len
  ELSE len + InbufLength * ((n + 1 - len) \div InbufLength + 1)

\* Mutant: lastconn is not incremented first.
StartAgain == IF lastconn >= MaxConns THEN 0 ELSE lastconn

\* The line net.input looks at first.
Start == LET next == (lastconn + 1) % 256
         IN  IF next >= MaxConns THEN 0 ELSE next

-----------------------------------------------------------------------------
(* "poll": callbacks of the listener and of the connected sockets.         *)

Polling == fault = "none" /\ phase = "poll"

\* on_new_connection, a line is free.  The greeting is sent before it returns.
Connect(h, l) ==
  /\ Polling
  /\ socket[h] = "unallocated"
  /\ FirstEmpty(l)
  /\ socket' = [socket EXCEPT ![h] = "open"]
  /\ line_handle' = [line_handle EXCEPT ![l] = h]
  /\ status' = [status EXCEPT ![l] = "connecting"]
  /\ telnet' = [telnet EXCEPT ![l] = "live"]
  /\ inbuf' = [inbuf EXCEPT ![l] = <<>>]
  /\ length' = [length EXCEPT ![l] = InbufLength]
  /\ outbuf' = [outbuf EXCEPT ![l] = FALSE]
  /\ conn' = [conn EXCEPT ![h] = l]
  /\ fifo' = [fifo EXCEPT ![h] = <<>>]
  /\ UNCHANGED <<phase, polls, lastconn, event, fault, told, wait>>

\* on_new_connection, the table is full: the NULL line is used all the same.
ConnectFull(h) ==
  /\ Polling
  /\ "full" \in Rough
  /\ socket[h] = "unallocated"
  /\ \A l \in Line : status[l] # "empty"
  /\ socket' = [socket EXCEPT ![h] = "closing"]
  /\ fault' = "null_line"
  /\ UNCHANGED <<phase, polls, table, lastconn, event, history>>

\* on_new_connection, uv_accept fails: a socket without a line is closed.
ConnectRefused(h) ==
  /\ Polling
  /\ "refused" \in Rough
  /\ socket[h] = "unallocated"
  /\ socket' = [socket EXCEPT ![h] = "closing"]
  /\ UNCHANGED <<phase, polls, table, lastconn, event, fault, history>>

\* client_read with data: telnet_recv hands it to append_input; with err the
\* telnet state machine reports an error too, and the socket is closed.
ClientRead(h, data, err) ==
  LET took == {l \in Line : IsLineOf(l, h) /\ Connected(l)}
  IN  /\ Polling
      /\ socket[h] = "open"
      /\ \A l \in took : Len(inbuf[l]) + Len(data) <= MaxIn
      /\ inbuf' = [l \in Line |->
           IF l \in took THEN inbuf[l] \o data ELSE inbuf[l]]
      /\ length' = [l \in Line |->
           IF l \in took THEN Grown(length[l], Len(inbuf[l]) + Len(data))
                         ELSE length[l]]
      /\ status' = [l \in Line |->
           IF l \in took /\ HasNewline(data) THEN "data" ELSE status[l]]
      /\ fifo' = [fifo EXCEPT ![h] = IF HasNul(@) THEN @ ELSE @ \o data]
      /\ socket' = [socket EXCEPT ![h] = IF err THEN "closing" ELSE "open"]
      /\ UNCHANGED <<phase, polls, line_handle, telnet, outbuf, lastconn,
                     event, fault, conn, told, wait>>

\* client_read with an answer to a telnet option (TELNET_EV_SEND): the answer
\* waits in the output buffer for the next flush.
ClientNegotiates(h, l) ==
  /\ Polling
  /\ socket[h] = "open"
  /\ IsLineOf(l, h)
  /\ outbuf' = [outbuf EXCEPT ![l] = @ \/ Connected(l)]
  /\ UNCHANGED <<phase, polls, status, line_handle, telnet, inbuf, length,
                 lastconn, event, socket, fault, history>>

\* client_read with nread < 0: end of file or a read error.
ClientGone(h) ==
  /\ Polling
  /\ socket[h] = "open"
  /\ socket' = [socket EXCEPT ![h] = "closing"]
  /\ UNCHANGED <<phase, polls, table, lastconn, event, fault, history>>

EndPoll ==
  /\ Polling
  /\ phase' = "closing"
  /\ UNCHANGED <<polls, table, lastconn, event, socket, fault, history>>

-----------------------------------------------------------------------------
(* "closing": client_on_close for every socket passed to uv_close.         *)

Closing == fault = "none" /\ phase = "closing"

ClientOnClose(h, l) ==
  /\ Closing
  /\ socket[h] = "closing"
  /\ IsLineOf(l, h)
  /\ socket' = [socket EXCEPT ![h] = "closed"]
  /\ status' = [status EXCEPT ![l] = "disconnecting"]
  /\ UNCHANGED <<phase, polls, line_handle, telnet, inbuf, length, outbuf,
                 lastconn, event, fault, history>>

\* find_line returned NULL, and client_on_close reads line->linenum.
ClientOnCloseNull(h) ==
  /\ Closing
  /\ socket[h] = "closing"
  /\ NoLineOf(h)
  /\ socket' = [socket EXCEPT ![h] = "closed"]
  /\ fault' = "null_line"
  /\ UNCHANGED <<phase, polls, table, lastconn, event, history>>

EndClosing ==
  /\ Closing
  /\ \A h \in Handle : socket[h] # "closing"
  /\ phase' = "code"
  /\ UNCHANGED <<polls, table, lastconn, event, socket, fault, history>>

-----------------------------------------------------------------------------
(* "code": game code, run by a task or by the input item.                  *)

Coding == fault = "none" /\ phase = "code"

\* History: one call more.  The count stops where it refutes FairQueue.
Longer(n) == IF n > MaxConns THEN n ELSE n + 1

\* The scan of lc_net_input stops at l.
Scan(l) ==
  /\ Coding
  /\ polls < MaxPolls
  /\ l >= Start
  /\ Active(l)
  /\ \A k \in Line : Start <= k /\ k < l => ~Active(k)
  /\ polls' = polls + 1
  /\ lastconn' = l
  /\ wait' = [k \in Line |->
       IF k # l /\ Active(k) THEN Longer(wait[k]) ELSE 0]

InputConnect(l) ==
  /\ Scan(l)
  /\ status[l] = "connecting"
  /\ status' = [status EXCEPT ![l] = "idle"]
  /\ event' = [ret |-> 1, line |-> l, text |-> <<>>]
  /\ told' = [told EXCEPT ![l] = line_handle[l]]
  /\ UNCHANGED <<phase, line_handle, telnet, inbuf, length, outbuf, socket,
                 fault, conn, fifo>>

\* lc_net_input and destroy_line.  The line keeps its handle, now freed.
InputDisconnect(l) ==
  /\ Scan(l)
  /\ status[l] = "disconnecting"
  /\ status' = [status EXCEPT ![l] = "empty"]
  /\ telnet' = [telnet EXCEPT ![l] = "freed"]
  /\ fault' = IF telnet[l] = "live" THEN "none" ELSE "bad_free"
  /\ socket' = [h \in Handle |->
       IF h = line_handle[l] THEN "unallocated" ELSE socket[h]]
  /\ inbuf' = [inbuf EXCEPT ![l] = <<>>]
  /\ length' = [length EXCEPT ![l] = InbufLength]
  /\ outbuf' = [outbuf EXCEPT ![l] = FALSE]
  /\ event' = [ret |-> 2, line |-> l, text |-> <<>>]
  /\ conn' = [h \in Handle |-> IF conn[h] = l THEN NoLine ELSE conn[h]]
  /\ fifo' = [h \in Handle |-> IF conn[h] = l THEN <<>> ELSE fifo[h]]
  /\ told' = [told EXCEPT ![l] = NoHandle]
  /\ UNCHANGED <<phase, line_handle>>

\* History: what is unread of f when the line that ended at i was taken.  A line
\* that is none of f is made of what came behind a NUL.
ReadUpTo(i, f) ==
  IF FirstNewline(i, f) THEN SubSeq(f, i + 1, Len(f)) ELSE <<NUL>>

\* lc_net_input and get_input.  i is where the first line of input ends.  What
\* is behind it is copied as a string of n characters to a buffer of the initial
\* size, whatever n: what follows a NUL is lost.
InputData(l, i, n) ==
  /\ Scan(l)
  /\ status[l] = "data"
  /\ FirstNewline(i, inbuf[l])
  /\ LET behind == SubSeq(inbuf[l], i + 1, Len(inbuf[l]))
         rest == SubSeq(behind, 1, n)
     IN  /\ StringLength(n, behind)
         /\ inbuf' = [inbuf EXCEPT ![l] = rest]
         /\ status' = [status EXCEPT ![l] = StatusAfter(rest)]
  /\ length' = [length EXCEPT ![l] = InbufLength]
  /\ event' = [ret |-> 3, line |-> l, text |-> SubSeq(inbuf[l], 1, i - 1)]
  /\ fifo' = [h \in Handle |->
       IF conn[h] = l THEN ReadUpTo(i, fifo[h]) ELSE fifo[h]]
  /\ told' = [told EXCEPT ![l] = line_handle[l]]
  /\ UNCHANGED <<phase, line_handle, telnet, outbuf, socket, fault, conn>>

\* get_input finds no newline in front of a NUL, and writes through NULL.
InputNoNewline(l) ==
  /\ Scan(l)
  /\ status[l] = "data"
  /\ NoFirstNewline(inbuf[l])
  /\ fault' = "null_eol"
  /\ UNCHANGED <<phase, table, event, socket, conn, fifo, told>>

\* The scan reaches the end of the table.
InputNothing ==
  /\ Coding
  /\ polls < MaxPolls
  /\ \A k \in Line : Start <= k => ~Active(k)
  /\ polls' = polls + 1
  /\ lastconn' = MaxConns
  /\ wait' = [k \in Line |-> IF Active(k) THEN Longer(wait[k]) ELSE 0]
  /\ event' = [ret |-> 0, line |-> NoLine, text |-> <<>>]
  /\ UNCHANGED <<phase, table, socket, fault, conn, fifo, told>>

NetInput ==
  \/ InputNothing
  \/ \E l \in Line : \/ InputConnect(l)
                     \/ InputDisconnect(l)
                     \/ \E i \in 1 .. MaxIn, n \in 0 .. MaxIn : InputData(l, i, n)
                     \/ InputNoNewline(l)

\* lc_net_write: the status of the line is looked at by append_output only.
NetWrite(l) ==
  /\ Coding
  /\ told[l] # NoHandle \/ "writes" \in Rough
  /\ outbuf' = [outbuf EXCEPT ![l] = @ \/ Connected(l)]
  /\ fault' = IF telnet[l] = "live" THEN "none" ELSE "bad_telnet"
  /\ UNCHANGED <<phase, polls, status, line_handle, telnet, inbuf, length,
                 lastconn, event, socket, history>>

\* The end of input_processor.  The input item calls net.input, Concepts.md:85.
Flush ==
  /\ Coding
  /\ polls > 0
  /\ outbuf' = [l \in Line |-> outbuf[l] /\ ~Connected(l)]
  /\ phase' = "poll"
  /\ polls' = 0
  /\ event' = Quiet
  /\ UNCHANGED <<status, line_handle, telnet, inbuf, length, lastconn,
                 socket, fault, history>>

-----------------------------------------------------------------------------

Next ==
  \/ \E h \in Handle :
       \/ \E l \in Line : Connect(h, l)
       \/ ConnectFull(h)
       \/ ConnectRefused(h)
       \/ \E data \in Chunk, err \in BOOLEAN : ClientRead(h, data, err)
       \/ \E l \in Line : ClientNegotiates(h, l)
       \/ ClientGone(h)
       \/ \E l \in Line : ClientOnClose(h, l)
       \/ ClientOnCloseNull(h)
  \/ EndPoll
  \/ EndClosing
  \/ NetInput
  \/ \E l \in Line : NetWrite(l)
  \/ Flush

Spec == Init /\ [][Next]_vars

\* uv_run always gets to its next phase: a poll ends, every closing callback
\* is called, and the input item calls net.input and returns.
Fairness ==
  /\ WF_vars(EndPoll)
  /\ WF_vars(\E h \in Handle :
                ClientOnCloseNull(h) \/ \E l \in Line : ClientOnClose(h, l))
  /\ WF_vars(EndClosing)
  /\ WF_vars(NetInput)
  /\ WF_vars(Flush)

FairSpec == Spec /\ Fairness

-----------------------------------------------------------------------------
(* Properties.                                                             *)

\* The variables have their types, LINE_t's status enumeration included.
TypeOK ==
  /\ phase \in {"code", "poll", "closing"}
  /\ polls \in 0 .. MaxPolls
  /\ status \in [Line -> {"empty", "connecting", "disconnecting", "data",
                          "idle"}]
  /\ line_handle \in [Line -> Handle \cup {NoHandle}]
  /\ telnet \in [Line -> {"null", "live", "freed"}]
  /\ inbuf \in [Line -> Seq(Char)]
  /\ length \in [Line -> Nat]
  /\ outbuf \in [Line -> BOOLEAN]
  /\ lastconn \in 0 .. 255
  /\ event \in [ret : {-1, 0, 1, 2, 3}, line : Line \cup {NoLine},
                text : Seq(Char)]
  /\ socket \in [Handle -> {"unallocated", "open", "closing", "closed"}]
  /\ fault \in {"none", "null_line", "null_eol", "bad_free", "bad_telnet"}
  /\ conn \in [Handle -> Line \cup {NoLine}]
  /\ fifo \in [Handle -> Seq(Sent)]
  /\ told \in [Line -> Handle \cup {NoHandle}]
  /\ wait \in [Line -> Nat]

\* find_line gives a socket the very line add_line gave it, and none if it has
\* none, although freed lines keep their old address in line_handle and malloc
\* gives addresses out again (network.c:74).
FindLineExact ==
  \A h \in Handle : socket[h] # "unallocated" =>
    \A l \in Line : IsLineOf(l, h) <=> conn[h] = l

\* The buffer b holds what is unread, f: all of it, or all in front of its NUL.
Keeps(b, f) ==
  /\ ~HasNul(f) => Len(b) = Len(f)
  /\ \A j \in 1 .. Len(f) :
       (\A k \in 1 .. j : f[k] # NUL) => j <= Len(b) /\ b[j] = f[j]

\* What the game has not read of a connection is in the input buffer of its
\* line, in the order it came and with nothing of another connection: across
\* append_input, get_input, and the reuse of lines and addresses.  A client that
\* sends a NUL (network.c:144) keeps what was in front of it.
InputIntact ==
  \A h \in Handle : conn[h] # NoLine => Keeps(inbuf[conn[h]], fifo[h])

\* A line that is in LINE_data has a newline in its buffer, and one whose buffer
\* has a newline is in LINE_data and is reported; get_input finds it, unless
\* there is a NUL in the buffer.
DataHasNewline ==
  \A l \in Line : status[l] \notin {"empty", "disconnecting"} =>
    /\ status[l] = "data" <=> HasNewline(inbuf[l])
    /\ status[l] = "data" /\ NoFirstNewline(inbuf[l]) => HasNul(inbuf[l])

\* What net.input reports as data is the oldest whole line of input of the
\* client that is on that line, until the client has no whole line left in front
\* of a NUL.
DeliversOldestLine ==
  [][event' # event /\ event'.ret = 3 =>
       \E h \in Handle :
         /\ conn[h] = event'.line
         /\ socket[h] # "unallocated"
         /\ \/ /\ fifo[h] = event'.text \o <<NL>> \o fifo'[h]
               /\ ~HasNewline(event'.text) /\ ~HasNul(event'.text)
            \/ NoFirstNewline(fifo[h]) /\ HasNul(fifo[h])]_vars

\* The queueing of lc_net_input is fair: no activity on a line is passed over
\* more than MaxConns times, whatever happens on the other lines meanwhile.
FairQueue == \A l \in Line : wait[l] <= MaxConns

\* A line is not given to another client before the game was told that the
\* first one has gone: what the game knows to be connected is not freed or
\* reused, so a write to it never goes to a stranger or to a freed telnet.
GameViewSafe ==
  \A l \in Line : told[l] # NoHandle =>
    /\ status[l] # "empty"
    /\ telnet[l] = "live"
    /\ line_handle[l] = told[l]
    /\ conn[told[l]] = l

\* While game code runs, every line that flush_output would write to has an
\* open socket: uv_write is never called on a handle passed to uv_close.
FlushTargetsOpen ==
  phase = "code" =>
    \A l \in Line : Connected(l) => socket[line_handle[l]] = "open"

\* The input buffer has room for what is in it and the NUL after it:
\* `int length; // Allocated size of buffer`, network.h:19.
InputFits == \A l \in Line : Len(inbuf[l]) < length[l]

\* No callback or library call uses memory it must not use, but for get_input
\* (network.c:138), and that one only after some client sent a NUL.
NoFault ==
  fault # "none" => fault = "null_eol" /\ \E h \in Handle : HasNul(fifo[h])

\* What a connection promises to game code.  The clients are mapped by what they
\* did and what the game was told, and by nothing the table says of them.
On(l) == {h \in Handle : conn[h] = l}
ClientOn(l) == CHOOSE h \in On(l) : TRUE

Clients == [l \in Line |-> IF On(l) = {} THEN "none"
                         ELSE IF socket[ClientOn(l)] = "open" THEN "here" ELSE "gone"]
Unread == [l \in Line |-> IF On(l) = {} THEN <<>> ELSE fifo[ClientOn(l)]]
Known == [l \in Line |-> told[l] # NoHandle]
Outputs == [l \in Line |-> On(l) # {} /\ outbuf[l]]

Service == INSTANCE LineService WITH
  client <- Clients, unread <- Unread, known <- Known, output <- Outputs

\* Across stale addresses, lines that are used again and a table that overwrites
\* LINE_connecting and LINE_data, net.input gives the whole lines of a client in
\* order, up to a NUL, and nothing of a NUL's loss touches another client; its
\* connection is told at most once and never behind its first line, its end once,
\* and what was written to one client is never sent to another
\* (network.c:40-153, libcall.c:197-284).  That a client is told of by its first
\* line only, Concepts.md:98, is left to ConnectionReported.
ServiceSpec == Service!Spec

\* Activity on a line is reported to the game, on whatever line it is, unless
\* a fault ends the process first.
Served == \A l \in Line : Active(l) ~> event.line = l \/ fault # "none"

\* A socket that is being closed is in the end freed with its line, so that
\* connections that come and go never use the table up.
Reclaimed ==
  \A h \in Handle :
    socket[h] = "closing" ~> socket[h] = "unallocated" \/ fault # "none"

(* What the documentation says, checked by runs that find it violated.     *)

\* "A new connection returns `1`", Concepts.md:98: the first thing the game
\* hears of a connection is not its data.
ConnectionReported ==
  [][event' # event /\ event'.ret = 3 => told[event'.line] # NoHandle]_vars

\* "Should only be called when the line status is LINE_data", network.c:132: a
\* line in that state has a newline for get_input to find.
DataIsReadable ==
  \A l \in Line : status[l] = "data" => ~NoFirstNewline(inbuf[l])

\* "If there is no activity, `0` is returned", Concepts.md:98, and no
\* activity is what 0 means, examples/echo-load.src.
ZeroMeansQuiet ==
  [][event' # event /\ event'.ret = 0 => \A l \in Line : ~Active(l)]_vars

\* "the developer does not need to worry about writing to a connection which
\* is no longer there", Concepts.md:99.
WritesAreSafe == fault # "bad_telnet"

\* A connection that finds the table full is turned away, network.c:225.
FullTableRefused ==
  [][(\A l \in Line : status[l] # "empty") => fault' # "null_line"]_vars

=============================================================================
