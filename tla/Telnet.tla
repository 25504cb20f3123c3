------------------------------- MODULE Telnet -------------------------------
(***************************************************************************)
(* The telnet engine between the network and the lines (src/libtelnet.c,   *)
(* as src/network.c sets it up), at both ends of one connection: the       *)
(* engine of sin, and the engine of a client made with the same library.   *)
(*                                                                         *)
(* The bytes of a connection arrive in order and are read in pieces cut    *)
(* anywhere.  An engine keeps its place in the protocol from one piece to  *)
(* the next; what is data it hands on in runs, which end with the piece at *)
(* the latest.  Nothing is compressed: HAVE_ZLIB is not defined; but the   *)
(* sequence with which MCCP once began is still looked for, and the run is *)
(* put behind it, be there a byte or not.  No engine is a proxy.           *)
(*                                                                         *)
(* What sin sends waits in the output buffer of the line until the idle    *)
(* handler flushes it.  libuv is given the address of that buffer and      *)
(* keeps it until the socket has taken every byte; the buffer is used      *)
(* again at once.                                                          *)
(***************************************************************************)
EXTENDS Naturals, Sequences, SequencesExt

CONSTANTS
  Option,     \* telnet options
  Accepts,    \* what an end agrees to: Accepts[end].us and .him, sets of options
  Letter,     \* bytes without a meaning
  Typed,      \* the bytes of which the two programs make texts
  Data,       \* what subnegotiations carry
  Sizes,      \* the sizes of a subnegotiation buffer, from none to the largest
  MaxMoves,   \* bound: what the two programs do in a run
  Rough       \* what else happens, see below

(* "slow":  the socket takes a part of what is written, and the rest before *)
(*          sin sends anything more                                        *)
(* "choked": with "slow", it may take nothing at once, and the rest when    *)
(*          it will                                                        *)
(* "long": a subnegotiation is longer than the largest buffer              *)
(* "compress": a client says that it compresses, as MCCP did at first      *)
(* "cut":  with "compress", a piece ends between the WILL and the SE of it *)
Liberty == {"slow", "choked", "long", "compress", "cut"}

End == {"sin", "client"}
Peer(p) == IF p = "sin" THEN "client" ELSE "sin"

Verb == {"WILL", "WONT", "DO", "DONT"}

\* What the bytes of a text may be.
Text == Letter \cup {"CR", "LF", "NUL", "IAC"}
Byte == Text \cup Verb \cup {"SB", "SE", "NOP", "COMPRESS"} \cup Option

Largest == Sizes[Len(Sizes)]

ASSUME OptionAssumption ==
  \A p \in End : Accepts[p].us \subseteq Option /\ Accepts[p].him \subseteq Option
ASSUME SinAssumption ==
  Accepts["sin"] = [us |-> {}, him |-> {"ECHO"}]
ASSUME BytesAssumption ==
  /\ (Option \cup Letter) \cap
       (Verb \cup {"SB", "SE", "NOP", "CR", "LF", "NUL", "IAC", "text"}) = {}
  /\ Typed \subseteq Text
  /\ \A d \in Data : d \in Seq(Text)
ASSUME SizesAssumption ==
  /\ Sizes \in Seq(Nat) /\ Sizes # <<>>
  /\ \A i, j \in 1 .. Len(Sizes) : i < j => Sizes[i] < Sizes[j]
ASSUME BoundAssumption ==
  MaxMoves \in Nat /\ Rough \subseteq Liberty

-----------------------------------------------------------------------------
(* An engine.                                                              *)

\* Where an end stands with an option, for each of the two directions.
Stand == {"NO", "YES", "WANTNO", "WANTYES", "WANTNO_OP", "WANTYES_OP"}

Stands == [us : Stand, him : Stand]

\* "AHEAD" is DATA with start one byte further than the byte that comes next,
\* "ASTRAY" an engine that handed on what lies behind its piece: the size of the
\* run was -1, and what the program does with so much is not followed.
State ==
  {"DATA", "EOL", "IAC", "SB", "SB_DATA", "SB_DATA_IAC", "AHEAD", "ASTRAY"} \cup Verb

\* What an engine handed to its program: text, byte for byte, and
\* subnegotiations.
Event == [opt : {"text"} \cup Option, bytes : Seq(Byte)]

\* What it warned of; the program does not listen to warnings.
Warning == {"crossed", "unexpected", "overflow"}

Engine ==
  [state : State,
   sb_telopt : Option \cup {"COMPRESS"},
   buffer : Seq(Byte),   \* buffer[0 .. buffer_pos - 1]
   level : Nat,          \* buffer_size is Sizes[level]
   q : UNION {[O -> Stands] : O \in SUBSET Option},  \* the options met so far
   run : Seq(Byte),      \* the piece, from start to where it is processed
   got : Seq(Event),
   sent : Seq(Byte),     \* handed to _send
   warned : SUBSET Warning]

NoTelopt == CHOOSE o \in Option : TRUE

telnet_init ==
  [state |-> "DATA", sb_telopt |-> NoTelopt, buffer |-> <<>>, level |-> 1,
   q |-> <<>>, run |-> <<>>, got |-> <<>>, sent |-> <<>>, warned |-> {}]

Words(bytes) == [i \in 1 .. Len(bytes) |-> [opt |-> "text", bytes |-> <<bytes[i]>>]]

To(e, state) == [e EXCEPT !.state = state]
Send(e, bytes) == [e EXCEPT !.sent = @ \o bytes]
Warn(e, w) == [e EXCEPT !.warned = @ \cup {w}]
Hand(e, bytes) == [e EXCEPT !.got = @ \o Words(bytes)]

\* The run ends: TELNET_EV_DATA.
HandRun(e) == [Hand(e, e.run) EXCEPT !.run = <<>>]

Off == [us |-> "NO", him |-> "NO"]

\* An option that was never met is off.
get_rfc1143(e, o) == IF o \in DOMAIN e.q THEN e.q[o] ELSE Off

set_rfc1143(e, o, stands) ==
  [e EXCEPT !.q = [x \in DOMAIN e.q \cup {o} |-> IF x = o THEN stands ELSE e.q[x]]]

\* The two flags follow the option BINARY.
TransmitBinary(e) == get_rfc1143(e, "BINARY").us = "YES"
ReceiveBinary(e) == get_rfc1143(e, "BINARY").him = "YES"

-----------------------------------------------------------------------------
(* Options, after RFC 1143.  The two directions are handled alike: the     *)
(* peer speaks of what it does with WILL and WONT, and of what this end    *)
(* does with DO and DONT.                                                  *)

StandOf(e, o, side) == get_rfc1143(e, o)[side]

SetStand(e, o, side, stand) ==
  set_rfc1143(e, o, [get_rfc1143(e, o) EXCEPT ![side] = stand])

\* The words for "yes" and "no" about this end, and about the other.
Yes(side) == IF side = "us" THEN "WILL" ELSE "DO"
No(side) == IF side = "us" THEN "WONT" ELSE "DONT"

Say(e, verb, o) == Send(e, <<"IAC", verb, o>>)

\* Mutant: what is asked for is agreed to without a look at the table.
PeerForAny(e, p, o, side) ==
  IF StandOf(e, o, side) = "NO"
  THEN Say(SetStand(e, o, side, "YES"), Yes(side), o)
  ELSE e

\* The peer is for it: a request, or the answer to one.
PeerFor(e, p, o, side) ==
  LET stand == StandOf(e, o, side)
      Become(s) == SetStand(e, o, side, s) IN
  CASE stand = "NO" /\ o \in Accepts[p][side] -> Say(Become("YES"), Yes(side), o)
    [] stand = "NO" /\ o \notin Accepts[p][side] -> Say(e, No(side), o)
    [] stand = "YES" -> e
    [] stand = "WANTNO" -> Warn(Become("NO"), "crossed")
    [] stand = "WANTNO_OP" -> Warn(Become("YES"), "crossed")
    [] stand = "WANTYES" -> Become("YES")
    [] stand = "WANTYES_OP" -> Say(Become("WANTNO"), No(side), o)

\* Mutant: the end of an option is not confirmed.
PeerAgainstSilent(e, p, o, side) ==
  LET stand == StandOf(e, o, side)
      Become(s) == SetStand(e, o, side, s) IN
  CASE stand = "NO" -> e
    [] stand = "YES" -> Become("NO")
    [] stand = "WANTNO" -> Become("NO")
    [] stand = "WANTNO_OP" -> Say(Become("WANTYES"), Yes(side), o)
    [] stand \in {"WANTYES", "WANTYES_OP"} -> Become("NO")

\* The peer is against it.
PeerAgainst(e, p, o, side) ==
  LET stand == StandOf(e, o, side)
      Become(s) == SetStand(e, o, side, s) IN
  CASE stand = "NO" -> e
    [] stand = "YES" -> Say(Become("NO"), No(side), o)
    [] stand = "WANTNO" -> Become("NO")
    [] stand = "WANTNO_OP" -> Say(Become("WANTYES"), Yes(side), o)
    [] stand \in {"WANTYES", "WANTYES_OP"} -> Become("NO")

\* Mutant: every verb is answered in kind, as before RFC 1143.
NegotiateInKind(e, p, o) ==
  CASE e.state = "WILL" -> Say(e, "DO", o)
    [] e.state = "WONT" -> Say(e, "DONT", o)
    [] e.state = "DO"   -> Say(e, "WILL", o)
    [] e.state = "DONT" -> Say(e, "WONT", o)

Negotiate(e, p, o) ==
  CASE e.state = "WILL" -> PeerFor(e, p, o, "him")
    [] e.state = "WONT" -> PeerAgainst(e, p, o, "him")
    [] e.state = "DO"   -> PeerFor(e, p, o, "us")
    [] e.state = "DONT" -> PeerAgainst(e, p, o, "us")

\* Mutant: a change of mind is said at once, while an answer is awaited.
NegotiateAtOnce(e, verb, o) ==
  LET side == IF verb \in {"WILL", "WONT"} THEN "us" ELSE "him"
      stand == StandOf(e, o, side)
      Become(s) == SetStand(e, o, side, s) IN
  IF verb = Yes(side)
  THEN CASE stand = "NO" -> Say(Become("WANTYES"), verb, o)
         [] stand = "WANTNO" -> Become("WANTNO_OP")
         [] OTHER -> e
  ELSE CASE stand \in {"YES", "WANTYES"} -> Say(Become("WANTNO"), verb, o)
         [] stand = "WANTNO_OP" -> Become("WANTNO")
         [] OTHER -> e

\* This end asks.  While an answer is awaited a change of mind is only noted.
telnet_negotiate(e, verb, o) ==
  LET side == IF verb \in {"WILL", "WONT"} THEN "us" ELSE "him"
      stand == StandOf(e, o, side)
      Become(s) == SetStand(e, o, side, s) IN
  IF verb = Yes(side)
  THEN CASE stand = "NO" -> Say(Become("WANTYES"), verb, o)
         [] stand = "WANTNO" -> Become("WANTNO_OP")
         [] stand = "WANTYES_OP" -> Become("WANTYES")
         [] OTHER -> e
  ELSE CASE stand = "YES" -> Say(Become("WANTNO"), verb, o)
         [] stand = "WANTYES" -> Become("WANTYES_OP")
         [] stand = "WANTNO_OP" -> Become("WANTNO")
         [] OTHER -> e

-----------------------------------------------------------------------------
(* Input: one byte in each state of _process.                              *)

\* Mutant: what was read before a command is dropped with it.
InDataDrop(e, b) ==
  CASE b = "IAC" -> To([e EXCEPT !.run = <<>>], "IAC")
    [] b = "CR" /\ ~ReceiveBinary(e) -> To(HandRun(e), "EOL")
    [] OTHER -> [e EXCEPT !.run = Append(@, b)]

InData(e, b) ==
  CASE b = "IAC" -> To(HandRun(e), "IAC")
    [] b = "CR" /\ ~ReceiveBinary(e) -> To(HandRun(e), "EOL")
    [] OTHER -> [e EXCEPT !.run = Append(@, b)]

\* The byte after a CR: a LF stands alone, any other had a CR before it.  The
\* byte begins the next run, whatever it is, unless it is NUL.
InEol(e, b) ==
  LET ended == IF b = "LF" THEN e ELSE Hand(e, <<"CR">>) IN
  To([ended EXCEPT !.run = IF b = "NUL" THEN <<>> ELSE <<b>>], "DATA")

InIac(e, b) ==
  CASE b \in Verb \cup {"SB"} -> To(e, b)
    [] b = "IAC" -> To(Hand(e, <<"IAC">>), "DATA")
    [] OTHER -> To(e, "DATA")

InSb(e, b) ==
  [e EXCEPT !.sb_telopt = b, !.buffer = <<>>, !.state = "SB_DATA"]

\* Mutant: a buffer is full when it was already overrun.
FullBehind(e) == Len(e.buffer) > Sizes[e.level]

Full(e) == Len(e.buffer) = Sizes[e.level]

\* When there is no room the subnegotiation is given up, and what is left of
\* it is data.
BufferByte(e, b) ==
  IF Full(e) /\ e.level = Len(Sizes)
  THEN To(Warn(e, "overflow"), "DATA")
  ELSE [e EXCEPT !.level = IF Full(e) THEN @ + 1 ELSE @,
                 !.buffer = Append(@, b),
                 !.state = "SB_DATA"]

\* The beginning of MCCP, of which nothing is kept; its SE is passed over.
InSbData(e, b) ==
  CASE b = "IAC" -> To(e, "SB_DATA_IAC")
    [] b = "WILL" /\ e.sb_telopt = "COMPRESS" -> To(e, "AHEAD")
    [] OTHER -> BufferByte(e, b)

\* The run ends before its start: the bytes handed on are nobody's.
Overread(e) == [To(e, "ASTRAY") EXCEPT !.got = Append(@, [opt |-> "text", bytes |-> <<>>])]

InAhead(e, b) ==
  IF b = "IAC" \/ (b = "CR" /\ ~ReceiveBinary(e)) THEN Overread(e) ELSE To(e, "DATA")

Subnegotiate(e) ==
  [e EXCEPT !.got = Append(@, [opt |-> e.sb_telopt, bytes |-> e.buffer])]

\* Any other byte after IAC ends the subnegotiation and is a command.
InSbDataIac(e, b) ==
  CASE b = "SE" -> To(Subnegotiate(e), "DATA")
    [] b = "IAC" -> BufferByte(e, "IAC")
    [] OTHER -> InIac(Warn(Subnegotiate(e), "unexpected"), b)

Process(e, p, b) ==
  CASE e.state = "DATA" -> InData(e, b)
    [] e.state = "EOL" -> InEol(e, b)
    [] e.state = "IAC" -> InIac(e, b)
    [] e.state \in Verb -> To(Negotiate(e, p, b), "DATA")
    [] e.state = "SB" -> InSb(e, b)
    [] e.state = "SB_DATA" -> InSbData(e, b)
    [] e.state = "SB_DATA_IAC" -> InSbDataIac(e, b)
    [] e.state = "AHEAD" -> InAhead(e, b)
    [] e.state = "ASTRAY" -> e

\* The end of the piece: what is left of it is handed on.
EndPiece(e) ==
  CASE e.state = "DATA" -> HandRun(e)
    [] e.state = "AHEAD" -> Overread(e)
    [] OTHER -> [e EXCEPT !.run = <<>>]

-----------------------------------------------------------------------------
(* Output.                                                                 *)

telnet_send_text(e, b) ==
  CASE b = "IAC" -> Send(e, <<"IAC", "IAC">>)
    [] b = "CR" /\ ~TransmitBinary(e) -> Send(e, <<"CR", "NUL">>)
    [] b = "LF" /\ ~TransmitBinary(e) -> Send(e, <<"CR", "LF">>)
    [] OTHER -> Send(e, <<b>>)

\* telnet_printf translates the ends of lines in every mode.
telnet_vprintf(e, b) ==
  Send(e, CASE b = "IAC" -> <<"IAC", "IAC">>
            [] b = "CR" -> <<"CR", "NUL">>
            [] b = "LF" -> <<"CR", "LF">>
            [] OTHER -> <<b>>)

telnet_iac(e, cmd) == Send(e, <<"IAC", cmd>>)

telnet_send(e, bytes) ==
  Send(e, FlattenSeq([i \in 1 .. Len(bytes) |->
            IF bytes[i] = "IAC" THEN <<"IAC", "IAC">> ELSE <<bytes[i]>>]))

telnet_begin_sb(e, o) == Send(e, <<"IAC", "SB", o>>)

telnet_subnegotiation(e, o, bytes) ==
  Send(telnet_send(telnet_begin_sb(e, o), bytes), <<"IAC", "SE">>)

-----------------------------------------------------------------------------
(* The connection.                                                         *)

VARIABLES
  engine,   \* the engine of each end
  wire,     \* the bytes on their way to each end
  outbuf,   \* the output buffer of the line: its memory, and how much is in use
  pending,  \* what libuv has still to write: from where to where in that memory
  reading,  \* an end is in the middle of a piece
  moves,    \* bound: what the two programs did
  said      \* history: what each program meant the other to get

vars == <<engine, wire, outbuf, pending, reading, moves, said>>

NoWrite == <<0, 0>>

\* memcpy to where the buffer in use ends, over what is there.
append_output(o, bytes) ==
  LET end == o.len + Len(bytes) IN
  [base |-> SubSeq(o.base, 1, o.len) \o bytes \o SubSeq(o.base, end + 1, Len(o.base)),
   len |-> end]

\* TELNET_EV_SEND: sin's bytes are buffered, the client's are on their way.
\* Of the bytes to p, left are those not yet read.
Put(p, e, left) ==
  /\ engine' = [engine EXCEPT ![p] = [e EXCEPT !.sent = <<>>]]
  /\ IF p = "sin"
     THEN outbuf' = append_output(outbuf, e.sent) /\ wire' = [wire EXCEPT ![p] = left]
     ELSE wire' = [sin |-> wire["sin"] \o e.sent, client |-> left] /\ UNCHANGED outbuf

\* uv_write, of which the socket takes some bytes at once, and the reset of the
\* buffer: len is 0 and so is the first byte.  What lies in the buffer matters
\* no more unless libuv has still to write it.
flush_output(taken) ==
  /\ outbuf.len > 0
  /\ wire' = [wire EXCEPT !["client"] = @ \o SubSeq(outbuf.base, 1, taken)]
  /\ IF taken = outbuf.len
     THEN outbuf' = [base |-> <<>>, len |-> 0] /\ pending' = NoWrite
     ELSE /\ outbuf' = [base |-> [outbuf.base EXCEPT ![1] = "NUL"], len |-> 0]
          /\ pending' = <<taken + 1, outbuf.len>>

Mean(p, events) == said' = [said EXCEPT ![p] = @ \o events]

\* sin greets who connects: "Connected.\n", of which the end is left.
Init ==
  LET greeted == telnet_vprintf(telnet_init, "LF") IN
  /\ engine = [p \in End |-> telnet_init]
  /\ wire = [p \in End |-> IF p = "client" THEN greeted.sent ELSE <<>>]
  /\ outbuf = [base |-> <<>>, len |-> 0] /\ pending = NoWrite
  /\ reading = [p \in End |-> FALSE]
  /\ moves = 0
  /\ said = [p \in End |-> IF p = "sin" THEN Words(<<"LF">>) ELSE <<>>]

\* Unless the socket is choked, sin sends nothing while it has still to write.
MaySend(p) == p = "sin" => pending = NoWrite \/ "choked" \in Rough

\* One byte of a piece; the piece may end with it, and does where no more
\* bytes have come.
Receive(p, last) ==
  /\ wire[p] # <<>>
  /\ last \/ Len(wire[p]) > 1
  /\ MaySend(p)
  /\ LET came == Process(engine[p], p, Head(wire[p])) IN
     /\ last /\ came.state = "AHEAD" => "cut" \in Rough
     /\ Put(p, IF last THEN EndPiece(came) ELSE came, Tail(wire[p]))
  /\ reading' = [reading EXCEPT ![p] = ~last]
  /\ UNCHANGED <<pending, moves, said>>

\* The idle handler, once per turn of the loop.  A flush while a write is
\* pending would use its request again, and is not followed further here.
Flush ==
  /\ ~reading["sin"] /\ pending = NoWrite
  /\ \E taken \in 0 .. outbuf.len :
       /\ taken < outbuf.len => "slow" \in Rough
       /\ taken = 0 => "choked" \in Rough
       /\ flush_output(taken)
  /\ UNCHANGED <<engine, reading, moves, said>>

\* The socket takes the rest, from the memory as it is by now.
Drain ==
  /\ pending # NoWrite
  /\ wire' = [wire EXCEPT !["client"] = @ \o SubSeq(outbuf.base, pending[1], pending[2])]
  /\ pending' = NoWrite
  /\ UNCHANGED <<engine, outbuf, reading, moves, said>>

\* A program does something, between two pieces.
Move(p, e, events) ==
  /\ ~reading[p] /\ moves < MaxMoves
  /\ MaySend(p)
  /\ Put(p, e, wire[p])
  /\ Mean(p, events)
  /\ moves' = moves + 1
  /\ UNCHANGED <<pending, reading>>

\* lc_net_write: an item of sin writes to the line.  A C string has no NUL.
Write(b) ==
  /\ b # "NUL"
  /\ Move("sin", telnet_send_text(engine["sin"], b), Words(<<b>>))

Type(b) == Move("client", telnet_send_text(engine["client"], b), Words(<<b>>))

Ask(verb, o) == Move("client", telnet_negotiate(engine["client"], verb, o), <<>>)

Command == Move("client", telnet_iac(engine["client"], "NOP"), <<>>)

\* A subnegotiation, which fits the buffer.
Fits(d) == Len(d) <= Largest \/ "long" \in Rough

Subnegotiation(o, d) ==
  /\ Fits(d)
  /\ Move("client", telnet_subnegotiation(engine["client"], o, d), <<[opt |-> o, bytes |-> d]>>)

\* One that is begun and then given up for a command.
Abandon(o, d) ==
  /\ Fits(d)
  /\ Move("client", telnet_iac(telnet_send(telnet_begin_sb(engine["client"], o), d), "NOP"),
          <<[opt |-> o, bytes |-> d]>>)

\* The sequence of 1998, which the library passes over and which means nothing.
Compress ==
  /\ "compress" \in Rough
  /\ Move("client", Send(engine["client"], <<"IAC", "SB", "COMPRESS", "WILL", "SE">>), <<>>)

Next ==
  \/ \E p \in End, last \in BOOLEAN : Receive(p, last)
  \/ Flush \/ Drain
  \/ \E b \in Typed : Write(b) \/ Type(b)
  \/ \E verb \in Verb, o \in Option : Ask(verb, o)
  \/ Command \/ Compress
  \/ \E o \in Option, d \in Data : Subnegotiation(o, d) \/ Abandon(o, d)

Spec == Init /\ [][Next]_vars

\* The event loop reads what has come, turns, and writes when it can.
Fairness ==
  /\ \A p \in End : WF_vars(\E last \in BOOLEAN : Receive(p, last))
  /\ WF_vars(Flush) /\ WF_vars(Drain)

FairSpec == Spec /\ Fairness

-----------------------------------------------------------------------------
(* Properties.                                                             *)

\* An engine has its fields; what it sends is on its way at once.
TypeOK ==
  /\ engine \in [End -> Engine]
  /\ \A p \in End :
       /\ engine[p].sent = <<>>
       /\ engine[p].level \in 1 .. Len(Sizes)
  /\ wire \in [End -> Seq(Byte)]
  /\ outbuf.base \in Seq(Byte) /\ outbuf.len \in 0 .. Len(outbuf.base)
  /\ pending \in (0 .. Len(outbuf.base)) \X (0 .. Len(outbuf.base))
  /\ reading \in [End -> BOOLEAN]
  /\ moves \in 0 .. MaxMoves
  /\ said \in [End -> Seq(Event)]

\* Everything sent to an end has been read.
Read(p) ==
  wire[p] = <<>> /\ (p = "client" => outbuf.len = 0 /\ pending = NoWrite)

Quiet == \A p \in End : Read(p)

\* The program at each end gets what the program at the other end meant, text
\* and subnegotiations in their order, however the bytes are cut into pieces
\* and whatever negotiation and commands come between; and it has all of it
\* when all is read.  (_process keeps its state across telnet_recv and hands
\* on runs of the piece at hand, libtelnet.c:967; telnet_send_text, :1351.)
TextArrives ==
  \A p \in End :
    /\ IsPrefix(engine[p].got, said[Peer(p)])
    /\ Read(p) => engine[p].got = said[Peer(p)]

\* When nothing is on its way the two ends stand alike with every option and
\* neither waits for an answer, whatever was asked and taken back meanwhile;
\* and an option is on only where both agree to it (libtelnet.c:363, :1241).
Agree ==
  Quiet =>
    \A p \in End, o \in Option :
      /\ StandOf(engine[p], o, "us") \in {"NO", "YES"}
      /\ StandOf(engine[p], o, "us") = StandOf(engine[Peer(p)], o, "him")
      /\ StandOf(engine[p], o, "us") = "YES" => o \in Accepts["sin"][IF p = "sin" THEN "us" ELSE "him"]

\* Between two engines "DONT answered by WILL" and "WONT answered by DO" never
\* happen (libtelnet.c:407, :461), as the notes on changes of mind intend.
NeverCrossed == \A p \in End : "crossed" \notin engine[p].warned

\* sin asks for nothing, so it never awaits an answer: no option can be on or
\* half on at sin that is not in its table (network.c:23, libtelnet.c:259).
SinNeverWaits ==
  \A o \in DOMAIN engine["sin"].q :
    /\ StandOf(engine["sin"], o, "us") = "NO"
    /\ StandOf(engine["sin"], o, "him") \in {"NO", "YES"}
    /\ StandOf(engine["sin"], o, "him") = "YES" => o = "ECHO"

\* No byte is written behind the end of a subnegotiation buffer, whose size
\* outlives the subnegotiation it grew for (libtelnet.c:929).
BufferFits ==
  \A p \in End :
    /\ engine[p].level \in 1 .. Len(Sizes)
    /\ Len(engine[p].buffer) <= Sizes[engine[p].level]

\* Negotiation ends: the wire falls silent, for no answer calls for another
\* without end (RFC 1143's reason, libtelnet.c:363).
Settles == <>[]Quiet

=============================================================================
