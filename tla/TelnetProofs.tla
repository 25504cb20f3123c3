---------------------------- MODULE TelnetProofs ----------------------------
(***************************************************************************)
(* First, what holds of an engine whatever bytes come in: the invariant    *)
(* IInv says nothing of what is on the wire, so nothing depends on what    *)
(* the other end is or does.                                               *)
(*                                                                         *)
(* Then, what holds between the two ends.  ConnectionInv says that what is *)
(* on its way to an end can be parsed: from the place in the protocol that *)
(* the engine's state, runs and buffer show, byte after byte, to the end   *)
(* of all that the other end said, events and verbs.  And of each option   *)
(* at most one verb is on its way, with both ends standing as it calls     *)
(* for.                                                                    *)
(***************************************************************************)
EXTENDS Telnet, SequenceTheorems, WellFoundedInduction, TLAPS

Fields == {"state", "sb_telopt", "buffer", "level", "q", "run", "got", "sent", "warned"}

\* The options an engine has met, and those of an engine that never asks.
StandsOK(q) == \A o \in DOMAIN q : q[o] \in Stands

Passive(q) ==
  \A o \in DOMAIN q :
    /\ q[o].us = "NO"
    /\ q[o].him \in {"NO", "YES"}
    /\ q[o].him = "YES" => o = "ECHO"

BufferOK(buffer, level) ==
  /\ Len(buffer) \in Nat
  /\ buffer = [i \in 1 .. Len(buffer) |-> buffer[i]]
  /\ level \in 1 .. Len(Sizes)
  /\ Len(buffer) <= Sizes[level]

EngineOK(e, p) ==
  /\ DOMAIN e = Fields
  /\ e.state \in State
  /\ StandsOK(e.q)
  /\ p = "sin" => Passive(e.q)
  /\ BufferOK(e.buffer, e.level)

\* A step that concerns neither options nor the buffer.
Aside(e, f) ==
  /\ DOMAIN f = Fields
  /\ f.q = e.q
  /\ f.buffer = e.buffer
  /\ f.level = e.level

LEMMA AsideIsOK ==
  ASSUME NEW e, NEW f, NEW p, EngineOK(e, p), Aside(e, f), f.state \in State
  PROVE  EngineOK(f, p)
  BY DEF EngineOK, Aside

LEMMA ToStep ==
  ASSUME NEW e, DOMAIN e = Fields, NEW x
  PROVE  Aside(e, To(e, x)) /\ To(e, x).state = x
  BY DEF Aside, To, Fields

\* The steps that only hand on, send, or move to another state.
LEMMA SmallSteps ==
  ASSUME NEW e, DOMAIN e = Fields, NEW x
  PROVE  /\ Aside(e, Send(e, x)) /\ Send(e, x).state = e.state
         /\ Aside(e, Warn(e, x)) /\ Warn(e, x).state = e.state
         /\ Aside(e, Hand(e, x)) /\ Hand(e, x).state = e.state
         /\ Aside(e, [e EXCEPT !.run = x]) /\ [e EXCEPT !.run = x].state = e.state
         /\ Aside(e, HandRun(e)) /\ HandRun(e).state = e.state
         /\ Aside(e, [e EXCEPT !.sent = x]) /\ [e EXCEPT !.sent = x].state = e.state
<1>2. Aside(e, Send(e, x)) /\ Send(e, x).state = e.state
  BY DEF Aside, Send, Fields
<1>3. Aside(e, Warn(e, x)) /\ Warn(e, x).state = e.state
  BY DEF Aside, Warn, Fields
<1>4. Aside(e, Hand(e, x)) /\ Hand(e, x).state = e.state
  BY DEF Aside, Hand, Fields
<1>5. Aside(e, [e EXCEPT !.run = x]) /\ [e EXCEPT !.run = x].state = e.state
  BY DEF Aside, Fields
<1>6. Aside(e, HandRun(e)) /\ HandRun(e).state = e.state
  BY DEF Aside, HandRun, Hand, Fields
<1>7. Aside(e, [e EXCEPT !.sent = x]) /\ [e EXCEPT !.sent = x].state = e.state
  BY DEF Aside, Fields
<1> QED BY <1>2, <1>3, <1>4, <1>5, <1>6, <1>7

\* The small steps keep an engine in order.
LEMMA SmallStepsOK ==
  ASSUME NEW e, NEW p, EngineOK(e, p), NEW x
  PROVE  /\ x \in State => EngineOK(To(e, x), p)
         /\ EngineOK(Send(e, x), p)
         /\ EngineOK(Warn(e, x), p)
         /\ EngineOK(Hand(e, x), p)
         /\ EngineOK([e EXCEPT !.run = x], p)
         /\ EngineOK(HandRun(e), p)
         /\ EngineOK([e EXCEPT !.sent = x], p)
         /\ EngineOK(Overread(e), p)
<1>1. DOMAIN e = Fields /\ e.state \in State
  BY DEF EngineOK
<1>2. ASSUME NEW f, Aside(e, f), f.state \in State PROVE EngineOK(f, p)
  BY <1>2, AsideIsOK
<1>3. ASSUME x \in State PROVE EngineOK(To(e, x), p)
  <2> DEFINE f == To(e, x)
  <2>1. Aside(e, f) /\ f.state = x
    BY <1>1, ToStep
  <2> HIDE DEF f
  <2>2. EngineOK(f, p)
    BY <1>2, <1>3, <2>1
  <2> QED BY <2>2 DEF f
<1>4. EngineOK(Send(e, x), p) /\ EngineOK(Warn(e, x), p)
  BY <1>1, <1>2, SmallSteps
<1>5. EngineOK(Hand(e, x), p) /\ EngineOK(HandRun(e), p)
  BY <1>1, <1>2, SmallSteps
<1>6. EngineOK([e EXCEPT !.run = x], p)
  <2> DEFINE f == [e EXCEPT !.run = x]
  <2>1. Aside(e, f) /\ f.state = e.state
    BY <1>1, SmallSteps
  <2> HIDE DEF f
  <2>2. EngineOK(f, p)
    BY <1>1, <1>2, <2>1
  <2> QED BY <2>2 DEF f
<1>7. EngineOK([e EXCEPT !.sent = x], p)
  <2> DEFINE f == [e EXCEPT !.sent = x]
  <2>1. Aside(e, f) /\ f.state = e.state
    BY <1>1, SmallSteps
  <2> HIDE DEF f
  <2>2. EngineOK(f, p)
    BY <1>1, <1>2, <2>1
  <2> QED BY <2>2 DEF f
<1>8. EngineOK(Overread(e), p)
  <2> DEFINE g == To(e, "ASTRAY")
             f == Overread(e)
  <2>1. DOMAIN g = Fields /\ Aside(e, g) /\ g.state = "ASTRAY"
    BY <1>1, ToStep DEF Aside
  <2>2. f = [g EXCEPT !.got = Append(@, [opt |-> "text", bytes |-> <<>>])]
    BY DEF Overread
  <2> HIDE DEF g, f
  <2>3. Aside(g, f) /\ f.state = g.state
    BY <2>1, <2>2 DEF Aside, Fields
  <2>4. Aside(e, f) /\ f.state \in State
    BY <2>1, <2>3 DEF Aside, State
  <2>5. EngineOK(f, p)
    BY <1>2, <2>4
  <2> QED BY <2>5 DEF f
<1> QED BY <1>3, <1>4, <1>5, <1>6, <1>7, <1>8

-----------------------------------------------------------------------------
(* Options.                                                                *)

\* A stand is set: what is set must be in order, and for sin passive.
LEMMA SetStandOK ==
  ASSUME NEW e, NEW p, EngineOK(e, p), NEW o, NEW side \in {"us", "him"},
         NEW stand \in Stand,
         p = "sin" => /\ side = "him"
                      /\ stand \in {"NO", "YES"}
                      /\ stand = "YES" => o = "ECHO"
  PROVE  EngineOK(SetStand(e, o, side, stand), p)
<1> DEFINE old == get_rfc1143(e, o)
           new == [old EXCEPT ![side] = stand]
           q == [x \in DOMAIN e.q \cup {o} |-> IF x = o THEN new ELSE e.q[x]]
           f == [e EXCEPT !.q = q]
<1>1. old \in Stands
  BY DEF EngineOK, StandsOK, get_rfc1143, Off, Stands, Stand
<1>2. new \in Stands
  BY <1>1 DEF Stands
<1>3. StandsOK(q)
  BY <1>2 DEF EngineOK, StandsOK
<1>4. ASSUME p = "sin" PROVE Passive(q)
  <2>1. old.us = "NO"
    BY <1>4 DEF EngineOK, Passive, get_rfc1143, Off
  <2>2. new.us = "NO" /\ new.him = stand
    BY <1>1, <1>4, <2>1 DEF Stands
  <2> QED BY <1>4, <2>2 DEF EngineOK, Passive
<1> HIDE DEF new, old
<1>5. DOMAIN f = Fields /\ f.state = e.state /\ f.q = q /\ f.buffer = e.buffer /\ f.level = e.level
  BY DEF EngineOK, Fields
<1>6. EngineOK(f, p)
  <2> HIDE DEF q, f
  <2> QED BY <1>3, <1>4, <1>5 DEF EngineOK
<1> QED BY <1>6 DEF SetStand, set_rfc1143, new, old

\* Where an engine stands is one of the stands, and for sin one of three.
LEMMA StandOK ==
  ASSUME NEW e, NEW p, EngineOK(e, p), NEW o, NEW side \in {"us", "him"}
  PROVE  /\ StandOf(e, o, side) \in Stand
         /\ p = "sin" => StandOf(e, o, "us") = "NO" /\ StandOf(e, o, "him") \in {"NO", "YES"}
<1>1. get_rfc1143(e, o) \in Stands
  BY DEF EngineOK, StandsOK, get_rfc1143, Off, Stands, Stand
<1>2. StandOf(e, o, side) \in Stand
  BY <1>1 DEF StandOf, Stands
<1>3. p = "sin" => StandOf(e, o, "us") = "NO" /\ StandOf(e, o, "him") \in {"NO", "YES"}
  BY DEF EngineOK, Passive, StandOf, get_rfc1143, Off
<1> QED BY <1>2, <1>3

\* The peer is for it: sin turns on nothing but that the client echoes.
LEMMA PeerForOK ==
  ASSUME NEW e, NEW p \in End, EngineOK(e, p), NEW o, NEW side \in {"us", "him"}
  PROVE  EngineOK(PeerFor(e, p, o, side), p)
<1> DEFINE stand == StandOf(e, o, side)
           Become(s) == SetStand(e, o, side, s)
<1>1. stand \in Stand /\ (p = "sin" => stand = "NO" \/ (side = "him" /\ stand = "YES"))
  BY StandOK
<1>2. ASSUME NEW g, EngineOK(g, p), NEW verb PROVE EngineOK(Say(g, verb, o), p)
  BY <1>2, SmallStepsOK DEF Say
<1>3. ASSUME NEW g, EngineOK(g, p), NEW w PROVE EngineOK(Warn(g, w), p)
  BY <1>3, SmallStepsOK
<1>4. CASE stand = "NO" /\ o \in Accepts[p][side]
  <2>1. p = "sin" => side = "him" /\ o = "ECHO"
    BY <1>4, SinAssumption
  <2>2. EngineOK(Become("YES"), p)
    BY <2>1, SetStandOK DEF Stand
  <2>3. PeerFor(e, p, o, side) = Say(Become("YES"), Yes(side), o)
    BY <1>4 DEF PeerFor
  <2> HIDE DEF Become
  <2> QED BY <1>2, <2>2, <2>3
<1>5. CASE stand = "NO" /\ o \notin Accepts[p][side]
  <2>1. PeerFor(e, p, o, side) = Say(e, No(side), o)
    BY <1>5 DEF PeerFor
  <2> QED BY <1>2, <2>1
<1>6. CASE stand = "YES"
  BY <1>6 DEF PeerFor
<1>7. CASE stand \in {"WANTNO", "WANTNO_OP", "WANTYES", "WANTYES_OP"}
  <2>1. p # "sin"
    BY <1>1, <1>7
  <2>2. \A s \in Stand : EngineOK(Become(s), p)
    BY <2>1, SetStandOK
  <2>3. PeerFor(e, p, o, side) \in {Warn(Become("NO"), "crossed"),
          Warn(Become("YES"), "crossed"), Become("YES"), Say(Become("WANTNO"), No(side), o)}
    BY <1>7 DEF PeerFor
  <2> HIDE DEF Become
  <2> QED BY <1>2, <1>3, <2>2, <2>3 DEF Stand
<1> QED BY <1>1, <1>4, <1>5, <1>6, <1>7 DEF Stand

\* The peer is against it.
LEMMA PeerAgainstOK ==
  ASSUME NEW e, NEW p \in End, EngineOK(e, p), NEW o, NEW side \in {"us", "him"}
  PROVE  EngineOK(PeerAgainst(e, p, o, side), p)
<1> DEFINE stand == StandOf(e, o, side)
           Become(s) == SetStand(e, o, side, s)
<1>1. stand \in Stand /\ (p = "sin" => stand = "NO" \/ (side = "him" /\ stand = "YES"))
  BY StandOK
<1>2. ASSUME NEW g, EngineOK(g, p), NEW verb PROVE EngineOK(Say(g, verb, o), p)
  BY <1>2, SmallStepsOK DEF Say
<1>3. CASE stand = "NO"
  BY <1>3 DEF PeerAgainst
<1>4. CASE stand = "YES"
  <2>1. EngineOK(Become("NO"), p)
    BY <1>1, <1>4, SetStandOK DEF Stand
  <2>2. PeerAgainst(e, p, o, side) = Say(Become("NO"), No(side), o)
    BY <1>4 DEF PeerAgainst
  <2> HIDE DEF Become
  <2> QED BY <1>2, <2>1, <2>2
<1>5. CASE stand \in {"WANTNO", "WANTNO_OP", "WANTYES", "WANTYES_OP"}
  <2>1. p # "sin"
    BY <1>1, <1>5
  <2>2. \A s \in Stand : EngineOK(Become(s), p)
    BY <2>1, SetStandOK
  <2>3. PeerAgainst(e, p, o, side) \in {Become("NO"), Say(Become("WANTYES"), Yes(side), o)}
    BY <1>5 DEF PeerAgainst
  <2> HIDE DEF Become
  <2> QED BY <1>2, <2>2, <2>3 DEF Stand
<1> QED BY <1>1, <1>3, <1>4, <1>5 DEF Stand

\* Only a client asks.
LEMMA NegotiateOK ==
  ASSUME NEW e, NEW p, EngineOK(e, p), p # "sin", NEW o, NEW verb \in Verb
  PROVE  EngineOK(telnet_negotiate(e, verb, o), p)
<1> DEFINE side == IF verb \in {"WILL", "WONT"} THEN "us" ELSE "him"
           Become(s) == SetStand(e, o, side, s)
<1>1. \A s \in Stand : EngineOK(Become(s), p)
  BY SetStandOK
<1>2. ASSUME NEW g, EngineOK(g, p) PROVE EngineOK(Say(g, verb, o), p)
  BY <1>2, SmallStepsOK DEF Say
<1>3. telnet_negotiate(e, verb, o) \in {e, Say(Become("WANTYES"), verb, o),
        Say(Become("WANTNO"), verb, o), Become("WANTNO_OP"), Become("WANTYES"),
        Become("WANTYES_OP"), Become("WANTNO")}
  BY DEF telnet_negotiate
<1> HIDE DEF Become
<1> QED BY <1>1, <1>2, <1>3 DEF Stand

-----------------------------------------------------------------------------
(* The subnegotiation buffer.                                              *)

LEMMA AppendOne ==
  ASSUME NEW s, NEW b, Len(s) \in Nat, s = [i \in 1 .. Len(s) |-> s[i]]
  PROVE  /\ Len(Append(s, b)) = Len(s) + 1
         /\ Append(s, b) = [i \in 1 .. Len(Append(s, b)) |-> Append(s, b)[i]]
<1> DEFINE n == Len(s)
           T == {s[i] : i \in 1 .. n} \cup {b}
<1>1. n \in Nat /\ s = [i \in 1 .. n |-> s[i]]
  OBVIOUS
<1> HIDE DEF n
<1>2. s \in [1 .. n -> T]
  BY <1>1
<1>3. s \in Seq(T) /\ b \in T
  BY <1>1, <1>2
<1> HIDE DEF T
<1>4. Append(s, b) \in Seq(T) /\ Len(Append(s, b)) = Len(s) + 1
  BY <1>3, AppendProperties
<1> DEFINE a == Append(s, b)
<1>5. Len(a) \in Nat /\ a \in [1 .. Len(a) -> T]
  BY <1>4, LenProperties
<1> HIDE DEF a
<1>6. a = [i \in 1 .. Len(a) |-> a[i]]
  BY <1>5
<1> QED BY <1>4, <1>6 DEF a

\* A byte is pushed: the buffer grows first when it is full, and is never
\* longer than it was made.
LEMMA BufferByteOK ==
  ASSUME NEW e, NEW p, EngineOK(e, p), NEW b
  PROVE  EngineOK(BufferByte(e, b), p)
<1>1. CASE Full(e) /\ e.level = Len(Sizes)
  <2>1. EngineOK(Warn(e, "overflow"), p)
    BY SmallStepsOK
  <2>2. EngineOK(To(Warn(e, "overflow"), "DATA"), p)
    BY <2>1, SmallStepsOK DEF State
  <2> QED BY <1>1, <2>2 DEF BufferByte
<1>2. CASE ~(Full(e) /\ e.level = Len(Sizes))
  <2> DEFINE level == IF Full(e) THEN e.level + 1 ELSE e.level
             buffer == Append(e.buffer, b)
             f == BufferByte(e, b)
  <2>1. DOMAIN f = Fields /\ f.state = "SB_DATA" /\ f.q = e.q /\ f.buffer = buffer /\ f.level = level
    BY <1>2 DEF BufferByte, EngineOK, Fields
  <2>2. Len(buffer) = Len(e.buffer) + 1 /\ buffer = [i \in 1 .. Len(buffer) |-> buffer[i]]
    BY AppendOne DEF EngineOK, BufferOK
  <2>3. level \in 1 .. Len(Sizes)
    <3>1. Len(Sizes) \in Nat
      BY SizesAssumption
    <3> QED BY <1>2, <3>1 DEF EngineOK, BufferOK
  <2>4. Len(e.buffer) + 1 <= Sizes[level]
    <3>1. \A i \in 1 .. Len(Sizes) : Sizes[i] \in Nat
      BY SizesAssumption
    <3>2. CASE Full(e)
      <4>1. level = e.level + 1 /\ e.level \in 1 .. Len(Sizes)
        BY <3>2 DEF EngineOK, BufferOK
      <4>2. Sizes[e.level] < Sizes[level]
        BY <2>3, <4>1, SizesAssumption
      <4> QED BY <2>3, <3>1, <3>2, <4>1, <4>2 DEF Full
    <3>3. CASE ~Full(e)
      BY <3>1, <3>3 DEF Full, EngineOK, BufferOK
    <3> QED BY <3>2, <3>3
  <2>5. BufferOK(buffer, level)
    <3>1. Len(buffer) \in Nat /\ Len(buffer) <= Sizes[level]
      BY <2>2, <2>4 DEF EngineOK, BufferOK
    <3> HIDE DEF buffer, level
    <3> QED BY <2>2, <2>3, <3>1 DEF BufferOK
  <2> HIDE DEF f, buffer, level
  <2>6. EngineOK(f, p)
    BY <2>1, <2>5 DEF EngineOK, State
  <2> QED BY <2>6 DEF f
<1> QED BY <1>1, <1>2

-----------------------------------------------------------------------------
(* A byte, whatever it is, in any state.                                   *)

LEMMA InIacOK ==
  ASSUME NEW e, NEW p, EngineOK(e, p), NEW b
  PROVE  EngineOK(InIac(e, b), p)
<1>1. EngineOK(To(e, "DATA"), p) /\ (b \in Verb \cup {"SB"} => EngineOK(To(e, b), p))
  BY SmallStepsOK DEF State
<1>2. EngineOK(To(Hand(e, <<"IAC">>), "DATA"), p)
  BY SmallStepsOK DEF State
<1> QED BY <1>1, <1>2 DEF InIac

LEMMA ProcessOK ==
  ASSUME NEW e, NEW p \in End, EngineOK(e, p), NEW b
  PROVE  EngineOK(Process(e, p, b), p)
<1>1. CASE e.state = "DATA"
  <2>1. EngineOK(HandRun(e), p) /\ EngineOK([e EXCEPT !.run = Append(@, b)], p)
    BY SmallStepsOK
  <2>2. EngineOK(To(HandRun(e), "IAC"), p) /\ EngineOK(To(HandRun(e), "EOL"), p)
    BY <2>1, SmallStepsOK DEF State
  <2>3. EngineOK(InData(e, b), p)
    BY <2>1, <2>2 DEF InData
  <2> QED BY <1>1, <2>3 DEF Process, Verb
<1>2. CASE e.state = "EOL"
  <2> DEFINE ended == IF b = "LF" THEN e ELSE Hand(e, <<"CR">>)
             run == IF b = "NUL" THEN <<>> ELSE <<b>>
             f == [ended EXCEPT !.run = run]
  <2>1. EngineOK(ended, p)
    BY SmallStepsOK
  <2> HIDE DEF ended
  <2>2. EngineOK(f, p)
    BY <2>1, SmallStepsOK
  <2> HIDE DEF f
  <2>3. EngineOK(To(f, "DATA"), p)
    BY <2>2, SmallStepsOK DEF State
  <2>4. EngineOK(InEol(e, b), p)
    BY <2>3 DEF InEol, f, ended
  <2> QED BY <1>2, <2>4 DEF Process, Verb
<1>3. CASE e.state = "IAC"
  BY <1>3, InIacOK DEF Process, Verb
<1>4. CASE e.state \in Verb
  <2>1. EngineOK(Negotiate(e, p, b), p)
    BY <1>4, PeerForOK, PeerAgainstOK DEF Negotiate, Verb
  <2>2. EngineOK(To(Negotiate(e, p, b), "DATA"), p)
    BY <2>1, SmallStepsOK DEF State
  <2> QED BY <1>4, <2>2 DEF Process, Verb
<1>5. CASE e.state = "SB"
  <2> DEFINE f == InSb(e, b)
  <2>1. DOMAIN f = Fields /\ f.state = "SB_DATA" /\ f.q = e.q /\ f.buffer = <<>> /\ f.level = e.level
    BY DEF InSb, EngineOK, Fields
  <2>2. BufferOK(<<>>, e.level)
    <3>1. \A i \in 1 .. Len(Sizes) : Sizes[i] \in Nat
      BY SizesAssumption
    <3>2. Len(<<>>) = 0 /\ <<>> = [i \in 1 .. 0 |-> <<>>[i]]
      OBVIOUS
    <3> QED BY <3>1, <3>2 DEF EngineOK, BufferOK
  <2>3. EngineOK(f, p)
    <3> HIDE DEF f
    <3> QED BY <2>1, <2>2 DEF EngineOK, State
  <2> QED BY <1>5, <2>3 DEF Process, Verb
<1>6. CASE e.state = "SB_DATA"
  <2>1. EngineOK(To(e, "SB_DATA_IAC"), p) /\ EngineOK(To(e, "AHEAD"), p)
    BY SmallStepsOK DEF State
  <2>2. EngineOK(BufferByte(e, b), p)
    BY BufferByteOK
  <2>3. EngineOK(InSbData(e, b), p)
    BY <2>1, <2>2 DEF InSbData
  <2> QED BY <1>6, <2>3 DEF Process, Verb
<1>7. CASE e.state = "SB_DATA_IAC"
  <2> DEFINE f == Subnegotiate(e)
  <2>1. Aside(e, f) /\ f.state = e.state
    BY DEF Subnegotiate, Aside, EngineOK, Fields
  <2>2. EngineOK(f, p)
    BY <2>1, AsideIsOK DEF EngineOK
  <2> HIDE DEF f
  <2>3. EngineOK(To(f, "DATA"), p) /\ EngineOK(Warn(f, "unexpected"), p)
    BY <2>2, SmallStepsOK DEF State
  <2>4. EngineOK(InIac(Warn(f, "unexpected"), b), p)
    BY <2>3, InIacOK
  <2>5. EngineOK(BufferByte(e, "IAC"), p)
    BY BufferByteOK
  <2>6. EngineOK(InSbDataIac(e, b), p)
    BY <2>3, <2>4, <2>5 DEF InSbDataIac, f
  <2> QED BY <1>7, <2>6 DEF Process, Verb
<1>8. CASE e.state = "AHEAD"
  <2>1. EngineOK(Overread(e), p) /\ EngineOK(To(e, "DATA"), p)
    BY SmallStepsOK DEF State
  <2>2. EngineOK(InAhead(e, b), p)
    BY <2>1 DEF InAhead
  <2> QED BY <1>8, <2>2 DEF Process, Verb
<1>9. CASE e.state = "ASTRAY"
  BY <1>9 DEF Process, Verb
<1> QED BY <1>1, <1>2, <1>3, <1>4, <1>5, <1>6, <1>7, <1>8, <1>9 DEF EngineOK, State

-----------------------------------------------------------------------------
(* The connection.                                                         *)

IInv ==
  /\ DOMAIN engine = End
  /\ \A p \in End : EngineOK(engine[p], p)

\* An engine in order takes the place of another.
LEMMA PutOK ==
  ASSUME IInv, NEW p \in End, NEW e, EngineOK(e, p), NEW left, Put(p, e, left)
  PROVE  IInv'
<1> DEFINE f == [e EXCEPT !.sent = <<>>]
<1>1. EngineOK(f, p)
  BY SmallStepsOK
<1>2. engine' = [engine EXCEPT ![p] = f]
  BY DEF Put
<1> HIDE DEF f
<1>3. DOMAIN engine' = End /\ \A x \in End : engine'[x] = IF x = p THEN f ELSE engine[x]
  BY <1>2 DEF IInv
<1> QED BY <1>1, <1>3 DEF IInv

LEMMA MoveOK ==
  ASSUME IInv, NEW p \in End, NEW e, EngineOK(e, p), NEW events, Move(p, e, events)
  PROVE  IInv'
  BY PutOK DEF Move

\* What the programs say concerns neither options nor buffers.
LEMMA SendingOK ==
  ASSUME NEW e, NEW p, EngineOK(e, p), NEW b, NEW o
  PROVE  /\ EngineOK(telnet_send_text(e, b), p)
         /\ EngineOK(telnet_iac(e, b), p)
         /\ EngineOK(telnet_send(e, b), p)
         /\ EngineOK(telnet_begin_sb(e, o), p)
         /\ EngineOK(telnet_subnegotiation(e, o, b), p)
<1>1. ASSUME NEW g, EngineOK(g, p), NEW x PROVE EngineOK(Send(g, x), p)
  BY <1>1, SmallStepsOK
<1>2. EngineOK(telnet_send_text(e, b), p)
  BY <1>1 DEF telnet_send_text
<1>3. EngineOK(telnet_iac(e, b), p) /\ EngineOK(telnet_begin_sb(e, o), p)
  BY <1>1 DEF telnet_iac, telnet_begin_sb
<1>4. ASSUME NEW g, EngineOK(g, p), NEW x PROVE EngineOK(telnet_send(g, x), p)
  BY <1>1, <1>4 DEF telnet_send
<1>5. EngineOK(telnet_subnegotiation(e, o, b), p)
  <2>1. EngineOK(telnet_send(telnet_begin_sb(e, o), b), p)
    BY <1>3, <1>4
  <2> QED BY <1>1, <2>1 DEF telnet_subnegotiation
<1> QED BY <1>2, <1>3, <1>4, <1>5

LEMMA InitOK == Init => IInv
<1> SUFFICES ASSUME Init, NEW p \in End PROVE EngineOK(telnet_init, p)
  BY DEF Init, IInv
<1>1. DOMAIN telnet_init = Fields /\ telnet_init.state = "DATA" /\ telnet_init.q = <<>>
      /\ telnet_init.buffer = <<>> /\ telnet_init.level = 1
  BY DEF telnet_init, Fields
<1>2. DOMAIN <<>> = {}
  OBVIOUS
<1>3. BufferOK(<<>>, 1)
  <2>1. \A i \in 1 .. Len(Sizes) : Sizes[i] \in Nat
    BY SizesAssumption
  <2>2. Len(Sizes) \in Nat \ {0}
    BY SizesAssumption
  <2>3. Len(<<>>) = 0 /\ <<>> = [i \in 1 .. 0 |-> <<>>[i]]
    OBVIOUS
  <2> QED BY <2>1, <2>2, <2>3 DEF BufferOK
<1> HIDE DEF telnet_init
<1> QED BY <1>1, <1>2, <1>3 DEF EngineOK, State, StandsOK, Passive

LEMMA NextOK == IInv /\ [Next]_vars => IInv'
<1> SUFFICES ASSUME IInv, [Next]_vars PROVE IInv'
  OBVIOUS
<1>1. ASSUME NEW p \in End, NEW last \in BOOLEAN, Receive(p, last) PROVE IInv'
  <2> DEFINE came == Process(engine[p], p, Head(wire[p]))
             e == IF last THEN EndPiece(came) ELSE came
  <2>1. EngineOK(came, p)
    BY ProcessOK DEF IInv
  <2>2. EngineOK(e, p)
    BY <2>1, SmallStepsOK DEF EndPiece
  <2>3. Put(p, e, Tail(wire[p]))
    BY <1>1 DEF Receive
  <2> HIDE DEF e
  <2> QED BY <2>2, <2>3, PutOK
<1>2. ASSUME NEW b \in Typed, Write(b) PROVE IInv'
  BY <1>2, MoveOK, SendingOK DEF Write, IInv, End
<1>3. ASSUME NEW b \in Typed, Type(b) PROVE IInv'
  BY <1>3, MoveOK, SendingOK DEF Type, IInv, End
<1>4. ASSUME NEW verb \in Verb, NEW o \in Option, Ask(verb, o) PROVE IInv'
  BY <1>4, MoveOK, NegotiateOK DEF Ask, IInv, End
<1>5. CASE Command
  BY <1>5, MoveOK, SendingOK DEF Command, IInv, End
<1>6. ASSUME NEW o \in Option, NEW d \in Data, Subnegotiation(o, d) PROVE IInv'
  BY <1>6, MoveOK, SendingOK DEF Subnegotiation, IInv, End
<1>7. ASSUME NEW o \in Option, NEW d \in Data, Abandon(o, d) PROVE IInv'
  <2>1. EngineOK(telnet_begin_sb(engine["client"], o), "client")
    BY SendingOK DEF IInv, End
  <2>2. EngineOK(telnet_send(telnet_begin_sb(engine["client"], o), d), "client")
    BY <2>1, SendingOK
  <2>3. EngineOK(telnet_iac(telnet_send(telnet_begin_sb(engine["client"], o), d), "NOP"), "client")
    BY <2>2, SendingOK
  <2> QED BY <1>7, <2>3, MoveOK DEF Abandon, End
<1>8. ASSUME UNCHANGED engine PROVE IInv'
  BY <1>8 DEF IInv
<1>9. CASE Compress
  <2>1. EngineOK(Send(engine["client"], <<"IAC", "SB", "COMPRESS", "WILL", "SE">>), "client")
    BY SmallStepsOK DEF IInv, End
  <2> QED BY <1>9, <2>1, MoveOK DEF Compress, End
<1> QED BY <1>1, <1>2, <1>3, <1>4, <1>5, <1>6, <1>7, <1>8, <1>9 DEF Next, Flush, Drain, vars

LEMMA Invariance == Spec => []IInv
<1> QED BY InitOK, NextOK, PTL DEF Spec

\* sin never awaits an answer, and the only option that can be on at sin is
\* that the client echoes, whatever bytes came in (network.c:23).
THEOREM SinStaysPassive == Spec => []SinNeverWaits
<1>1. IInv => SinNeverWaits
  BY DEF IInv, EngineOK, Passive, SinNeverWaits, StandOf, get_rfc1143, End
<1> QED BY <1>1, Invariance, PTL

\* The buffer of a subnegotiation is never overrun, whatever bytes came in and
\* however large the buffers are (libtelnet.c:929).
THEOREM BuffersFit == Spec => []BufferFits
<1>1. IInv => BufferFits
  BY DEF IInv, EngineOK, BufferOK, BufferFits
<1> QED BY <1>1, Invariance, PTL

-----------------------------------------------------------------------------
(* What is on the way to an end, parsed.  A place in it says what the next *)
(* byte belongs to, how many events and how many verbs were complete       *)
(* before it, and how much of a subnegotiation.                            *)

Said == [verb : Verb, opt : Option]

Place == [at : {"top", "cr", "iac", "sb", "sbdata", "sbiac"} \cup Verb,
          n : Nat, j : Nat, m : Nat]

Pl(at, n, j, m) == [at |-> at, n |-> n, j |-> j, m |-> m]

Plain == Text \ {"IAC", "CR", "LF"}

\* Event n is the byte b of a text; byte j of event n, a subnegotiation, is b.
IsText(ev, n, b) == n <= Len(ev) /\ ev[n] = [opt |-> "text", bytes |-> <<b>>]

IsSub(ev, n) == n <= Len(ev) /\ ev[n].opt \in Option /\ Len(ev[n].bytes) <= Largest

Carries(ev, n, j, b) == IsSub(ev, n) /\ j <= Len(ev[n].bytes) /\ ev[n].bytes[j] = b

\* A byte of each kind of place, and the place after it.
GoTop(x, b, y, ev) ==
  \/ b = "CR" /\ y = Pl("cr", x.n, 0, x.m)
  \/ b = "IAC" /\ y = Pl("iac", x.n, 0, x.m)
  \/ b \in Plain /\ IsText(ev, x.n + 1, b) /\ y = Pl("top", x.n + 1, 0, x.m)

GoCr(x, b, y, ev) ==
  /\ y = Pl("top", x.n + 1, 0, x.m)
  /\ \/ b = "NUL" /\ IsText(ev, x.n + 1, "CR")
     \/ b = "LF" /\ IsText(ev, x.n + 1, "LF")

GoIac(x, b, y, ev) ==
  \/ b = "IAC" /\ IsText(ev, x.n + 1, b) /\ y = Pl("top", x.n + 1, 0, x.m)
  \/ b = "NOP" /\ y = Pl("top", x.n, 0, x.m)
  \/ b \in Verb /\ y = Pl(b, x.n, 0, x.m)
  \/ b = "SB" /\ y = Pl("sb", x.n, 0, x.m)

GoVerb(x, b, y, vs) ==
  /\ x.m < Len(vs) /\ vs[x.m + 1] = [verb |-> x.at, opt |-> b]
  /\ y = Pl("top", x.n, 0, x.m + 1)

GoSb(x, b, y, ev) ==
  IsSub(ev, x.n + 1) /\ ev[x.n + 1].opt = b /\ y = Pl("sbdata", x.n, 0, x.m)

GoSbData(x, b, y, ev) ==
  \/ b = "IAC" /\ y = Pl("sbiac", x.n, x.j, x.m)
  \/ /\ b \in Text \ {"IAC"} /\ Carries(ev, x.n + 1, x.j + 1, b)
     /\ y = Pl("sbdata", x.n, x.j + 1, x.m)

GoSbIac(x, b, y, ev) ==
  \/ /\ b = "IAC" /\ Carries(ev, x.n + 1, x.j + 1, b)
     /\ y = Pl("sbdata", x.n, x.j + 1, x.m)
  \/ /\ b \in {"SE", "NOP"} /\ IsSub(ev, x.n + 1) /\ x.j = Len(ev[x.n + 1].bytes)
     /\ y = Pl("top", x.n + 1, 0, x.m)

Go(x, b, y, ev, vs) ==
  \/ x.at = "top" /\ GoTop(x, b, y, ev)
  \/ x.at = "cr" /\ GoCr(x, b, y, ev)
  \/ x.at = "iac" /\ GoIac(x, b, y, ev)
  \/ x.at \in Verb /\ GoVerb(x, b, y, vs)
  \/ x.at = "sb" /\ GoSb(x, b, y, ev)
  \/ x.at = "sbdata" /\ GoSbData(x, b, y, ev)
  \/ x.at = "sbiac" /\ GoSbIac(x, b, y, ev)

\* The bytes of s lead from x to y.
Leads(lab, s, ev, vs) == \A i \in 1 .. Len(s) : Go(lab[i], s[i], lab[i + 1], ev, vs)

Parsed(x, s, y, ev, vs) ==
  \E lab \in [1 .. Len(s) + 1 -> Place] :
    lab[1] = x /\ lab[Len(s) + 1] = y /\ Leads(lab, s, ev, vs)

LEMMA ParsedNone ==
  ASSUME NEW x \in Place, NEW ev, NEW vs
  PROVE  Parsed(x, <<>>, x, ev, vs)
<1> DEFINE lab == [i \in 1 .. 1 |-> x]
<1>1. Len(<<>>) = 0
  OBVIOUS
<1>2. lab \in [1 .. Len(<<>>) + 1 -> Place] /\ lab[1] = x /\ lab[Len(<<>>) + 1] = x
  BY <1>1
<1>3. Leads(lab, <<>>, ev, vs)
  BY <1>1 DEF Leads
<1> HIDE DEF lab
<1> QED BY <1>2, <1>3 DEF Parsed

LEMMA ParsedOne ==
  ASSUME NEW x \in Place, NEW y \in Place, NEW b, NEW ev, NEW vs, Go(x, b, y, ev, vs)
  PROVE  Parsed(x, <<b>>, y, ev, vs)
<1> DEFINE lab == [i \in 1 .. 2 |-> IF i = 1 THEN x ELSE y]
<1>1. Len(<<b>>) = 1 /\ <<b>>[1] = b
  OBVIOUS
<1>2. lab \in [1 .. Len(<<b>>) + 1 -> Place] /\ lab[1] = x /\ lab[Len(<<b>>) + 1] = y
  BY <1>1
<1>3. Leads(lab, <<b>>, ev, vs)
  BY <1>1 DEF Leads
<1> HIDE DEF lab
<1> QED BY <1>2, <1>3 DEF Parsed

LEMMA ParsedBoth ==
  ASSUME NEW x \in Place, NEW y \in Place, NEW z \in Place, NEW S,
         NEW s \in Seq(S), NEW t \in Seq(S), NEW ev, NEW vs,
         Parsed(x, s, y, ev, vs), Parsed(y, t, z, ev, vs)
  PROVE  Parsed(x, s \o t, z, ev, vs)
<1>1. PICK la \in [1 .. Len(s) + 1 -> Place] :
        la[1] = x /\ la[Len(s) + 1] = y /\ Leads(la, s, ev, vs)
  BY DEF Parsed
<1>2. PICK lb \in [1 .. Len(t) + 1 -> Place] :
        lb[1] = y /\ lb[Len(t) + 1] = z /\ Leads(lb, t, ev, vs)
  BY DEF Parsed
<1> DEFINE u == s \o t
           lab == [i \in 1 .. Len(u) + 1 |-> IF i <= Len(s) + 1 THEN la[i] ELSE lb[i - Len(s)]]
<1>3. /\ Len(s) \in Nat /\ Len(t) \in Nat /\ Len(u) = Len(s) + Len(t)
      /\ \A i \in 1 .. Len(u) : u[i] = IF i <= Len(s) THEN s[i] ELSE t[i - Len(s)]
  BY ConcatProperties
<1> HIDE DEF u
<1>4. lab \in [1 .. Len(u) + 1 -> Place]
  BY <1>3
<1>5. lab[1] = x /\ lab[Len(u) + 1] = z
  BY <1>1, <1>2, <1>3
<1>6. ASSUME NEW i \in 1 .. Len(u) PROVE Go(lab[i], u[i], lab[i + 1], ev, vs)
  <2>1. CASE i <= Len(s)
    <3>1. i \in 1 .. Len(s) /\ u[i] = s[i] /\ lab[i] = la[i] /\ lab[i + 1] = la[i + 1]
      BY <1>3, <2>1
    <3> QED BY <1>1, <3>1 DEF Leads
  <2>2. CASE ~(i <= Len(s))
    <3> DEFINE k == i - Len(s)
    <3>1. k \in 1 .. Len(t) /\ u[i] = t[k] /\ lab[i + 1] = lb[k + 1]
      BY <1>3, <2>2
    <3>2. lab[i] = lb[k]
      BY <1>1, <1>2, <1>3, <2>2
    <3> HIDE DEF k
    <3> QED BY <1>2, <3>1, <3>2 DEF Leads
  <2> QED BY <2>1, <2>2
<1>7. Leads(lab, u, ev, vs)
  <2> HIDE DEF lab
  <2> QED BY <1>6 DEF Leads
<1> HIDE DEF lab
<1>8. Parsed(x, u, z, ev, vs)
  BY <1>4, <1>5, <1>7 DEF Parsed
<1> QED BY <1>8 DEF u

LEMMA ParsedHead ==
  ASSUME NEW x \in Place, NEW z \in Place, NEW S, NEW s \in Seq(S), s # <<>>,
         NEW ev, NEW vs, Parsed(x, s, z, ev, vs)
  PROVE  \E y \in Place : Go(x, Head(s), y, ev, vs) /\ Parsed(y, Tail(s), z, ev, vs)
<1>1. PICK la \in [1 .. Len(s) + 1 -> Place] :
        la[1] = x /\ la[Len(s) + 1] = z /\ Leads(la, s, ev, vs)
  BY DEF Parsed
<1> DEFINE t == Tail(s)
           lab == [i \in 1 .. Len(t) + 1 |-> la[i + 1]]
<1>2. /\ Len(s) \in Nat \ {0} /\ Len(t) = Len(s) - 1 /\ Head(s) = s[1]
      /\ \A i \in 1 .. Len(t) : t[i] = s[i + 1]
  BY HeadTailProperties, EmptySeq
<1> HIDE DEF t
<1>3. lab \in [1 .. Len(t) + 1 -> Place] /\ lab[1] = la[2] /\ lab[Len(t) + 1] = z
  BY <1>1, <1>2
<1>4. ASSUME NEW i \in 1 .. Len(t) PROVE Go(lab[i], t[i], lab[i + 1], ev, vs)
  <2>1. i + 1 \in 1 .. Len(s) /\ t[i] = s[i + 1] /\ lab[i] = la[i + 1] /\ lab[i + 1] = la[(i + 1) + 1]
    BY <1>2
  <2> QED BY <1>1, <2>1 DEF Leads
<1>5. Leads(lab, t, ev, vs)
  <2> HIDE DEF lab
  <2> QED BY <1>4 DEF Leads
<1> HIDE DEF lab
<1>6. la[2] \in Place
  BY <1>2
<1>7. Parsed(la[2], t, z, ev, vs)
  BY <1>3, <1>5 DEF Parsed
<1>8. Go(x, Head(s), la[2], ev, vs)
  BY <1>1, <1>2 DEF Leads
<1> QED BY <1>6, <1>7, <1>8 DEF t

\* More is said: what was parsed is parsed as before.
LEMMA GoMore ==
  ASSUME NEW x \in Place, NEW y, NEW b, NEW E, NEW ev \in Seq(E), NEW more \in Seq(E),
         NEW V, NEW vs \in Seq(V), NEW mv \in Seq(V), Go(x, b, y, ev, vs)
  PROVE  Go(x, b, y, ev \o more, vs \o mv)
<1> DEFINE n == x.n + 1  k == x.m + 1
           ew == ev \o more
           vw == vs \o mv
<1>1. n \in Nat \ {0} /\ k \in Nat \ {0} /\ x.m \in Nat
  BY DEF Place
<1>2. n <= Len(ev) => n <= Len(ew) /\ ew[n] = ev[n]
  BY <1>1, ConcatProperties
<1>3. x.m < Len(vs) => x.m < Len(vw) /\ vw[k] = vs[k]
  BY <1>1, ConcatProperties
<1>4. \A c : IsText(ev, n, c) => IsText(ew, n, c)
  BY <1>2 DEF IsText
<1>5. IsSub(ev, n) => IsSub(ew, n) /\ ew[n] = ev[n]
  BY <1>2 DEF IsSub
<1>6. \A j, c : Carries(ev, n, j, c) => Carries(ew, n, j, c)
  BY <1>5 DEF Carries
<1> HIDE DEF n, k, ew, vw
<1>7. Go(x, b, y, ew, vw)
  <2>1. GoTop(x, b, y, ev) => GoTop(x, b, y, ew)
    BY <1>4 DEF GoTop, n
  <2>2. GoCr(x, b, y, ev) => GoCr(x, b, y, ew)
    BY <1>4 DEF GoCr, n
  <2>3. GoIac(x, b, y, ev) => GoIac(x, b, y, ew)
    BY <1>4 DEF GoIac, n
  <2>4. GoVerb(x, b, y, vs) => GoVerb(x, b, y, vw)
    BY <1>3 DEF GoVerb, k
  <2>5. GoSb(x, b, y, ev) => GoSb(x, b, y, ew)
    BY <1>5 DEF GoSb, n
  <2>6. GoSbData(x, b, y, ev) => GoSbData(x, b, y, ew)
    BY <1>6 DEF GoSbData, n
  <2>7. GoSbIac(x, b, y, ev) => GoSbIac(x, b, y, ew)
    BY <1>5, <1>6 DEF GoSbIac, n
  <2> QED BY <2>1, <2>2, <2>3, <2>4, <2>5, <2>6, <2>7 DEF Go
<1> QED BY <1>7 DEF ew, vw

LEMMA ParsedMore ==
  ASSUME NEW x, NEW y, NEW S, NEW s \in Seq(S), NEW E, NEW ev \in Seq(E), NEW more \in Seq(E),
         NEW V, NEW vs \in Seq(V), NEW mv \in Seq(V), Parsed(x, s, y, ev, vs)
  PROVE  Parsed(x, s, y, ev \o more, vs \o mv)
<1>1. PICK lab \in [1 .. Len(s) + 1 -> Place] :
        lab[1] = x /\ lab[Len(s) + 1] = y /\ Leads(lab, s, ev, vs)
  BY DEF Parsed
<1>2. ASSUME NEW i \in 1 .. Len(s) PROVE Go(lab[i], s[i], lab[i + 1], ev \o more, vs \o mv)
  <2>1. i \in 1 .. Len(s) + 1
    <3>1. Len(s) \in Nat
      BY LenProperties
    <3> QED BY <3>1
  <2>2. lab[i] \in Place
    BY <2>1, Zenon
  <2>3. Go(lab[i], s[i], lab[i + 1], ev, vs)
    BY <1>1 DEF Leads
  <2> QED BY <2>2, <2>3, GoMore
<1>3. Leads(lab, s, ev \o more, vs \o mv)
  BY <1>2 DEF Leads
<1> QED BY <1>1, <1>3 DEF Parsed

-----------------------------------------------------------------------------
(* What stands for induction, and what FlattenSeq computes.                *)

\* A set of numbers has a smallest element.
LEMMA SmallestNat ==
  ASSUME NEW T, T \subseteq Nat, T # {}
  PROVE  \E x \in T : \A y \in T : x <= y
<1> DEFINE R == OpToRel(<, Nat)
<1>1. IsWellFoundedOn(R, Nat)
  BY NatLessThanWellFounded
<1> HIDE DEF R
<1>2. PICK x \in T : \A y \in T : ~ (<<y, x>> \in R)
  BY <1>1, WFMin
<1>3. ASSUME NEW y \in T PROVE x <= y
  <2>1. <<y, x>> \notin R
    BY <1>2
  <2>2. x \in Nat /\ y \in Nat
    OBVIOUS
  <2>3. ~(y < x)
    BY <2>1, <2>2 DEF R, OpToRel
  <2> QED BY <2>2, <2>3
<1> QED BY <1>3

\* FlattenSeq appends the elements one after the other.
Flattens(f, s) ==
  f = [i \in 1 .. Len(s) |-> IF i = 1 THEN s[i] ELSE f[i - 1] \o s[i]]

FlattensUpTo(f, s, k) ==
  f = [i \in 1 .. k |-> IF i = 1 THEN s[i] ELSE f[i - 1] \o s[i]]

LEMMA FlattensExists ==
  ASSUME NEW s, NEW n \in Nat
  PROVE  \E f : FlattensUpTo(f, s, n)
<1> DEFINE T == {k \in Nat : ~ \E f : FlattensUpTo(f, s, k)}
<1> SUFFICES ASSUME T # {} PROVE FALSE
  OBVIOUS
<1>1. PICK k \in T : \A y \in T : k <= y
  <2>1. T \subseteq Nat
    OBVIOUS
  <2> HIDE DEF T
  <2> QED BY <2>1, SmallestNat
<1>2. CASE k = 0
  <2> DEFINE f == [i \in 1 .. 0 |-> <<>>]
  <2>1. FlattensUpTo(f, s, 0)
    BY DEF FlattensUpTo
  <2> QED BY <1>2, <2>1
<1>3. CASE k # 0
  <2>1. k - 1 \in Nat /\ ~(k <= k - 1)
    BY <1>3
  <2>2. PICK h : FlattensUpTo(h, s, k - 1)
    BY <1>1, <2>1
  <2> DEFINE f == [i \in 1 .. k |-> IF i = k THEN (IF k = 1 THEN s[k] ELSE h[k - 1] \o s[k])
                                   ELSE h[i]]
  <2>3. ASSUME NEW i \in 1 .. k PROVE f[i] = IF i = 1 THEN s[i] ELSE f[i - 1] \o s[i]
    <3>1. CASE i = k
      BY <3>1
    <3>2. CASE i # k
      <4>1. i \in 1 .. k - 1
        BY <3>2
      <4>2. h[i] = IF i = 1 THEN s[i] ELSE h[i - 1] \o s[i]
        BY <2>2, <4>1 DEF FlattensUpTo
      <4>3. i # 1 => f[i - 1] = h[i - 1]
        BY <4>1
      <4> QED BY <3>2, <4>2, <4>3
    <3> QED BY <3>1, <3>2
  <2>4. DOMAIN f = 1 .. k /\ f = [i \in 1 .. k |-> f[i]]
    OBVIOUS
  <2> HIDE DEF f
  <2>5. FlattensUpTo(f, s, k)
    BY <2>3, <2>4 DEF FlattensUpTo
  <2> QED BY <2>5
<1> QED BY <1>2, <1>3

LEMMA FlattenSeqStepwise ==
  ASSUME NEW s, Len(s) \in Nat \ {0}
  PROVE  \E f : Flattens(f, s) /\ FlattenSeq(s) = f[Len(s)]
<1>1. \E f : Flattens(f, s)
  BY FlattensExists DEF Flattens, FlattensUpTo
<1>2. FlattenSeq(s) = (CHOOSE f : Flattens(f, s))[Len(s)]
  BY DEF FlattenSeq, Flattens
<1>3. Flattens(CHOOSE f : Flattens(f, s), s)
  BY <1>1, Zenon
<1> QED BY <1>2, <1>3, Zenon

-----------------------------------------------------------------------------
(* What the engines send, parsed.                                          *)

LEMMA PlIsPlace ==
  ASSUME NEW at \in {"top", "cr", "iac", "sb", "sbdata", "sbiac"} \cup Verb,
         NEW n \in Nat, NEW j \in Nat, NEW m \in Nat
  PROVE  /\ Pl(at, n, j, m) \in Place
         /\ Pl(at, n, j, m).at = at /\ Pl(at, n, j, m).n = n
         /\ Pl(at, n, j, m).j = j /\ Pl(at, n, j, m).m = m
  BY DEF Pl, Place

LEMMA ParsedThen ==
  ASSUME NEW x \in Place, NEW y \in Place, NEW z \in Place, NEW S, NEW s \in Seq(S), NEW b,
         NEW ev, NEW vs, Parsed(x, s, y, ev, vs), Go(y, b, z, ev, vs)
  PROVE  Parsed(x, Append(s, b), z, ev, vs)
<1> DEFINE T == S \cup {b}
<1>1. s \in Seq(T) /\ <<b>> \in Seq(T) /\ Append(s, b) = s \o <<b>>
  OBVIOUS
<1>2. Parsed(y, <<b>>, z, ev, vs)
  BY ParsedOne
<1> HIDE DEF T
<1> QED BY <1>1, <1>2, ParsedBoth

LEMMA ShortAppends ==
  ASSUME NEW a, NEW b, NEW c
  PROVE  Append(<<a>>, b) = <<a, b>> /\ Append(<<a, b>>, c) = <<a, b, c>>
<1> DEFINE S == {a, b, c}
<1>1. <<a>> \in Seq(S) /\ <<a, b>> \in Seq(S) /\ <<a, b, c>> \in Seq(S) /\ b \in S /\ c \in S
  OBVIOUS
<1>2. Append(<<a>>, b) = <<a,b>>
  <2>1. Append(<<a>>, b) \in Seq(S) /\ Len(Append(<<a>>, b)) = 2 /\ Len(<<a,b>>) = 2
    OBVIOUS
  <2>2. \A i \in 1..2 : Append(<<a>>, b)[i] = <<a,b>>[i]
    OBVIOUS
  <2> HIDE DEF S
  <2> QED BY <1>1, <2>1, <2>2, SeqEqual
<1>3. Append(<<a, b>>, c) = <<a,b, c>>
  <2>1. Append(<<a, b>>, c) \in Seq(S) /\ Len(Append(<<a, b>>, c)) = 3 /\ Len(<<a,b, c>>) = 3
    OBVIOUS
  <2>2. \A i \in 1..3 : Append(<<a, b>>, c)[i] = <<a,b, c>>[i]
    OBVIOUS
  <2> HIDE DEF S
  <2> QED BY <1>1, <2>1, <2>2, SeqEqual
<1> QED BY <1>2, <1>3

LEMMA ParsedTwo ==
  ASSUME NEW x \in Place, NEW y \in Place, NEW z \in Place, NEW a, NEW b,
         NEW ev, NEW vs, Go(x, a, y, ev, vs), Go(y, b, z, ev, vs)
  PROVE  Parsed(x, <<a, b>>, z, ev, vs)
<1>1. <<a>> \in Seq({a})
  OBVIOUS
<1>4. Append(<<a>>, b) = <<a, b>>
  BY ShortAppends
<1>2. Parsed(x, <<a>>, y, ev, vs)
  BY ParsedOne
<1>3. Parsed(x, Append(<<a>>, b), z, ev, vs)
  BY <1>1, <1>2, ParsedThen
<1> QED BY <1>3, <1>4

LEMMA ParsedThree ==
  ASSUME NEW w \in Place, NEW x \in Place, NEW y \in Place, NEW z \in Place,
         NEW a, NEW b, NEW c, NEW ev, NEW vs,
         Go(w, a, x, ev, vs), Go(x, b, y, ev, vs), Go(y, c, z, ev, vs)
  PROVE  Parsed(w, <<a, b, c>>, z, ev, vs)
<1>1. <<a, b>> \in Seq({a, b})
  OBVIOUS
<1>4. Append(<<a, b>>, c) = <<a, b, c>>
  BY ShortAppends
<1>2. Parsed(w, <<a, b>>, y, ev, vs)
  BY ParsedTwo
<1>3. Parsed(w, Append(<<a, b>>, c), z, ev, vs)
  BY <1>1, <1>2, ParsedThen
<1> QED BY <1>3, <1>4

\* The bytes of a text byte, the ends of lines translated.
Encoded(b) == CASE b = "IAC" -> <<"IAC", "IAC">>
                [] b = "CR" -> <<"CR", "NUL">>
                [] b = "LF" -> <<"CR", "LF">>
                [] OTHER -> <<b>>

LEMMA TextParsed ==
  ASSUME NEW b \in Text, NEW n \in Nat, NEW m \in Nat, NEW ev, NEW vs, IsText(ev, n + 1, b)
  PROVE  Parsed(Pl("top", n, 0, m), Encoded(b), Pl("top", n + 1, 0, m), ev, vs)
<1> DEFINE x == Pl("top", n, 0, m)
           c == Pl("cr", n, 0, m)
           i == Pl("iac", n, 0, m)
           z == Pl("top", n + 1, 0, m)
<1>1. /\ x \in Place /\ x.at = "top" /\ x.n = n /\ x.m = m
      /\ c \in Place /\ c.at = "cr" /\ c.n = n /\ c.m = m
      /\ i \in Place /\ i.at = "iac" /\ i.n = n /\ i.m = m
      /\ z \in Place
  <2> HIDE DEF x, c, i, z
  <2>1. x \in Place /\ x.at = "top" /\ x.n = n /\ x.m = m
    BY PlIsPlace DEF x
  <2>2. c \in Place /\ c.at = "cr" /\ c.n = n /\ c.m = m
    BY PlIsPlace DEF c
  <2>3. i \in Place /\ i.at = "iac" /\ i.n = n /\ i.m = m
    BY PlIsPlace DEF i
  <2>4. z \in Place
    BY PlIsPlace DEF z
  <2> QED BY <2>1, <2>2, <2>3, <2>4
<1>2. Go(x, "CR", c, ev, vs) /\ Go(x, "IAC", i, ev, vs)
  <2>1. GoTop(x, "CR", c, ev) /\ GoTop(x, "IAC", i, ev)
    BY <1>1 DEF GoTop
  <2> QED BY <1>1, <2>1 DEF Go
<1>3. CASE b = "IAC"
  <2>1. Go(i, "IAC", z, ev, vs)
    BY <1>1, <1>3 DEF Go, GoIac
  <2>2. Parsed(x, <<"IAC", "IAC">>, z, ev, vs)
    BY <1>1, <1>2, <2>1, ParsedTwo
  <2> QED BY <1>3, <2>2 DEF Encoded
<1>4. CASE b = "CR"
  <2>1. Go(c, "NUL", z, ev, vs)
    BY <1>1, <1>4 DEF Go, GoCr
  <2>2. Parsed(x, <<"CR", "NUL">>, z, ev, vs)
    BY <1>1, <1>2, <2>1, ParsedTwo
  <2> QED BY <1>4, <2>2 DEF Encoded
<1>5. CASE b = "LF"
  <2>1. Go(c, "LF", z, ev, vs)
    BY <1>1, <1>5 DEF Go, GoCr
  <2>2. Parsed(x, <<"CR", "LF">>, z, ev, vs)
    BY <1>1, <1>2, <2>1, ParsedTwo
  <2> QED BY <1>5, <2>2 DEF Encoded
<1>6. CASE b \notin {"IAC", "CR", "LF"}
  <2>1. Go(x, b, z, ev, vs)
    BY <1>1, <1>6 DEF Go, GoTop, Plain
  <2>2. Parsed(x, <<b>>, z, ev, vs)
    BY <1>1, <2>1, ParsedOne
  <2> QED BY <1>6, <2>2 DEF Encoded
<1> QED BY <1>3, <1>4, <1>5, <1>6

LEMMA VerbParsed ==
  ASSUME NEW verb \in Verb, NEW o, NEW n \in Nat, NEW m \in Nat, NEW ev, NEW vs,
         m < Len(vs), vs[m + 1] = [verb |-> verb, opt |-> o]
  PROVE  Parsed(Pl("top", n, 0, m), <<"IAC", verb, o>>, Pl("top", n, 0, m + 1), ev, vs)
<1> DEFINE x == Pl("top", n, 0, m)
           i == Pl("iac", n, 0, m)
           v == Pl(verb, n, 0, m)
           z == Pl("top", n, 0, m + 1)
<1>1. x \in Place /\ x.at = "top" /\ x.n = n /\ x.m = m
  BY PlIsPlace
<1>2. i \in Place /\ i.at = "iac" /\ i.n = n /\ i.m = m
  BY PlIsPlace
<1>3. v \in Place /\ v.at = verb /\ v.n = n /\ v.m = m
  BY DEF Pl, Place
<1>4. z \in Place
  BY PlIsPlace
<1>5. Go(x, "IAC", i, ev, vs)
  BY <1>1 DEF Go, GoTop
<1>6. Go(i, verb, v, ev, vs)
  BY <1>2 DEF Go, GoIac
<1>7. Go(v, o, z, ev, vs)
  BY <1>3 DEF Go, GoVerb
<1> HIDE DEF x, i, v, z
<1>8. Parsed(x, <<"IAC", verb, o>>, z, ev, vs)
  BY <1>1, <1>2, <1>3, <1>4, <1>5, <1>6, <1>7, ParsedThree
<1> QED BY <1>8 DEF x, z

LEMMA NopParsed ==
  ASSUME NEW n \in Nat, NEW m \in Nat, NEW ev, NEW vs
  PROVE  Parsed(Pl("top", n, 0, m), <<"IAC", "NOP">>, Pl("top", n, 0, m), ev, vs)
<1> DEFINE x == Pl("top", n, 0, m)
           i == Pl("iac", n, 0, m)
<1>1. x \in Place /\ x.at = "top" /\ x.n = n /\ x.m = m
  BY PlIsPlace
<1>2. i \in Place /\ i.at = "iac" /\ i.n = n /\ i.m = m
  BY PlIsPlace
<1>3. Go(x, "IAC", i, ev, vs)
  BY <1>1 DEF Go, GoTop
<1>4. Go(i, "NOP", x, ev, vs)
  BY <1>2 DEF Go, GoIac
<1> HIDE DEF x, i
<1>5. Parsed(x, <<"IAC", "NOP">>, x, ev, vs)
  BY <1>1, <1>2, <1>3, <1>4, ParsedTwo
<1> QED BY <1>5 DEF x

\* telnet_send doubles the IAC in the data of a subnegotiation.
Escaped(d) == [i \in 1 .. Len(d) |-> IF d[i] = "IAC" THEN <<"IAC", "IAC">> ELSE <<d[i]>>]

LEMMA DataParsed ==
  ASSUME NEW d \in Seq(Text), NEW n \in Nat, NEW m \in Nat, NEW ev, NEW vs,
         IsSub(ev, n + 1), ev[n + 1].bytes = d
  PROVE  /\ FlattenSeq(Escaped(d)) \in Seq(Byte)
         /\ Parsed(Pl("sbdata", n, 0, m), FlattenSeq(Escaped(d)), Pl("sbdata", n, Len(d), m),
                   ev, vs)
<1> DEFINE s == Escaped(d)
           At(j) == Pl("sbdata", n, j, m)
<1>1. Len(s) = Len(d) /\ Len(d) \in Nat
  BY DEF Escaped
<1>2. \A j \in Nat : At(j) \in Place
  BY PlIsPlace
<1>3. CASE Len(d) = 0
  <2>1. FlattenSeq(s) = s /\ s = <<>>
    BY <1>1, <1>3 DEF FlattenSeq, Escaped
  <2>2. Parsed(At(0), <<>>, At(0), ev, vs)
    BY <1>2, ParsedNone
  <2>3. <<>> \in Seq(Byte)
    OBVIOUS
  <2> QED BY <1>3, <2>1, <2>2, <2>3
<1>4. CASE Len(d) # 0
  <2>1. PICK f : Flattens(f, s) /\ FlattenSeq(s) = f[Len(s)]
    BY <1>1, <1>4, FlattenSeqStepwise
  <2> DEFINE Good(j) == f[j] \in Seq(Byte) /\ Parsed(At(0), f[j], At(j), ev, vs)
             T == {j \in 1 .. Len(d) : ~Good(j)}
  \* One byte of the data.
  <2>2. ASSUME NEW j \in 1 .. Len(d)
        PROVE  s[j] \in Seq(Byte) /\ Parsed(At(j - 1), s[j], At(j), ev, vs)
    <3> DEFINE x == At(j - 1)
               i == Pl("sbiac", n, j - 1, m)
               z == At(j)
    <3>1. j - 1 \in Nat /\ j \in Nat /\ (j - 1) + 1 = j /\ d[j] \in Text
      BY <1>1
    <3>2. x \in Place /\ x.at = "sbdata" /\ x.n = n /\ x.j = j - 1 /\ x.m = m
      BY <3>1, PlIsPlace, SMTT(30)
    <3>3. i \in Place /\ i.at = "sbiac" /\ i.n = n /\ i.j = j - 1 /\ i.m = m
      BY <3>1, PlIsPlace, SMTT(30)
    <3>4. z \in Place /\ z = Pl("sbdata", n, (j - 1) + 1, m)
      BY <1>2, <3>1
    <3>5. Carries(ev, n + 1, (j - 1) + 1, d[j])
      BY <3>1 DEF Carries
    <3>6. s[j] = IF d[j] = "IAC" THEN <<"IAC", "IAC">> ELSE <<d[j]>>
      BY DEF Escaped
    <3> HIDE DEF s, i, x, z
    <3>7. CASE d[j] = "IAC"
      <4>1. Go(x, "IAC", i, ev, vs)
        BY <3>2 DEF Go, GoSbData, i
      <4>2. Go(i, "IAC", z, ev, vs)
        <5>1. GoSbIac(i, "IAC", z, ev)
          BY <3>3, <3>4, <3>5, <3>7 DEF GoSbIac
        <5> QED BY <3>3, <5>1 DEF Go
      <4>3. Parsed(x, <<"IAC", "IAC">>, z, ev, vs)
        BY <3>2, <3>3, <3>4, <4>1, <4>2, ParsedTwo
      <4>4. <<"IAC", "IAC">> \in Seq(Byte)
        BY DEF Byte, Text
      <4> QED BY <3>6, <3>7, <4>3, <4>4 DEF x, z
    <3>8. CASE d[j] # "IAC"
      <4>1. Go(x, d[j], z, ev, vs)
        <5>1. GoSbData(x, d[j], z, ev)
          BY <3>1, <3>2, <3>4, <3>5, <3>8 DEF GoSbData
        <5> QED BY <3>2, <5>1 DEF Go
      <4>2. Parsed(x, <<d[j]>>, z, ev, vs)
        BY <3>2, <3>4, <4>1, ParsedOne
      <4>3. <<d[j]>> \in Seq(Byte)
        BY <3>1 DEF Byte
      <4> QED BY <3>6, <3>8, <4>2, <4>3 DEF x, z
    <3> QED BY <3>7, <3>8
  <2>3. \A j \in 1 .. Len(d) : f[j] = IF j = 1 THEN s[j] ELSE f[j - 1] \o s[j]
    BY <1>1, <2>1 DEF Flattens
  <2> HIDE DEF s, At
  <2>4. ASSUME T # {} PROVE FALSE
    <3>1. PICK j \in T : \A y \in T : j <= y
      <4>1. T \subseteq Nat
        BY <1>1
      <4> HIDE DEF T
      <4> QED BY <2>4, <4>1, SmallestNat
    <3>2. CASE j = 1
      BY <2>2, <2>3, <3>1, <3>2
    <3>3. CASE j # 1
      <4>1. j - 1 \in 1 .. Len(d) /\ j - 1 \in Nat /\ ~(j <= j - 1) /\ j \in 1 .. Len(d) /\ j \in Nat
        BY <1>1, <3>3
      <4>2. Good(j - 1)
        BY <3>1, <4>1
      <4>3. s[j] \in Seq(Byte) /\ Parsed(At(j - 1), s[j], At(j), ev, vs)
        BY <2>2, <4>1
      <4>4. At(0) \in Place /\ At(j - 1) \in Place /\ At(j) \in Place
        BY <1>2, <4>1
      <4>5. Parsed(At(0), f[j - 1] \o s[j], At(j), ev, vs)
        BY <4>2, <4>3, <4>4, ParsedBoth
      <4>6. f[j] = f[j - 1] \o s[j]
        BY <2>3, <3>3, <4>1
      <4>7. f[j] \in Seq(Byte)
        BY <4>2, <4>3, <4>6, ConcatProperties
      <4> QED BY <3>1, <4>5, <4>6, <4>7
    <3> QED BY <3>2, <3>3
  <2>5. Good(Len(d))
    <3>1. Len(d) \in 1 .. Len(d)
      BY <1>1, <1>4
    <3> QED BY <2>4, <3>1
  <2> QED BY <1>1, <2>1, <2>5 DEF s, At
<1> QED BY <1>3, <1>4

\* A subnegotiation, ended as it should be or given up for a command.
LEMMA SubParsed ==
  ASSUME NEW o \in Option, NEW d \in Seq(Text), NEW n \in Nat, NEW m \in Nat, NEW ev, NEW vs,
         IsSub(ev, n + 1), ev[n + 1] = [opt |-> o, bytes |-> d], NEW end \in {"SE", "NOP"}
  PROVE  LET sent == (<<"IAC", "SB", o>> \o FlattenSeq(Escaped(d))) \o <<"IAC", end>> IN
         /\ sent \in Seq(Byte)
         /\ Parsed(Pl("top", n, 0, m), sent, Pl("top", n + 1, 0, m), ev, vs)
<1> DEFINE x == Pl("top", n, 0, m)
           i == Pl("iac", n, 0, m)
           b == Pl("sb", n, 0, m)
           y == Pl("sbdata", n, 0, m)
           l == Pl("sbdata", n, Len(d), m)
           q == Pl("sbiac", n, Len(d), m)
           z == Pl("top", n + 1, 0, m)
           flat == FlattenSeq(Escaped(d))
<1>1. Len(d) \in Nat
  OBVIOUS
<1>2. x \in Place /\ x.at = "top" /\ x.n = n /\ x.m = m
  BY PlIsPlace
<1>3. i \in Place /\ i.at = "iac" /\ i.n = n /\ i.m = m
  BY PlIsPlace
<1>4. b \in Place /\ b.at = "sb" /\ b.n = n /\ b.m = m
  BY PlIsPlace
<1>5. y \in Place
  BY PlIsPlace
<1>6. l \in Place /\ l.at = "sbdata" /\ l.n = n /\ l.j = Len(d) /\ l.m = m
  BY <1>1, PlIsPlace
<1>7. q \in Place /\ q.at = "sbiac" /\ q.n = n /\ q.j = Len(d) /\ q.m = m
  BY <1>1, PlIsPlace
<1>8. z \in Place
  BY PlIsPlace
<1>9. Go(x, "IAC", i, ev, vs)
  BY <1>2 DEF Go, GoTop
<1>10. Go(i, "SB", b, ev, vs)
  BY <1>3 DEF Go, GoIac
<1>11. Go(b, o, y, ev, vs)
  BY <1>4 DEF Go, GoSb
<1>12. Go(l, "IAC", q, ev, vs)
  BY <1>6 DEF Go, GoSbData
<1>13. Go(q, end, z, ev, vs)
  BY <1>7 DEF Go, GoSbIac
<1>14. flat \in Seq(Byte) /\ Parsed(y, flat, l, ev, vs)
  BY DataParsed
<1>15. <<"IAC", "SB", o>> \in Seq(Byte) /\ <<"IAC", end>> \in Seq(Byte)
  BY DEF Byte, Text
<1> HIDE DEF x, i, b, y, l, q, z, flat
<1>16. Parsed(x, <<"IAC", "SB", o>>, y, ev, vs)
  BY <1>2, <1>3, <1>4, <1>5, <1>9, <1>10, <1>11, ParsedThree
<1>17. Parsed(l, <<"IAC", end>>, z, ev, vs)
  BY <1>6, <1>7, <1>8, <1>12, <1>13, ParsedTwo
<1> DEFINE s1 == <<"IAC", "SB", o>>
           s2 == <<"IAC", end>>
<1> HIDE DEF s1, s2
<1>18. s1 \in Seq(Byte) /\ s2 \in Seq(Byte) /\ Parsed(x, s1, y, ev, vs) /\ Parsed(l, s2, z, ev, vs)
  BY <1>15, <1>16, <1>17 DEF s1, s2
<1>19. s1 \o flat \in Seq(Byte) /\ Parsed(x, s1 \o flat, l, ev, vs)
  BY <1>2, <1>5, <1>6, <1>14, <1>18, ParsedBoth, ConcatProperties
<1>20. (s1 \o flat) \o s2 \in Seq(Byte) /\ Parsed(x, (s1 \o flat) \o s2, z, ev, vs)
  BY <1>2, <1>6, <1>8, <1>18, <1>19, ParsedBoth, ConcatProperties
<1> QED BY <1>20 DEF s1, s2, x, z, flat

-----------------------------------------------------------------------------
(* What an engine makes of the bytes.                                      *)

Word(b) == [opt |-> "text", bytes |-> <<b>>]

LEMMA WordsType ==
  ASSUME NEW s \in Seq(Byte)
  PROVE  /\ Words(s) \in Seq(Event)
         /\ Len(Words(s)) = Len(s)
         /\ \A i \in 1 .. Len(s) : Words(s)[i] = Word(s[i])
<1>1. Len(s) \in Nat /\ \A i \in 1 .. Len(s) : s[i] \in Byte
  BY LenProperties, ElementOfSeq
<1>2. \A i \in 1 .. Len(s) : Word(s[i]) \in Event
  BY <1>1 DEF Word, Event
<1>3. Words(s) = [i \in 1 .. Len(s) |-> Word(s[i])]
  BY DEF Words, Word
<1> QED BY <1>1, <1>2, <1>3

LEMMA WordsAppend ==
  ASSUME NEW s \in Seq(Byte), NEW b \in Byte
  PROVE  /\ Words(Append(s, b)) = Append(Words(s), Word(b))
         /\ Word(b) \in Event
<1> DEFINE t == Append(s, b)
           u == Append(Words(s), Word(b))
<1>1. Word(b) \in Event
  BY DEF Word, Event
<1>2. /\ t \in Seq(Byte) /\ Len(t) = Len(s) + 1 /\ Len(s) \in Nat
      /\ \A i \in 1 .. Len(t) : t[i] = IF i = Len(s) + 1 THEN b ELSE s[i]
  OBVIOUS
<1>3. Words(s) \in Seq(Event) /\ Len(Words(s)) = Len(s)
  BY WordsType
<1>4. /\ u \in Seq(Event) /\ Len(u) = Len(s) + 1
      /\ \A i \in 1 .. Len(u) : u[i] = IF i = Len(s) + 1 THEN Word(b) ELSE Words(s)[i]
  BY <1>1, <1>2, <1>3, AppendProperties
<1> HIDE DEF t, u
<1>5. Words(t) \in Seq(Event) /\ Len(Words(t)) = Len(t)
  BY <1>2, WordsType
<1>6. ASSUME NEW i \in 1 .. Len(Words(t)) PROVE Words(t)[i] = u[i]
  <2>1. Words(t)[i] = Word(t[i])
    BY <1>2, <1>5, WordsType
  <2>2. i # Len(s) + 1 => i \in 1 .. Len(s)
    BY <1>2, <1>5
  <2>3. i # Len(s) + 1 => Words(s)[i] = Word(s[i])
    BY <2>2, WordsType
  <2> QED BY <1>2, <1>4, <1>5, <2>1, <2>3
<1>7. Words(t) = u
  BY <1>2, <1>4, <1>5, <1>6, SeqEqual
<1> QED BY <1>1, <1>7 DEF t, u

LEMMA WordsOfNone == Words(<<>>) = <<>>
  BY DEF Words

LEMMA WordsOfOne ==
  ASSUME NEW b
  PROVE  Words(<<b>>) = <<Word(b)>>
<1>1. Len(<<b>>) = 1 /\ <<b>>[1] = b
  OBVIOUS
<1>2. Words(<<b>>) = [i \in 1 .. 1 |-> Word(b)]
  BY <1>1 DEF Words, Word
<1> QED BY <1>2

\* What is one longer ends with one more.
LEMMA NextEvent ==
  ASSUME NEW S, NEW ev \in Seq(S), NEW n \in Nat, n + 1 <= Len(ev)
  PROVE  SubSeq(ev, 1, n + 1) = Append(SubSeq(ev, 1, n), ev[n + 1])
<1> DEFINE s == SubSeq(ev, 1, n)
           t == SubSeq(ev, 1, n + 1)
           u == Append(s, ev[n + 1])
<1>1. Len(ev) \in Nat /\ \A i \in 1 .. Len(ev) : ev[i] \in S
  BY LenProperties, ElementOfSeq
<1>2. s \in Seq(S) /\ Len(s) = n /\ \A i \in 1 .. n : s[i] = ev[i]
  BY <1>1, SubSeqProperties
<1>3. t \in Seq(S) /\ Len(t) = n + 1 /\ \A i \in 1 .. n + 1 : t[i] = ev[i]
  BY <1>1, SubSeqProperties
<1>4. ev[n + 1] \in S
  BY <1>1
<1> HIDE DEF s, t
<1>5. u \in Seq(S) /\ Len(u) = n + 1 /\ \A i \in 1 .. n + 1 : u[i] = ev[i]
  BY <1>2, <1>4, AppendProperties
<1> HIDE DEF u
<1>6. t = u
  BY <1>3, <1>5, SeqEqual
<1> QED BY <1>6 DEF s, t, u

\* What is handed on, and what of the piece at hand will be.
Handed(e) == e.got \o Words(e.run)

StateAt(at) == CASE at = "top" -> "DATA"
                 [] at = "cr" -> "EOL"
                 [] at = "iac" -> "IAC"
                 [] at = "sb" -> "SB"
                 [] at = "sbdata" -> "SB_DATA"
                 [] at = "sbiac" -> "SB_DATA_IAC"
                 [] OTHER -> at

\* The engine is at place x of what ev was made into.
Matches(e, x, ev) ==
  /\ e.state = StateAt(x.at)
  /\ e.got \in Seq(Event) /\ e.run \in Seq(Byte)
  /\ x.n <= Len(ev)
  /\ Handed(e) = SubSeq(ev, 1, x.n)
  /\ x.at # "top" => e.run = <<>>
  /\ x.at \in {"sbdata", "sbiac"} =>
       /\ IsSub(ev, x.n + 1)
       /\ e.sb_telopt = ev[x.n + 1].opt
       /\ x.j <= Len(ev[x.n + 1].bytes)
       /\ e.buffer = SubSeq(ev[x.n + 1].bytes, 1, x.j)

\* A step that leaves aside options and what is sent.
Sober(e, f) ==
  /\ DOMAIN f = Fields
  /\ f.q = e.q
  /\ f.sent = e.sent
  /\ f.warned \in {e.warned, e.warned \cup {"unexpected"}}

\* The fields after each small step.
LEMMA ToFields ==
  ASSUME NEW e, DOMAIN e = Fields, NEW x
  PROVE  /\ Sober(e, To(e, x)) /\ DOMAIN To(e, x) = Fields
         /\ To(e, x).state = x /\ To(e, x).got = e.got
         /\ To(e, x).run = e.run /\ To(e, x).buffer = e.buffer
         /\ To(e, x).sb_telopt = e.sb_telopt
  BY DEF Sober, To, Fields

LEMMA HandFields ==
  ASSUME NEW e, DOMAIN e = Fields, NEW x
  PROVE  /\ Sober(e, Hand(e, x)) /\ DOMAIN Hand(e, x) = Fields
         /\ Hand(e, x).state = e.state
         /\ Hand(e, x).got = e.got \o Words(x) /\ Hand(e, x).run = e.run
  BY DEF Sober, Hand, Fields

LEMMA RunFields ==
  ASSUME NEW e, DOMAIN e = Fields, NEW x
  PROVE  /\ Sober(e, [e EXCEPT !.run = x]) /\ DOMAIN [e EXCEPT !.run = x] = Fields
         /\ [e EXCEPT !.run = x].state = e.state
         /\ [e EXCEPT !.run = x].got = e.got /\ [e EXCEPT !.run = x].run = x
  BY DEF Sober, Fields

LEMMA SoberBoth ==
  ASSUME NEW e, NEW f, NEW g, Sober(e, f), Sober(f, g)
  PROVE  Sober(e, g)
  BY DEF Sober

\* A run that ends is handed on.
LEMMA HandRunFields ==
  ASSUME NEW e, DOMAIN e = Fields, e.got \in Seq(Event), e.run \in Seq(Byte)
  PROVE  /\ Sober(e, HandRun(e)) /\ HandRun(e).state = e.state
         /\ HandRun(e).got = Handed(e) /\ HandRun(e).run = <<>>
         /\ HandRun(e).got \in Seq(Event) /\ Handed(HandRun(e)) = Handed(e)
<1>1. Sober(e, HandRun(e)) /\ HandRun(e).state = e.state
      /\ HandRun(e).got = Handed(e) /\ HandRun(e).run = <<>>
  BY DEF Sober, HandRun, Hand, Handed, Fields
<1>2. Handed(e) \in Seq(Event)
  BY WordsType, ConcatProperties DEF Handed
<1>3. Handed(HandRun(e)) = Handed(e)
  BY <1>1, <1>2, WordsOfNone, ConcatEmptySeq DEF Handed
<1> QED BY <1>1, <1>2, <1>3

\* A byte more of the run, and a word handed on when there is none.
LEMMA OneMoreByte ==
  ASSUME NEW got \in Seq(Event), NEW run \in Seq(Byte), NEW b \in Byte
  PROVE  got \o Words(Append(run, b)) = Append(got \o Words(run), Word(b))
<1> DEFINE w == Words(run)
           c == Word(b)
<1>1. w \in Seq(Event) /\ c \in Event /\ Words(Append(run, b)) = Append(w, c)
  BY WordsType, WordsAppend
<1> HIDE DEF w, c
<1>2. <<c>> \in Seq(Event) /\ Append(w, c) = w \o <<c>>
  BY <1>1
<1>3. got \o w \in Seq(Event) /\ Append(got \o w, c) = (got \o w) \o <<c>>
  BY <1>1
<1>4. got \o Append(w, c) = Append(got \o w, c)
  BY <1>1, <1>2, <1>3, ConcatAssociative
<1> QED BY <1>1, <1>4 DEF w, c

LEMMA OneMoreWord ==
  ASSUME NEW got \in Seq(Event), NEW b \in Byte
  PROVE  /\ got \o Words(<<b>>) = Append(got, Word(b))
         /\ Word(b) \in Event
         /\ Append(got, Word(b)) \in Seq(Event)
<1> DEFINE c == Word(b)
<1>1. c \in Event
  BY DEF Word, Event
<1> HIDE DEF c
<1>2. got \o <<c>> = Append(got, c) /\ Append(got, c) \in Seq(Event)
  BY <1>1
<1> QED BY <1>1, <1>2, WordsOfOne DEF c

LEMMA SubSeqTypes ==
  ASSUME NEW ev \in Seq(Event), NEW n \in Nat, n <= Len(ev)
  PROVE  SubSeq(ev, 1, n) \in Seq(Event)
<1>1. Len(ev) \in Nat /\ \A i \in 1 .. Len(ev) : ev[i] \in Event
  BY LenProperties, ElementOfSeq
<1> QED BY <1>1, SubSeqProperties

LEMMA ByteInData ==
  ASSUME NEW e, DOMAIN e = Fields, NEW ev \in Seq(Event), NEW x \in Place, NEW y, NEW b,
         x.at = "top", Matches(e, x, ev), GoTop(x, b, y, ev), ~ReceiveBinary(e)
  PROVE  Sober(e, InData(e, b)) /\ Matches(InData(e, b), y, ev)
<1> DEFINE g == HandRun(e)
<1>1. x.n \in Nat /\ x.m \in Nat /\ x.n <= Len(ev)
  BY DEF Place, Matches
<1>2. /\ e.state = "DATA" /\ e.got \in Seq(Event) /\ e.run \in Seq(Byte)
      /\ Handed(e) = SubSeq(ev, 1, x.n)
  BY DEF Matches, StateAt
<1>3. /\ Sober(e, g) /\ g.got \in Seq(Event) /\ g.run = <<>> /\ Handed(g) = Handed(e)
      /\ DOMAIN g = Fields
  BY <1>2, HandRunFields DEF Sober
<1> HIDE DEF g
\* The run ends, and the engine is somewhere else.
<1>4. ASSUME NEW at \in {"cr", "iac"}, y = Pl(at, x.n, 0, x.m)
      PROVE  Sober(e, To(g, StateAt(at))) /\ Matches(To(g, StateAt(at)), y, ev)
  <2> DEFINE f == To(g, StateAt(at))
  <2>1. /\ Sober(g, f) /\ f.state = StateAt(at) /\ f.got = g.got /\ f.run = g.run
    BY <1>3, ToFields
  <2> HIDE DEF f
  <2>2. y.at = at /\ y.n = x.n
    BY <1>4 DEF Pl
  <2>3. Handed(f) = SubSeq(ev, 1, y.n)
    BY <1>2, <1>3, <2>1, <2>2 DEF Handed
  <2>4. f.run \in Seq(Byte)
    BY <1>3, <2>1
  <2>5. Matches(f, y, ev)
    BY <1>1, <1>3, <1>4, <2>1, <2>2, <2>3, <2>4 DEF Matches
  <2> QED BY <1>3, <2>1, <2>5, SoberBoth DEF f
<1>5. CASE b = "CR" /\ y = Pl("cr", x.n, 0, x.m)
  <2>1. InData(e, b) = To(g, StateAt("cr"))
    BY <1>5 DEF InData, StateAt, g
  <2> QED BY <1>4, <1>5, <2>1
<1>6. CASE b = "IAC" /\ y = Pl("iac", x.n, 0, x.m)
  <2>1. InData(e, b) = To(g, StateAt("iac"))
    BY <1>6 DEF InData, StateAt, g
  <2> QED BY <1>4, <1>6, <2>1
<1>7. CASE b \in Plain /\ IsText(ev, x.n + 1, b) /\ y = Pl("top", x.n + 1, 0, x.m)
  <2> DEFINE f == [e EXCEPT !.run = Append(e.run, b)]
  <2>1. InData(e, b) = f
    BY <1>7 DEF InData, Plain
  <2>2. Sober(e, f) /\ f.state = "DATA" /\ f.got = e.got /\ f.run = Append(e.run, b)
    BY <1>2, RunFields
  <2> HIDE DEF f
  <2>3. b \in Byte /\ x.n + 1 <= Len(ev) /\ ev[x.n + 1] = Word(b)
    BY <1>7 DEF Plain, Byte, IsText, Word
  <2>4. y.at = "top" /\ y.n = x.n + 1
    BY <1>7 DEF Pl
  <2>5. f.run \in Seq(Byte)
    BY <1>2, <2>2, <2>3
  <2>6. Handed(f) = Append(Handed(e), Word(b))
    BY <1>2, <2>2, <2>3, OneMoreByte DEF Handed
  <2>7. Handed(f) = SubSeq(ev, 1, y.n)
    BY <1>1, <1>2, <2>3, <2>4, <2>6, NextEvent
  <2>8. Matches(f, y, ev)
    BY <1>2, <2>2, <2>3, <2>4, <2>5, <2>7 DEF Matches, StateAt
  <2> QED BY <2>1, <2>2, <2>8
<1> QED BY <1>5, <1>6, <1>7 DEF GoTop

LEMMA ByteInEol ==
  ASSUME NEW e, DOMAIN e = Fields, NEW ev \in Seq(Event), NEW x \in Place, NEW y, NEW b,
         x.at = "cr", Matches(e, x, ev), GoCr(x, b, y, ev)
  PROVE  Sober(e, InEol(e, b)) /\ Matches(InEol(e, b), y, ev)
<1>1. x.n \in Nat /\ x.n <= Len(ev)
  BY DEF Place, Matches
<1>2. e.got \in Seq(Event) /\ e.run \in Seq(Byte) /\ e.run = <<>> /\ Handed(e) = SubSeq(ev, 1, x.n)
  BY DEF Matches
<1>3. Handed(e) = e.got
  BY <1>2, WordsOfNone, ConcatEmptySeq DEF Handed
<1>4. y.at = "top" /\ y.n = x.n + 1
  BY DEF GoCr, Pl
<1> DEFINE f == InEol(e, b)
<1>5. CASE b = "NUL" /\ IsText(ev, x.n + 1, "CR")
  <2> DEFINE g == Hand(e, <<"CR">>)
             h == [g EXCEPT !.run = <<>>]
  <2>1. f = To(h, "DATA")
    BY <1>5 DEF InEol
  <2>2. Sober(e, g) /\ g.got = e.got \o Words(<<"CR">>) /\ DOMAIN g = Fields
    BY HandFields DEF Sober
  <2> HIDE DEF g
  <2>3. Sober(g, h) /\ h.got = g.got /\ h.run = <<>> /\ DOMAIN h = Fields
    BY <2>2, RunFields DEF Sober
  <2> HIDE DEF h
  <2>4. Sober(h, f) /\ f.state = "DATA" /\ f.got = h.got /\ f.run = h.run
    BY <2>1, <2>3, ToFields
  <2> HIDE DEF f
  <2>5. x.n + 1 <= Len(ev) /\ ev[x.n + 1] = Word("CR") /\ "CR" \in Byte
    BY <1>5 DEF IsText, Word, Byte, Text
  <2>6. f.got = Append(e.got, Word("CR")) /\ f.got \in Seq(Event)
    BY <1>2, <2>2, <2>3, <2>4, <2>5, OneMoreWord
  <2>7. f.got \in Seq(Event) /\ Handed(f) = f.got
    BY <1>2, <2>3, <2>4, <2>6, WordsOfNone, ConcatEmptySeq DEF Handed
  <2>8. Handed(f) = SubSeq(ev, 1, y.n)
    BY <1>1, <1>2, <1>3, <1>4, <2>5, <2>6, <2>7, NextEvent
  <2>9. Matches(f, y, ev)
    BY <1>4, <2>3, <2>4, <2>5, <2>7, <2>8 DEF Matches, StateAt
  <2>10. Sober(e, f)
    BY <2>2, <2>3, <2>4, SoberBoth
  <2> QED BY <2>9, <2>10 DEF f
<1>6. CASE b = "LF" /\ IsText(ev, x.n + 1, "LF")
  <2> DEFINE h == [e EXCEPT !.run = <<"LF">>]
  <2>1. f = To(h, "DATA")
    BY <1>6 DEF InEol
  <2>2. Sober(e, h) /\ h.got = e.got /\ h.run = <<"LF">> /\ DOMAIN h = Fields
    BY RunFields DEF Sober
  <2> HIDE DEF h
  <2>3. Sober(h, f) /\ f.state = "DATA" /\ f.got = h.got /\ f.run = h.run
    BY <2>1, <2>2, ToFields
  <2> HIDE DEF f
  <2>4. x.n + 1 <= Len(ev) /\ ev[x.n + 1] = Word("LF") /\ "LF" \in Byte
    BY <1>6 DEF IsText, Word, Byte, Text
  <2>5. Handed(f) = Append(e.got, Word("LF"))
    BY <1>2, <2>2, <2>3, <2>4, OneMoreWord DEF Handed
  <2>6. Handed(f) = SubSeq(ev, 1, y.n)
    BY <1>1, <1>2, <1>3, <1>4, <2>4, <2>5, NextEvent
  <2>7. f.run \in Seq(Byte)
    BY <2>2, <2>3, <2>4
  <2>8. Matches(f, y, ev)
    BY <1>2, <1>4, <2>2, <2>3, <2>4, <2>6, <2>7 DEF Matches, StateAt
  <2>9. Sober(e, f)
    BY <2>2, <2>3, SoberBoth
  <2> QED BY <2>8, <2>9 DEF f
<1> QED BY <1>5, <1>6 DEF GoCr

LEMMA ByteInIac ==
  ASSUME NEW e, DOMAIN e = Fields, NEW ev \in Seq(Event), NEW x \in Place, NEW y, NEW b,
         x.at = "iac", Matches(e, x, ev), GoIac(x, b, y, ev)
  PROVE  Sober(e, InIac(e, b)) /\ Matches(InIac(e, b), y, ev)
<1>1. x.n \in Nat /\ x.n <= Len(ev)
  BY DEF Place, Matches
<1>2. e.got \in Seq(Event) /\ e.run \in Seq(Byte) /\ e.run = <<>> /\ Handed(e) = SubSeq(ev, 1, x.n)
  BY DEF Matches
<1>3. Handed(e) = e.got
  BY <1>2, WordsOfNone, ConcatEmptySeq DEF Handed
<1>4. CASE b = "IAC" /\ IsText(ev, x.n + 1, b) /\ y = Pl("top", x.n + 1, 0, x.m)
  <2> DEFINE g == Hand(e, <<"IAC">>)
             f == InIac(e, b)
  <2>1. f = To(g, "DATA")
    BY <1>4 DEF InIac, Verb
  <2>2. Sober(e, g) /\ g.got = e.got \o Words(<<"IAC">>) /\ g.run = e.run /\ DOMAIN g = Fields
    BY HandFields DEF Sober
  <2> HIDE DEF g
  <2>3. Sober(g, f) /\ f.state = "DATA" /\ f.got = g.got /\ f.run = g.run
    BY <2>1, <2>2, ToFields
  <2> HIDE DEF f
  <2>4. y.at = "top" /\ y.n = x.n + 1
    BY <1>4 DEF Pl
  <2>5. x.n + 1 <= Len(ev) /\ ev[x.n + 1] = Word("IAC") /\ "IAC" \in Byte
    BY <1>4 DEF IsText, Word, Byte, Text
  <2>6. f.got = Append(e.got, Word("IAC")) /\ f.got \in Seq(Event)
    BY <1>2, <2>2, <2>3, <2>5, OneMoreWord
  <2>7. f.got \in Seq(Event) /\ f.run = <<>> /\ Handed(f) = f.got
    BY <1>2, <2>2, <2>3, <2>6, WordsOfNone, ConcatEmptySeq DEF Handed
  <2>8. Handed(f) = SubSeq(ev, 1, y.n)
    BY <1>1, <1>2, <1>3, <2>4, <2>5, <2>6, <2>7, NextEvent
  <2>9. Matches(f, y, ev)
    BY <2>3, <2>4, <2>5, <2>7, <2>8 DEF Matches, StateAt
  <2>10. Sober(e, f)
    BY <2>2, <2>3, SoberBoth
  <2> QED BY <2>9, <2>10 DEF f
\* Anything else changes the state only.
<1>5. ASSUME NEW at, at \notin {"sbdata", "sbiac"}, y = Pl(at, x.n, 0, x.m),
             InIac(e, b) = To(e, StateAt(at))
      PROVE  Sober(e, InIac(e, b)) /\ Matches(InIac(e, b), y, ev)
  <2> DEFINE f == To(e, StateAt(at))
  <2>1. Sober(e, f) /\ f.state = StateAt(at) /\ f.got = e.got /\ f.run = e.run
    BY ToFields
  <2> HIDE DEF f
  <2>2. y.at = at /\ y.n = x.n
    BY <1>5 DEF Pl
  <2>3. Handed(f) = SubSeq(ev, 1, y.n) /\ f.run \in Seq(Byte)
    BY <1>2, <2>1, <2>2 DEF Handed
  <2>4. Matches(f, y, ev)
    BY <1>1, <1>2, <1>5, <2>1, <2>2, <2>3 DEF Matches
  <2> QED BY <1>5, <2>1, <2>4 DEF f
<1>6. CASE b = "NOP" /\ y = Pl("top", x.n, 0, x.m)
  <2>1. InIac(e, b) = To(e, StateAt("top"))
    BY <1>6 DEF InIac, Verb, StateAt
  <2> QED BY <1>5, <1>6, <2>1
<1>7. CASE b \in Verb /\ y = Pl(b, x.n, 0, x.m)
  <2>1. InIac(e, b) = To(e, StateAt(b)) /\ b \notin {"sbdata", "sbiac"}
    BY <1>7 DEF InIac, Verb, StateAt
  <2> QED BY <1>5, <1>7, <2>1
<1>8. CASE b = "SB" /\ y = Pl("sb", x.n, 0, x.m)
  <2>1. InIac(e, b) = To(e, StateAt("sb"))
    BY <1>8 DEF InIac, StateAt
  <2> QED BY <1>5, <1>8, <2>1
<1> QED BY <1>4, <1>6, <1>7, <1>8 DEF GoIac

LEMMA EventFields ==
  ASSUME NEW ev \in Seq(Event), NEW n \in Nat, n + 1 <= Len(ev)
  PROVE  /\ ev[n + 1] \in Event
         /\ ev[n + 1].bytes \in Seq(Byte)
         /\ ev[n + 1] = [opt |-> ev[n + 1].opt, bytes |-> ev[n + 1].bytes]
<1>1. Len(ev) \in Nat /\ n + 1 \in 1 .. Len(ev)
  BY LenProperties
<1>2. ev[n + 1] \in Event
  BY <1>1, ElementOfSeq
<1> DEFINE v == ev[n + 1]
<1> HIDE DEF v
<1>3. v \in Event
  BY <1>2 DEF v
<1>4. v.bytes \in Seq(Byte) /\ v = [opt |-> v.opt, bytes |-> v.bytes]
  BY <1>3 DEF Event
<1> QED BY <1>3, <1>4 DEF v

LEMMA ByteInSb ==
  ASSUME NEW e, DOMAIN e = Fields, NEW ev \in Seq(Event), NEW x \in Place, NEW y, NEW b,
         x.at = "sb", Matches(e, x, ev), GoSb(x, b, y, ev)
  PROVE  Sober(e, InSb(e, b)) /\ Matches(InSb(e, b), y, ev)
<1> DEFINE f == InSb(e, b)
<1>1. x.n \in Nat /\ x.n + 1 <= Len(ev)
  BY DEF Place, GoSb, IsSub
<1>2. Sober(e, f) /\ f.state = "SB_DATA" /\ f.got = e.got /\ f.run = e.run
      /\ f.sb_telopt = b /\ f.buffer = <<>>
  BY DEF InSb, Sober, Fields
<1> HIDE DEF f
<1>3. y.at = "sbdata" /\ y.n = x.n /\ y.j = 0
  BY DEF GoSb, Pl
<1>4. ev[x.n + 1].bytes \in Seq(Byte)
  BY <1>1, EventFields
<1>5. 0 <= Len(ev[x.n + 1].bytes) /\ SubSeq(ev[x.n + 1].bytes, 1, 0) = <<>>
  BY <1>4, SubSeqEmpty, LenProperties
<1>6. Handed(f) = Handed(e)
  BY <1>2 DEF Handed
<1>7. IsSub(ev, x.n + 1) /\ ev[x.n + 1].opt = b
  BY DEF GoSb
<1>8. /\ e.got \in Seq(Event) /\ e.run \in Seq(Byte) /\ e.run = <<>>
      /\ Handed(e) = SubSeq(ev, 1, x.n) /\ x.n <= Len(ev)
  BY DEF Matches
<1>9. Matches(f, y, ev)
  BY <1>2, <1>3, <1>5, <1>6, <1>7, <1>8 DEF Matches, StateAt
<1> QED BY <1>2, <1>9 DEF f

\* There is room for a byte of what fits, as long as it is not the last.
LEMMA ByteBuffered ==
  ASSUME NEW e, NEW p, EngineOK(e, p), NEW ev \in Seq(Event), NEW x \in Place, NEW b,
         x.at \in {"sbdata", "sbiac"}, Matches(e, x, ev), Carries(ev, x.n + 1, x.j + 1, b)
  PROVE  /\ Sober(e, BufferByte(e, b))
         /\ Matches(BufferByte(e, b), Pl("sbdata", x.n, x.j + 1, x.m), ev)
<1> DEFINE f == BufferByte(e, b)
           y == Pl("sbdata", x.n, x.j + 1, x.m)
           bytes == ev[x.n + 1].bytes
<1>1. x.n \in Nat /\ x.j \in Nat /\ x.m \in Nat /\ x.n + 1 <= Len(ev)
  BY DEF Place, Carries, IsSub
<1>2. bytes \in Seq(Byte) /\ Len(bytes) \in Nat
  BY <1>1, EventFields, LenProperties
<1>3. /\ IsSub(ev, x.n + 1) /\ e.sb_telopt = ev[x.n + 1].opt
      /\ e.buffer = SubSeq(bytes, 1, x.j) /\ e.run = <<>>
      /\ e.got \in Seq(Event) /\ e.run \in Seq(Byte)
      /\ Handed(e) = SubSeq(ev, 1, x.n) /\ x.n <= Len(ev)
  BY DEF Matches
<1>4. Len(bytes) <= Largest /\ x.j + 1 <= Len(bytes) /\ bytes[x.j + 1] = b
  BY DEF Carries, IsSub
<1>5. y.at = "sbdata" /\ y.n = x.n /\ y.j = x.j + 1
  BY DEF Pl
<1> HIDE DEF bytes, f, y
<1>6. Len(e.buffer) = x.j
  <2>1. \A i \in 1 .. x.j : bytes[i] \in Byte
    BY <1>1, <1>2, <1>4, ElementOfSeq
  <2> QED BY <1>1, <1>3, <2>1, SubSeqProperties
<1>7. ~(Full(e) /\ e.level = Len(Sizes))
  <2>1. Largest \in Nat
    BY SizesAssumption DEF Largest
  <2>2. x.j < Largest
    BY <1>1, <1>2, <1>4, <2>1
  <2>3. e.level = Len(Sizes) => Sizes[e.level] = Largest
    BY DEF Largest
  <2> QED BY <1>1, <1>6, <2>1, <2>2, <2>3 DEF Full
<1>8. DOMAIN e = Fields
  BY DEF EngineOK
<1>9. /\ Sober(e, f) /\ f.state = "SB_DATA" /\ f.got = e.got /\ f.run = e.run
      /\ f.sb_telopt = e.sb_telopt /\ f.buffer = Append(e.buffer, b)
  BY <1>7, <1>8 DEF BufferByte, Sober, Fields, f
<1>10. SubSeq(bytes, 1, x.j + 1) = Append(SubSeq(bytes, 1, x.j), bytes[x.j + 1])
  BY <1>1, <1>2, <1>4, NextEvent
<1>11. f.buffer = SubSeq(bytes, 1, y.j)
  BY <1>3, <1>4, <1>5, <1>9, <1>10
<1>12. Handed(f) = SubSeq(ev, 1, y.n)
  BY <1>3, <1>5, <1>9 DEF Handed
<1>13. Matches(f, y, ev)
  BY <1>3, <1>4, <1>5, <1>9, <1>11, <1>12 DEF Matches, StateAt, bytes
<1> QED BY <1>9, <1>13 DEF f, y

LEMMA ByteInSbData ==
  ASSUME NEW e, NEW p, EngineOK(e, p), NEW ev \in Seq(Event), NEW x \in Place, NEW y, NEW b,
         x.at = "sbdata", Matches(e, x, ev), GoSbData(x, b, y, ev)
  PROVE  Sober(e, InSbData(e, b)) /\ Matches(InSbData(e, b), y, ev)
<1>1. CASE b = "IAC" /\ y = Pl("sbiac", x.n, x.j, x.m)
  <2> DEFINE f == To(e, "SB_DATA_IAC")
  <2>1. Sober(e, f) /\ f.state = "SB_DATA_IAC" /\ f.got = e.got /\ f.run = e.run
        /\ f.buffer = e.buffer /\ f.sb_telopt = e.sb_telopt
    BY ToFields DEF EngineOK
  <2> HIDE DEF f
  <2>2. y.at = "sbiac" /\ y.n = x.n /\ y.j = x.j
    BY <1>1 DEF Pl
  <2>3. Handed(f) = Handed(e)
    BY <2>1 DEF Handed
  <2>4. Matches(f, y, ev)
    BY <2>1, <2>2, <2>3 DEF Matches, StateAt
  <2> QED BY <1>1, <2>1, <2>4 DEF InSbData, f
<1>2. CASE b \in Text \ {"IAC"} /\ Carries(ev, x.n + 1, x.j + 1, b)
           /\ y = Pl("sbdata", x.n, x.j + 1, x.m)
  <2>1. b # "IAC" /\ b # "WILL"
    BY <1>2, BytesAssumption DEF Text, Verb
  <2>2. InSbData(e, b) = BufferByte(e, b)
    BY <2>1 DEF InSbData
  <2> QED BY <1>2, <2>2, ByteBuffered
<1> QED BY <1>1, <1>2 DEF GoSbData

LEMMA ByteInSbIac ==
  ASSUME NEW e, NEW p, EngineOK(e, p), NEW ev \in Seq(Event), NEW x \in Place, NEW y, NEW b,
         x.at = "sbiac", Matches(e, x, ev), GoSbIac(x, b, y, ev)
  PROVE  Sober(e, InSbDataIac(e, b)) /\ Matches(InSbDataIac(e, b), y, ev)
<1>1. CASE b = "IAC" /\ Carries(ev, x.n + 1, x.j + 1, b) /\ y = Pl("sbdata", x.n, x.j + 1, x.m)
  BY <1>1, ByteBuffered DEF InSbDataIac
<1>2. CASE /\ b \in {"SE", "NOP"} /\ IsSub(ev, x.n + 1) /\ x.j = Len(ev[x.n + 1].bytes)
           /\ y = Pl("top", x.n + 1, 0, x.m)
  <2> DEFINE g == Subnegotiate(e)
             h == Warn(g, "unexpected")
             f == InSbDataIac(e, b)
             v == ev[x.n + 1]
  <2>1. x.n \in Nat /\ x.n + 1 <= Len(ev)
    BY <1>2 DEF Place, IsSub
  <2>2. v \in Event /\ v.bytes \in Seq(Byte) /\ v = [opt |-> v.opt, bytes |-> v.bytes]
    BY <2>1, EventFields
  <2>3. /\ e.sb_telopt = v.opt /\ e.buffer = SubSeq(v.bytes, 1, x.j) /\ e.run = <<>>
        /\ e.got \in Seq(Event) /\ e.run \in Seq(Byte) /\ Handed(e) = SubSeq(ev, 1, x.n)
    BY DEF Matches
  <2>4. y.at = "top" /\ y.n = x.n + 1
    BY <1>2 DEF Pl
  <2>5. DOMAIN e = Fields
    BY DEF EngineOK
  <2>6. Sober(e, g) /\ g.got = Append(e.got, [opt |-> e.sb_telopt, bytes |-> e.buffer])
        /\ g.run = e.run /\ DOMAIN g = Fields
    BY <2>5 DEF Subnegotiate, Sober, Fields
  <2> HIDE DEF g, v
  <2>7. Sober(e, h) /\ h.got = g.got /\ h.run = g.run /\ DOMAIN h = Fields
    <3>1. /\ DOMAIN h = Fields /\ h.got = g.got /\ h.run = g.run /\ h.q = g.q
          /\ h.sent = g.sent /\ h.warned = g.warned \cup {"unexpected"}
      BY <2>6 DEF Warn, Fields
    <3> HIDE DEF h
    <3> QED BY <2>6, <3>1 DEF Sober
  <2> HIDE DEF h
  <2>8. f = IF b = "SE" THEN To(g, "DATA") ELSE To(h, "DATA")
    BY <1>2 DEF InSbDataIac, InIac, Verb, g, h
  <2>9. Sober(e, f) /\ f.state = "DATA" /\ f.got = g.got /\ f.run = g.run
    <3>1. Sober(g, To(g, "DATA")) /\ To(g, "DATA").state = "DATA"
          /\ To(g, "DATA").got = g.got /\ To(g, "DATA").run = g.run
      BY <2>6, ToFields
    <3>2. Sober(h, To(h, "DATA")) /\ To(h, "DATA").state = "DATA"
          /\ To(h, "DATA").got = h.got /\ To(h, "DATA").run = h.run
      BY <2>7, ToFields
    <3>3. Sober(e, To(g, "DATA")) /\ Sober(e, To(h, "DATA"))
      BY <2>6, <2>7, <3>1, <3>2, SoberBoth
    <3> HIDE DEF f
    <3> QED BY <2>7, <2>8, <3>1, <3>2, <3>3
  <2> HIDE DEF f
  <2>10. e.buffer = v.bytes
    BY <1>2, <2>2, <2>3, SubSeqFull DEF v
  <2>11. g.got = Append(e.got, v)
    BY <2>2, <2>3, <2>6, <2>10
  <2>12. Handed(e) = e.got
    BY <2>3, WordsOfNone, ConcatEmptySeq DEF Handed
  <2>13. f.got \in Seq(Event) /\ f.got = SubSeq(ev, 1, y.n)
    BY <2>1, <2>2, <2>3, <2>4, <2>9, <2>11, <2>12, NextEvent DEF v
  <2>14. f.run = <<>> /\ f.run \in Seq(Byte) /\ Handed(f) = f.got
    BY <2>3, <2>6, <2>9, <2>13, WordsOfNone, ConcatEmptySeq DEF Handed
  <2>15. Matches(f, y, ev)
    BY <2>1, <2>4, <2>9, <2>13, <2>14 DEF Matches, StateAt
  <2> QED BY <2>9, <2>15 DEF f
<1> QED BY <1>1, <1>2 DEF GoSbIac

-----------------------------------------------------------------------------
(* Negotiation.  vs are the verbs said to an end, of which it has read k.  *)

Flight(vs, k, verbs, o) ==
  {i \in k + 1 .. Len(vs) : vs[i].opt = o /\ vs[i].verb \in verbs}

None(vs, k, verbs, o) == Flight(vs, k, verbs, o) = {}

One(vs, k, verbs, o, w) == \E i : Flight(vs, k, verbs, o) = {i} /\ vs[i].verb = w

\* What was on its way is, and nothing more.
Keeps(vs, k, ws, l, verbs, o) ==
  /\ None(vs, k, verbs, o) => None(ws, l, verbs, o)
  /\ \A w \in Verb : One(vs, k, verbs, o, w) => One(ws, l, verbs, o, w)

LEMMA KeepsSame ==
  ASSUME NEW vs, NEW k, NEW verbs, NEW o
  PROVE  Keeps(vs, k, vs, k, verbs, o)
  BY DEF Keeps

LEMMA VerbRead ==
  ASSUME NEW vs \in Seq(Said), NEW k \in Nat, k < Len(vs), NEW verbs, NEW o
  PROVE  /\ ~(vs[k + 1].opt = o /\ vs[k + 1].verb \in verbs) => Keeps(vs, k, vs, k + 1, verbs, o)
         /\ vs[k + 1].opt = o /\ vs[k + 1].verb \in verbs =>
              /\ ~None(vs, k, verbs, o)
              /\ \A w : One(vs, k, verbs, o, w) =>
                   vs[k + 1].verb = w /\ None(vs, k + 1, verbs, o)
<1> DEFINE A == Flight(vs, k, verbs, o)
           B == Flight(vs, k + 1, verbs, o)
           hit == vs[k + 1].opt = o /\ vs[k + 1].verb \in verbs
<1>1. Len(vs) \in Nat
  OBVIOUS
<1>2. B = A \ {k + 1}
  BY <1>1 DEF Flight
<1>3. k + 1 \in A <=> hit
  BY <1>1 DEF Flight
<1>4. ASSUME ~hit PROVE Keeps(vs, k, vs, k + 1, verbs, o)
  <2>1. B = A
    BY <1>2, <1>3, <1>4
  <2> QED BY <2>1 DEF Keeps, None, One
<1>5. ASSUME hit, NEW w, One(vs, k, verbs, o, w)
      PROVE  vs[k + 1].verb = w /\ None(vs, k + 1, verbs, o)
  <2>1. PICK i : A = {i} /\ vs[i].verb = w
    BY <1>5 DEF One
  <2>2. i = k + 1 /\ B = {}
    BY <1>2, <1>3, <1>5, <2>1
  <2> QED BY <2>1, <2>2 DEF None
<1>6. hit => ~None(vs, k, verbs, o)
  BY <1>3 DEF None
<1> QED BY <1>4, <1>5, <1>6

LEMMA VerbSaid ==
  ASSUME NEW vs \in Seq(Said), NEW k \in Nat, k <= Len(vs), NEW u \in Said, NEW verbs, NEW o
  PROVE  /\ ~(u.opt = o /\ u.verb \in verbs) => Keeps(vs, k, Append(vs, u), k, verbs, o)
         /\ u.opt = o /\ u.verb \in verbs /\ None(vs, k, verbs, o) =>
              One(Append(vs, u), k, verbs, o, u.verb)
<1> DEFINE ws == Append(vs, u)
           n == Len(vs) + 1
           A == Flight(vs, k, verbs, o)
           B == Flight(ws, k, verbs, o)
           hit == u.opt = o /\ u.verb \in verbs
<1>1. /\ Len(vs) \in Nat /\ Len(ws) = n /\ ws[n] = u
      /\ \A i \in 1 .. Len(vs) : ws[i] = vs[i]
  OBVIOUS
<1> HIDE DEF ws
<1>2. B = IF hit THEN A \cup {n} ELSE A
  BY <1>1 DEF Flight
<1>3. ASSUME ~hit PROVE Keeps(vs, k, ws, k, verbs, o)
  <2>1. B = A /\ \A i \in A : ws[i] = vs[i]
    BY <1>1, <1>2, <1>3 DEF Flight
  <2> QED BY <2>1 DEF Keeps, None, One
<1>4. ASSUME hit, None(vs, k, verbs, o) PROVE One(ws, k, verbs, o, u.verb)
  <2>1. B = {n}
    BY <1>2, <1>4 DEF None
  <2> QED BY <1>1, <2>1 DEF One
<1> QED BY <1>3, <1>4 DEF ws

\* The options that matter.
Known == Option \cup {"BINARY"}

Wants == {"WANTYES", "WANTYES_OP"}
Unwants == {"WANTNO", "WANTNO_OP"}

Offers == {"WILL", "WONT"}
Requests == {"DO", "DONT"}

\* What the client does with o, and where sin stands with it: both stand alike
\* and nothing of it is on the way; or the client's word is, or sin's answer.
UsOK(vS, kS, vC, kC, o, c, s) ==
  \/ None(vS, kS, Offers, o) /\ None(vC, kC, Requests, o) /\ c = s /\ c \in {"NO", "YES"}
  \/ One(vS, kS, Offers, o, "WILL") /\ None(vC, kC, Requests, o) /\ c \in Wants /\ s = "NO"
  \/ One(vS, kS, Offers, o, "WONT") /\ None(vC, kC, Requests, o) /\ c \in Unwants /\ s = "YES"
  \/ None(vS, kS, Offers, o) /\ One(vC, kC, Requests, o, "DO") /\ c \in Wants /\ s = "YES"
  \/ None(vS, kS, Offers, o) /\ One(vC, kC, Requests, o, "DONT")
       /\ c \in Wants \cup Unwants /\ s = "NO"

\* What the client would have sin do, which sin never does.
HimOK(vS, kS, vC, kC, o, c) ==
  \/ None(vS, kS, Requests, o) /\ None(vC, kC, Offers, o) /\ c = "NO"
  \/ One(vS, kS, Requests, o, "DO") /\ None(vC, kC, Offers, o) /\ c \in Wants
  \/ None(vS, kS, Requests, o) /\ One(vC, kC, Offers, o, "WONT") /\ c \in Wants

NegOK(vS, kS, vC, kC, client, sin) ==
  \A o \in Known :
    /\ UsOK(vS, kS, vC, kC, o, StandOf(client, o, "us"), StandOf(sin, o, "him"))
    /\ HimOK(vS, kS, vC, kC, o, StandOf(client, o, "him"))

\* What is kept of both directions keeps an option in order.
LEMMA UsKept ==
  ASSUME NEW vS, NEW kS, NEW vC, NEW kC, NEW wS, NEW lS, NEW wC, NEW lC, NEW o, NEW c, NEW s,
         UsOK(vS, kS, vC, kC, o, c, s),
         Keeps(vS, kS, wS, lS, Offers, o), Keeps(vC, kC, wC, lC, Requests, o)
  PROVE  UsOK(wS, lS, wC, lC, o, c, s)
  BY DEF UsOK, Keeps, Verb

LEMMA HimKept ==
  ASSUME NEW vS, NEW kS, NEW vC, NEW kC, NEW wS, NEW lS, NEW wC, NEW lC, NEW o, NEW c,
         HimOK(vS, kS, vC, kC, o, c),
         Keeps(vS, kS, wS, lS, Requests, o), Keeps(vC, kC, wC, lC, Offers, o)
  PROVE  HimOK(wS, lS, wC, lC, o, c)
  BY DEF HimOK, Keeps, Verb

-----------------------------------------------------------------------------
(* What a verb does to an engine.                                          *)

\* The engine stands otherwise with o, and says what is to be sent.
Turned(e, f, o, side, stand, sent) ==
  /\ DOMAIN f = Fields
  /\ f.state = e.state /\ f.got = e.got /\ f.run = e.run
  /\ f.sent = sent /\ f.warned = e.warned
  /\ \A x \in Known \cup {o}, t \in {"us", "him"} :
       StandOf(f, x, t) = IF x = o /\ t = side THEN stand ELSE StandOf(e, x, t)

LEMMA SetStandTurns ==
  ASSUME NEW e, NEW p, EngineOK(e, p), NEW o, NEW side \in {"us", "him"}, NEW stand
  PROVE  Turned(e, SetStand(e, o, side, stand), o, side, stand, e.sent)
<1> DEFINE f == SetStand(e, o, side, stand)
           new == [get_rfc1143(e, o) EXCEPT ![side] = stand]
<1>1. DOMAIN e = Fields
  BY DEF EngineOK
<1>2. /\ DOMAIN f = Fields
      /\ f.state = e.state /\ f.got = e.got /\ f.run = e.run
      /\ f.sent = e.sent /\ f.warned = e.warned
      /\ f.q = [x \in DOMAIN e.q \cup {o} |-> IF x = o THEN new ELSE e.q[x]]
  BY <1>1 DEF SetStand, set_rfc1143, Fields
<1> HIDE DEF f
<1>3. get_rfc1143(e, o) \in Stands
  BY DEF EngineOK, StandsOK, get_rfc1143, Off, Stands, Stand
<1>4. \A t \in {"us", "him"} : new[t] = IF t = side THEN stand ELSE get_rfc1143(e, o)[t]
  BY <1>3 DEF Stands
<1> HIDE DEF new
<1>5. \A x : get_rfc1143(f, x) = IF x = o THEN new ELSE get_rfc1143(e, x)
  BY <1>2 DEF get_rfc1143
<1>6. \A x \in Known \cup {o}, t \in {"us", "him"} :
        StandOf(f, x, t) = IF x = o /\ t = side THEN stand ELSE StandOf(e, x, t)
  BY <1>4, <1>5 DEF StandOf
<1> QED BY <1>2, <1>6 DEF Turned, f

LEMMA SayTurns ==
  ASSUME NEW e, NEW g, NEW o, NEW side, NEW stand, NEW verb, Turned(e, g, o, side, stand, <<>>)
  PROVE  Turned(e, Say(g, verb, o), o, side, stand, <<"IAC", verb, o>>)
<1> DEFINE f == Say(g, verb, o)
           s == <<"IAC", verb, o>>
<1>1. <<>> \o s = s
  <2>1. s \in Seq({"IAC", verb, o})
    OBVIOUS
  <2> HIDE DEF s
  <2> QED BY <2>1, ConcatEmptySeq
<1> HIDE DEF s
<1>2. /\ DOMAIN f = Fields /\ f.q = g.q
      /\ f.state = g.state /\ f.got = g.got /\ f.run = g.run
      /\ f.sent = s /\ f.warned = g.warned
  BY <1>1 DEF Turned, Say, Send, Fields, s
<1> HIDE DEF f
<1>3. \A x, t : StandOf(f, x, t) = StandOf(g, x, t)
  BY <1>2 DEF StandOf, get_rfc1143
<1> QED BY <1>2, <1>3 DEF Turned, f, s

LEMMA NothingTurns ==
  ASSUME NEW e, DOMAIN e = Fields, NEW o, NEW side
  PROVE  Turned(e, e, o, side, StandOf(e, o, side), e.sent)
  BY DEF Turned

\* sin answers every verb that can come: what it is asked to do it refuses.
LEMMA SinAnswers ==
  ASSUME NEW e, EngineOK(e, "sin"), e.sent = <<>>, NEW o \in Option
  PROVE  /\ StandOf(e, o, "him") = "NO" =>
              \/ Turned(e, PeerFor(e, "sin", o, "him"), o, "him", "YES", <<"IAC", "DO", o>>)
              \/ Turned(e, PeerFor(e, "sin", o, "him"), o, "him", "NO", <<"IAC", "DONT", o>>)
         /\ StandOf(e, o, "him") = "YES" =>
              Turned(e, PeerAgainst(e, "sin", o, "him"), o, "him", "NO", <<"IAC", "DONT", o>>)
         /\ Turned(e, PeerFor(e, "sin", o, "us"), o, "us", "NO", <<"IAC", "WONT", o>>)
<1>1. DOMAIN e = Fields /\ StandOf(e, o, "us") = "NO"
  BY StandOK DEF EngineOK
<1>2. Accepts["sin"]["us"] = {}
  BY SinAssumption
<1> DEFINE Become(side, s) == SetStand(e, o, side, s)
<1>3. \A s : Turned(e, Become("him", s), o, "him", s, <<>>)
  BY SetStandTurns
<1>4. \A side : Turned(e, e, o, side, StandOf(e, o, side), <<>>)
  BY <1>1, NothingTurns
<1>5. ASSUME StandOf(e, o, "him") = "NO"
      PROVE  \/ Turned(e, PeerFor(e, "sin", o, "him"), o, "him", "YES", <<"IAC", "DO", o>>)
             \/ Turned(e, PeerFor(e, "sin", o, "him"), o, "him", "NO", <<"IAC", "DONT", o>>)
  <2>1. CASE o \in Accepts["sin"]["him"]
    <3>1. PeerFor(e, "sin", o, "him") = Say(Become("him", "YES"), "DO", o)
      BY <1>5, <2>1 DEF PeerFor, Yes
    <3> QED BY <1>3, <3>1, SayTurns
  <2>2. CASE o \notin Accepts["sin"]["him"]
    <3>1. PeerFor(e, "sin", o, "him") = Say(e, "DONT", o)
      BY <1>5, <2>2 DEF PeerFor, No
    <3> QED BY <1>4, <1>5, <3>1, SayTurns
  <2> QED BY <2>1, <2>2
<1>6. ASSUME StandOf(e, o, "him") = "YES"
      PROVE  Turned(e, PeerAgainst(e, "sin", o, "him"), o, "him", "NO", <<"IAC", "DONT", o>>)
  <2>1. PeerAgainst(e, "sin", o, "him") = Say(Become("him", "NO"), "DONT", o)
    BY <1>6 DEF PeerAgainst, No
  <2> QED BY <1>3, <2>1, SayTurns
<1>7. Turned(e, PeerFor(e, "sin", o, "us"), o, "us", "NO", <<"IAC", "WONT", o>>)
  <2>1. PeerFor(e, "sin", o, "us") = Say(e, "WONT", o)
    BY <1>1, <1>2 DEF PeerFor, No
  <2> QED BY <1>1, <1>4, <2>1, SayTurns
<1> QED BY <1>5, <1>6, <1>7

\* What the client makes of an answer.
LEMMA ClientHears ==
  ASSUME NEW e, EngineOK(e, "client"), e.sent = <<>>, NEW o \in Option, NEW side \in {"us", "him"}
  PROVE  LET for == PeerFor(e, "client", o, side)
             against == PeerAgainst(e, "client", o, side)
             stand == StandOf(e, o, side) IN
         /\ stand = "WANTYES" => Turned(e, for, o, side, "YES", <<>>)
         /\ stand = "WANTYES_OP" =>
              Turned(e, for, o, side, "WANTNO", <<"IAC", No(side), o>>)
         /\ stand \in {"WANTNO", "WANTYES", "WANTYES_OP"} => Turned(e, against, o, side, "NO", <<>>)
         /\ stand = "WANTNO_OP" =>
              Turned(e, against, o, side, "WANTYES", <<"IAC", Yes(side), o>>)
<1> DEFINE for == PeerFor(e, "client", o, side)
           against == PeerAgainst(e, "client", o, side)
           stand == StandOf(e, o, side)
           Become(s) == SetStand(e, o, side, s)
<1>1. \A s : Turned(e, Become(s), o, side, s, <<>>)
  BY SetStandTurns
<1>2. ASSUME stand = "WANTYES" PROVE Turned(e, for, o, side, "YES", <<>>)
  <2>1. for = Become("YES")
    BY <1>2 DEF PeerFor
  <2> QED BY <1>1, <2>1
<1>3. ASSUME stand = "WANTYES_OP" PROVE Turned(e, for, o, side, "WANTNO", <<"IAC", No(side), o>>)
  <2>1. for = Say(Become("WANTNO"), No(side), o)
    BY <1>3 DEF PeerFor
  <2> QED BY <1>1, <2>1, SayTurns
<1>4. ASSUME stand \in {"WANTNO", "WANTYES", "WANTYES_OP"}
      PROVE  Turned(e, against, o, side, "NO", <<>>)
  <2>1. against = Become("NO")
    BY <1>4 DEF PeerAgainst
  <2> QED BY <1>1, <2>1
<1>5. ASSUME stand = "WANTNO_OP"
      PROVE  Turned(e, against, o, side, "WANTYES", <<"IAC", Yes(side), o>>)
  <2>1. against = Say(Become("WANTYES"), Yes(side), o)
    BY <1>5 DEF PeerAgainst
  <2> QED BY <1>1, <2>1, SayTurns
<1> QED BY <1>2, <1>3, <1>4, <1>5

\* What the client does when its program asks.
LEMMA ClientAsks ==
  ASSUME NEW e, EngineOK(e, "client"), e.sent = <<>>, NEW o \in Option, NEW verb \in Verb
  PROVE  LET side == IF verb \in Offers THEN "us" ELSE "him"
             f == telnet_negotiate(e, verb, o)
             stand == StandOf(e, o, side) IN
         IF verb = Yes(side)
         THEN /\ stand = "NO" => Turned(e, f, o, side, "WANTYES", <<"IAC", verb, o>>)
              /\ stand = "WANTNO" => Turned(e, f, o, side, "WANTNO_OP", <<>>)
              /\ stand = "WANTYES_OP" => Turned(e, f, o, side, "WANTYES", <<>>)
              /\ stand \notin {"NO", "WANTNO", "WANTYES_OP"} => Turned(e, f, o, side, stand, <<>>)
         ELSE /\ stand = "YES" => Turned(e, f, o, side, "WANTNO", <<"IAC", verb, o>>)
              /\ stand = "WANTYES" => Turned(e, f, o, side, "WANTYES_OP", <<>>)
              /\ stand = "WANTNO_OP" => Turned(e, f, o, side, "WANTNO", <<>>)
              /\ stand \notin {"YES", "WANTYES", "WANTNO_OP"} => Turned(e, f, o, side, stand, <<>>)
<1> DEFINE side == IF verb \in {"WILL", "WONT"} THEN "us" ELSE "him"
           f == telnet_negotiate(e, verb, o)
           stand == StandOf(e, o, side)
           Become(s) == SetStand(e, o, side, s)
<1>1. side \in {"us", "him"} /\ DOMAIN e = Fields
  BY DEF EngineOK
<1>2. \A s : Turned(e, Become(s), o, side, s, <<>>)
  BY <1>1, SetStandTurns
<1>3. Turned(e, e, o, side, stand, <<>>)
  BY <1>1, NothingTurns
<1>4. \A s : Turned(e, Say(Become(s), verb, o), o, side, s, <<"IAC", verb, o>>)
  BY <1>2, SayTurns
<1>5. f = IF verb = Yes(side)
          THEN CASE stand = "NO" -> Say(Become("WANTYES"), verb, o)
                 [] stand = "WANTNO" -> Become("WANTNO_OP")
                 [] stand = "WANTYES_OP" -> Become("WANTYES")
                 [] OTHER -> e
          ELSE CASE stand = "YES" -> Say(Become("WANTNO"), verb, o)
                 [] stand = "WANTYES" -> Become("WANTYES_OP")
                 [] stand = "WANTNO_OP" -> Become("WANTNO")
                 [] OTHER -> e
  BY DEF telnet_negotiate
<1> HIDE DEF f, stand, Become, side
<1>6. IF verb = Yes(side)
      THEN /\ stand = "NO" => Turned(e, f, o, side, "WANTYES", <<"IAC", verb, o>>)
           /\ stand = "WANTNO" => Turned(e, f, o, side, "WANTNO_OP", <<>>)
           /\ stand = "WANTYES_OP" => Turned(e, f, o, side, "WANTYES", <<>>)
           /\ stand \notin {"NO", "WANTNO", "WANTYES_OP"} => Turned(e, f, o, side, stand, <<>>)
      ELSE /\ stand = "YES" => Turned(e, f, o, side, "WANTNO", <<"IAC", verb, o>>)
           /\ stand = "WANTYES" => Turned(e, f, o, side, "WANTYES_OP", <<>>)
           /\ stand = "WANTNO_OP" => Turned(e, f, o, side, "WANTNO", <<>>)
           /\ stand \notin {"YES", "WANTYES", "WANTNO_OP"} => Turned(e, f, o, side, stand, <<>>)
  BY <1>2, <1>3, <1>4, <1>5
<1> QED BY <1>6 DEF f, stand, side, Offers

Saying(verb, o) == [verb |-> verb, opt |-> o]

\* What concerns other options, or the other direction, is kept.
LEMMA OthersKept ==
  ASSUME NEW vS \in Seq(Said), NEW vC \in Seq(Said), NEW kS \in Nat, NEW kC \in Nat,
         NEW verbs, NEW x
  PROVE  /\ kS < Len(vS) /\ (vS[kS + 1].opt # x \/ vS[kS + 1].verb \notin verbs) =>
              Keeps(vS, kS, vS, kS + 1, verbs, x)
         /\ \A u \in Said : kC <= Len(vC) /\ (u.opt # x \/ u.verb \notin verbs) =>
              Keeps(vC, kC, Append(vC, u), kC, verbs, x)
  BY VerbRead, VerbSaid

LEMMA SinReads ==
  ASSUME NEW vS \in Seq(Said), NEW vC \in Seq(Said), NEW kS \in Nat, NEW kC \in Nat,
         kS < Len(vS), kC <= Len(vC), NEW client, NEW sin, EngineOK(sin, "sin"), sin.sent = <<>>,
         NegOK(vS, kS, vC, kC, client, sin),
         NEW o \in Option, NEW v \in Verb, vS[kS + 1] = Saying(v, o), sin.state = v
  PROVE  LET f == Negotiate(sin, "sin", o) IN
         \E w \in Verb, side \in {"us", "him"}, stand \in Stand :
           /\ Turned(sin, f, o, side, stand, <<"IAC", w, o>>)
           /\ NegOK(vS, kS + 1, Append(vC, Saying(w, o)), kC, client, f)
<1> DEFINE f == Negotiate(sin, "sin", o)
           s == StandOf(sin, o, "him")
           c == StandOf(client, o, "us")
           d == StandOf(client, o, "him")
<1>1. vS[kS + 1].verb = v /\ vS[kS + 1].opt = o /\ o \in Known
  BY DEF Saying, Known
<1>2. UsOK(vS, kS, vC, kC, o, c, s) /\ HimOK(vS, kS, vC, kC, o, d)
  BY <1>1 DEF NegOK
<1>3. s \in {"NO", "YES"}
  BY StandOK
<1>4. \A w \in Verb : Saying(w, o) \in Said /\ Saying(w, o).verb = w /\ Saying(w, o).opt = o
  BY DEF Saying, Said
<1>8. ASSUME NEW verbs, v \in verbs
      PROVE  /\ ~None(vS, kS, verbs, o)
             /\ \A x : One(vS, kS, verbs, o, x) => v = x /\ None(vS, kS + 1, verbs, o)
  <2>1. vS[kS + 1].opt = o /\ vS[kS + 1].verb \in verbs
    BY <1>1, <1>8
  <2> QED BY <1>1, <2>1, VerbRead
\* It is enough to look at o.
<1>5. ASSUME NEW w \in Verb, NEW side \in {"us", "him"}, NEW stand,
             Turned(sin, f, o, side, stand, <<"IAC", w, o>>),
             UsOK(vS, kS + 1, Append(vC, Saying(w, o)), kC, o, c, StandOf(f, o, "him")),
             HimOK(vS, kS + 1, Append(vC, Saying(w, o)), kC, o, d)
      PROVE  NegOK(vS, kS + 1, Append(vC, Saying(w, o)), kC, client, f)
  <2> DEFINE wC == Append(vC, Saying(w, o))
  <2> SUFFICES ASSUME NEW x \in Known, x # o
               PROVE  /\ UsOK(vS, kS + 1, wC, kC, x, StandOf(client, x, "us"), StandOf(f, x, "him"))
                      /\ HimOK(vS, kS + 1, wC, kC, x, StandOf(client, x, "him"))
    BY <1>5 DEF NegOK
  <2>1. StandOf(f, x, "him") = StandOf(sin, x, "him")
    BY <1>5 DEF Turned
  <2>2. \A verbs : Keeps(vS, kS, vS, kS + 1, verbs, x) /\ Keeps(vC, kC, wC, kC, verbs, x)
    BY <1>1, <1>4, OthersKept
  <2> HIDE DEF wC
  <2>3. UsOK(vS, kS, vC, kC, x, StandOf(client, x, "us"), StandOf(sin, x, "him"))
        /\ HimOK(vS, kS, vC, kC, x, StandOf(client, x, "him"))
    BY DEF NegOK
  <2> QED BY <2>1, <2>2, <2>3, UsKept, HimKept
\* An offer: sin takes it as its table says, and answers.
<1>6. CASE v \in Offers
  <2>1. PICK stand \in Stand, w \in Requests :
          /\ Turned(sin, f, o, "him", stand, <<"IAC", w, o>>)
          /\ \/ v = "WILL" /\ s = "NO" /\ w = "DO" /\ stand = "YES"
             \/ v = "WILL" /\ s = "NO" /\ w = "DONT" /\ stand = "NO"
             \/ v = "WONT" /\ s = "YES" /\ w = "DONT" /\ stand = "NO"
    <3>1. (v = "WILL" /\ s = "NO") \/ (v = "WONT" /\ s = "YES")
      BY <1>2, <1>6, <1>8 DEF UsOK
    <3>2. f = IF v = "WILL" THEN PeerFor(sin, "sin", o, "him") ELSE PeerAgainst(sin, "sin", o, "him")
      BY <1>6 DEF Negotiate, Offers
    <3> HIDE DEF f
    <3>3. CASE v = "WILL" /\ s = "NO"
      <4>1. Turned(sin, f, o, "him", "YES", <<"IAC", "DO", o>>)
            \/ Turned(sin, f, o, "him", "NO", <<"IAC", "DONT", o>>)
        BY <3>2, <3>3, SinAnswers
      <4> QED BY <3>3, <4>1 DEF Requests, Stand
    <3>4. CASE v = "WONT" /\ s = "YES"
      <4>1. Turned(sin, f, o, "him", "NO", <<"IAC", "DONT", o>>)
        BY <3>2, <3>4, SinAnswers
      <4> QED BY <3>4, <4>1 DEF Requests, Stand
    <3> QED BY <3>1, <3>3, <3>4
  <2>2. w \in Verb
    BY DEF Requests, Verb
  <2> DEFINE u == Saying(w, o)
             wC == Append(vC, u)
  <2>3. StandOf(f, o, "him") = stand
    BY <2>1 DEF Turned
  <2>4. None(vS, kS + 1, Offers, o) /\ One(wC, kC, Requests, o, w)
        /\ (v = "WILL" => c \in Wants) /\ (v = "WONT" => c \in Unwants)
    <3>1. /\ ~None(vS, kS, Offers, o)
          /\ \A x : One(vS, kS, Offers, o, x) => v = x /\ None(vS, kS + 1, Offers, o)
      BY <1>6, <1>8
    <3>2. None(vC, kC, Requests, o)
      BY <1>2, <3>1 DEF UsOK
    <3>3. u \in Said /\ u.opt = o /\ u.verb = w
      BY <1>4, <2>2
    <3> HIDE DEF u
    <3>4. One(wC, kC, Requests, o, w)
      BY <2>1, <3>2, <3>3, VerbSaid
    <3> QED BY <1>2, <3>1, <3>4 DEF UsOK
  <2>5. UsOK(vS, kS + 1, wC, kC, o, c, stand)
    <3> HIDE DEF wC
    <3> QED BY <2>1, <2>4 DEF UsOK
  <2>6. HimOK(vS, kS + 1, wC, kC, o, d)
    <3>1. Keeps(vS, kS, vS, kS + 1, Requests, o)
      BY <1>1, <1>6, OthersKept DEF Offers, Requests
    <3>2. Keeps(vC, kC, wC, kC, Offers, o)
      <4>1. u \in Said /\ u.verb \notin Offers
        BY <1>4, <2>2 DEF Offers, Requests
      <4> HIDE DEF u
      <4> QED BY <4>1, OthersKept
    <3> HIDE DEF wC
    <3> QED BY <1>2, <3>1, <3>2, HimKept
  <2>7. NegOK(vS, kS + 1, wC, kC, client, f)
    BY <1>5, <2>1, <2>2, <2>3, <2>5, <2>6
  <2> QED BY <2>1, <2>2, <2>7
\* A request: sin refuses.
<1>7. CASE v \in Requests
  <2>1. v = "DO" /\ Turned(sin, f, o, "us", "NO", <<"IAC", "WONT", o>>)
    <3>1. v = "DO"
      BY <1>2, <1>7, <1>8 DEF HimOK
    <3>2. f = PeerFor(sin, "sin", o, "us")
      BY <3>1 DEF Negotiate
    <3> QED BY <3>1, <3>2, SinAnswers
  <2> DEFINE u == Saying("WONT", o)
             wC == Append(vC, u)
  <2>2. "WONT" \in Verb /\ u \in Said /\ u.opt = o /\ u.verb = "WONT"
    BY <1>4 DEF Verb
  <2> HIDE DEF u
  <2>3. StandOf(f, o, "him") = s
    BY <1>1, <2>1 DEF Turned
  <2>4. None(vS, kS + 1, Requests, o) /\ One(wC, kC, Offers, o, "WONT") /\ d \in Wants
    <3>1. /\ ~None(vS, kS, Requests, o)
          /\ \A x : One(vS, kS, Requests, o, x) => None(vS, kS + 1, Requests, o)
      BY <1>7, <1>8
    <3>2. None(vC, kC, Offers, o)
      BY <1>2, <3>1 DEF HimOK
    <3>3. One(wC, kC, Offers, o, "WONT")
      BY <2>2, <3>2, VerbSaid DEF Offers
    <3> QED BY <1>2, <3>1, <3>3 DEF HimOK
  <2>5. HimOK(vS, kS + 1, wC, kC, o, d)
    BY <2>4 DEF HimOK
  <2>6. UsOK(vS, kS + 1, wC, kC, o, c, s)
    <3>1. Keeps(vS, kS, vS, kS + 1, Offers, o)
      BY <1>1, <1>7, OthersKept DEF Offers, Requests
    <3>2. Keeps(vC, kC, wC, kC, Requests, o)
      BY <2>2, OthersKept DEF Requests
    <3> HIDE DEF wC
    <3> QED BY <1>2, <3>1, <3>2, UsKept
  <2>7. NegOK(vS, kS + 1, wC, kC, client, f)
    BY <1>5, <2>1, <2>2, <2>3, <2>5, <2>6 DEF u
  <2>8. "NO" \in Stand
    BY DEF Stand
  <2> QED BY <2>1, <2>2, <2>7, <2>8 DEF u
<1> QED BY <1>6, <1>7 DEF Verb, Offers, Requests

LEMMA ClientReads ==
  ASSUME NEW vS \in Seq(Said), NEW vC \in Seq(Said), NEW kS \in Nat, NEW kC \in Nat,
         kS <= Len(vS), kC < Len(vC), NEW client, NEW sin, EngineOK(client, "client"),
         client.sent = <<>>, NegOK(vS, kS, vC, kC, client, sin),
         NEW o \in Option, NEW v \in Verb, vC[kC + 1] = Saying(v, o), client.state = v
  PROVE  LET f == Negotiate(client, "client", o) IN
         \E side \in {"us", "him"}, stand \in Stand :
           \/ /\ Turned(client, f, o, side, stand, <<>>)
              /\ NegOK(vS, kS, vC, kC + 1, f, sin)
           \/ \E w \in Verb :
                /\ Turned(client, f, o, side, stand, <<"IAC", w, o>>)
                /\ NegOK(Append(vS, Saying(w, o)), kS, vC, kC + 1, f, sin)
<1> DEFINE f == Negotiate(client, "client", o)
           s == StandOf(sin, o, "him")
           c == StandOf(client, o, "us")
           d == StandOf(client, o, "him")
<1>1. vC[kC + 1].verb = v /\ vC[kC + 1].opt = o /\ o \in Known
  BY DEF Saying, Known
<1>2. UsOK(vS, kS, vC, kC, o, c, s) /\ HimOK(vS, kS, vC, kC, o, d)
  BY <1>1 DEF NegOK
<1>3. \A w \in Verb : Saying(w, o) \in Said /\ Saying(w, o).verb = w /\ Saying(w, o).opt = o
  BY DEF Saying, Said
<1>4. ASSUME NEW verbs, v \in verbs
      PROVE  /\ ~None(vC, kC, verbs, o)
             /\ \A x : One(vC, kC, verbs, o, x) => v = x /\ None(vC, kC + 1, verbs, o)
  <2>1. vC[kC + 1].opt = o /\ vC[kC + 1].verb \in verbs
    BY <1>1, <1>4
  <2> QED BY <1>1, <2>1, VerbRead
\* It is enough to look at o.
<1>5. ASSUME NEW wS, \A x, verbs : x # o => Keeps(vS, kS, wS, kS, verbs, x),
             NEW side, NEW stand, NEW t, Turned(client, f, o, side, stand, t),
             UsOK(wS, kS, vC, kC + 1, o, StandOf(f, o, "us"), s),
             HimOK(wS, kS, vC, kC + 1, o, StandOf(f, o, "him"))
      PROVE  NegOK(wS, kS, vC, kC + 1, f, sin)
  <2> SUFFICES ASSUME NEW x \in Known, x # o
               PROVE  /\ UsOK(wS, kS, vC, kC + 1, x, StandOf(f, x, "us"), StandOf(sin, x, "him"))
                      /\ HimOK(wS, kS, vC, kC + 1, x, StandOf(f, x, "him"))
    BY <1>5 DEF NegOK
  <2>1. StandOf(f, x, "him") = StandOf(client, x, "him")
        /\ StandOf(f, x, "us") = StandOf(client, x, "us")
    BY <1>5 DEF Turned
  <2>2. \A verbs : Keeps(vC, kC, vC, kC + 1, verbs, x)
    BY <1>1, OthersKept
  <2>3. UsOK(vS, kS, vC, kC, x, StandOf(client, x, "us"), StandOf(sin, x, "him"))
        /\ HimOK(vS, kS, vC, kC, x, StandOf(client, x, "him"))
    BY DEF NegOK
  <2> QED BY <1>5, <2>1, <2>2, <2>3, UsKept, HimKept
<1>6. \A x, verbs : Keeps(vS, kS, vS, kS, verbs, x)
  BY KeepsSame
<1>7. \A w \in Verb : \A x, verbs : x # o \/ w \notin verbs =>
        Keeps(vS, kS, Append(vS, Saying(w, o)), kS, verbs, x)
  BY <1>3, OthersKept
\* An answer to what the client does.
<1>8. CASE v \in Requests
  <2>1. /\ None(vS, kS, Offers, o) /\ None(vC, kC + 1, Requests, o)
        /\ \/ v = "DO" /\ c \in Wants /\ s = "YES"
           \/ v = "DONT" /\ c \in Wants \cup Unwants /\ s = "NO"
    BY <1>2, <1>4, <1>8 DEF UsOK
  <2>2. f = IF v = "DO" THEN PeerFor(client, "client", o, "us")
                        ELSE PeerAgainst(client, "client", o, "us")
    BY <1>8 DEF Negotiate, Requests
  <2>3. Keeps(vC, kC, vC, kC + 1, Offers, o)
    BY <1>1, <1>8, OthersKept DEF Offers, Requests
  <2> HIDE DEF f
  \* The matter is closed.
  <2>4. ASSUME NEW stand \in {"YES", "NO"}, stand = s, Turned(client, f, o, "us", stand, <<>>)
        PROVE  NegOK(vS, kS, vC, kC + 1, f, sin)
    <3>1. StandOf(f, o, "us") = stand /\ StandOf(f, o, "him") = d
      BY <1>1, <2>4 DEF Turned
    <3>2. UsOK(vS, kS, vC, kC + 1, o, stand, s)
      BY <2>1, <2>4 DEF UsOK
    <3>3. HimOK(vS, kS, vC, kC + 1, o, d)
      BY <1>2, <1>6, <2>3, HimKept
    <3> QED BY <1>5, <1>6, <2>4, <3>1, <3>2, <3>3
  \* The client had another mind.
  <2>5. ASSUME NEW w \in Offers, NEW stand, Turned(client, f, o, "us", stand, <<"IAC", w, o>>),
               \/ w = "WILL" /\ stand \in Wants /\ s = "NO"
               \/ w = "WONT" /\ stand \in Unwants /\ s = "YES"
        PROVE  NegOK(Append(vS, Saying(w, o)), kS, vC, kC + 1, f, sin)
    <3> DEFINE wS == Append(vS, Saying(w, o))
    <3>1. StandOf(f, o, "us") = stand /\ StandOf(f, o, "him") = d
      BY <1>1, <2>5 DEF Turned
    <3>2. w \in Verb /\ w \notin Requests
      BY DEF Offers, Requests, Verb
    <3>3. Saying(w, o) \in Said /\ Saying(w, o).verb = w /\ Saying(w, o).opt = o
      BY <1>3, <3>2
    <3>4. One(wS, kS, Offers, o, w)
      <4> DEFINE u == Saying(w, o)
      <4>1. u \in Said /\ u.opt = o /\ u.verb = w
        BY <3>3
      <4> HIDE DEF u
      <4>2. One(Append(vS, u), kS, Offers, o, w)
        BY <2>1, <4>1, VerbSaid
      <4> QED BY <4>2 DEF u
    <3>5. \A x, verbs : x # o \/ w \notin verbs => Keeps(vS, kS, wS, kS, verbs, x)
      BY <1>7, <3>2
    <3> HIDE DEF wS
    <3>6. UsOK(wS, kS, vC, kC + 1, o, stand, s)
      BY <2>1, <2>5, <3>4 DEF UsOK
    <3>7. HimOK(wS, kS, vC, kC + 1, o, d)
      BY <1>2, <2>3, <3>2, <3>5, HimKept
    <3>8. NegOK(wS, kS, vC, kC + 1, f, sin)
      BY <1>5, <2>5, <3>1, <3>5, <3>6, <3>7
    <3> QED BY <3>8 DEF wS
  <2>6. CASE v = "DO" /\ c = "WANTYES"
    <3>1. Turned(client, f, o, "us", "YES", <<>>)
      BY <2>2, <2>6, ClientHears
    <3> QED BY <2>1, <2>4, <2>6, <3>1 DEF f, Stand
  <2>7. CASE v = "DO" /\ c = "WANTYES_OP"
    <3>1. Turned(client, f, o, "us", "WANTNO", <<"IAC", "WONT", o>>)
      BY <2>2, <2>7, ClientHears DEF No
    <3>2. NegOK(Append(vS, Saying("WONT", o)), kS, vC, kC + 1, f, sin)
      BY <2>1, <2>5, <2>7, <3>1 DEF Offers, Unwants
    <3> QED BY <3>1, <3>2 DEF f, Stand, Verb
  <2>8. CASE v = "DONT" /\ c \in {"WANTNO", "WANTYES", "WANTYES_OP"}
    <3>1. Turned(client, f, o, "us", "NO", <<>>)
      BY <2>2, <2>8, ClientHears
    <3> QED BY <2>1, <2>4, <2>8, <3>1 DEF f, Stand
  <2>9. CASE v = "DONT" /\ c = "WANTNO_OP"
    <3>1. Turned(client, f, o, "us", "WANTYES", <<"IAC", "WILL", o>>)
      BY <2>2, <2>9, ClientHears DEF Yes
    <3>2. NegOK(Append(vS, Saying("WILL", o)), kS, vC, kC + 1, f, sin)
      BY <2>1, <2>5, <2>9, <3>1 DEF Offers, Wants
    <3> QED BY <3>1, <3>2 DEF f, Stand, Verb
  <2> QED BY <2>1, <2>6, <2>7, <2>8, <2>9 DEF Wants, Unwants
\* sin's refusal.
<1>9. CASE v \in Offers
  <2>1. /\ None(vS, kS, Requests, o) /\ None(vC, kC + 1, Offers, o)
        /\ v = "WONT" /\ d \in Wants
    BY <1>2, <1>4, <1>9 DEF HimOK
  <2>2. f = PeerAgainst(client, "client", o, "him")
    BY <2>1 DEF Negotiate
  <2> HIDE DEF f
  <2>3. Turned(client, f, o, "him", "NO", <<>>)
    BY <2>1, <2>2, ClientHears DEF Wants
  <2>4. StandOf(f, o, "him") = "NO" /\ StandOf(f, o, "us") = c
    BY <1>1, <2>3 DEF Turned
  <2>5. HimOK(vS, kS, vC, kC + 1, o, "NO")
    BY <2>1 DEF HimOK
  <2>6. Keeps(vC, kC, vC, kC + 1, Requests, o)
    BY <1>1, <1>9, OthersKept DEF Offers, Requests
  <2>7. UsOK(vS, kS, vC, kC + 1, o, c, s)
    BY <1>2, <1>6, <2>6, UsKept
  <2>8. NegOK(vS, kS, vC, kC + 1, f, sin)
    BY <1>5, <1>6, <2>3, <2>4, <2>5, <2>7
  <2> QED BY <2>3, <2>8 DEF f, Stand
<1> QED BY <1>8, <1>9 DEF Verb, Offers, Requests

\* The client's program asks.
LEMMA ClientSays ==
  ASSUME NEW vS \in Seq(Said), NEW vC \in Seq(Said), NEW kS \in Nat, NEW kC \in Nat,
         kS <= Len(vS), NEW client, NEW sin, EngineOK(client, "client"),
         client.sent = <<>>, NegOK(vS, kS, vC, kC, client, sin),
         NEW o \in Option, NEW w \in Verb
  PROVE  LET f == telnet_negotiate(client, w, o) IN
         \E side \in {"us", "him"} : \E stand :
           \/ /\ Turned(client, f, o, side, stand, <<>>)
              /\ NegOK(vS, kS, vC, kC, f, sin)
           \/ /\ Turned(client, f, o, side, stand, <<"IAC", w, o>>)
              /\ NegOK(Append(vS, Saying(w, o)), kS, vC, kC, f, sin)
<1> DEFINE f == telnet_negotiate(client, w, o)
           s == StandOf(sin, o, "him")
           c == StandOf(client, o, "us")
           d == StandOf(client, o, "him")
           u == Saying(w, o)
           wS == Append(vS, u)
<1>1. o \in Known
  BY DEF Known
<1>2. UsOK(vS, kS, vC, kC, o, c, s) /\ HimOK(vS, kS, vC, kC, o, d)
  BY <1>1 DEF NegOK
<1>3. u \in Said /\ u.verb = w /\ u.opt = o
  BY DEF Saying, Said
<1> HIDE DEF f, u
<1>4. \A x, verbs : x # o \/ w \notin verbs => Keeps(vS, kS, wS, kS, verbs, x)
  BY <1>3, OthersKept
<1>5. \A verbs : w \in verbs /\ None(vS, kS, verbs, o) => One(wS, kS, verbs, o, w)
  BY <1>3, VerbSaid
<1>6. \A x, verbs : Keeps(vS, kS, vS, kS, verbs, x) /\ Keeps(vC, kC, vC, kC, verbs, x)
  BY KeepsSame
<1> HIDE DEF wS
\* It is enough to look at o.
<1>7. ASSUME NEW l, \A x, verbs : x # o => Keeps(vS, kS, l, kS, verbs, x),
             NEW side, NEW stand, NEW t, Turned(client, f, o, side, stand, t),
             UsOK(l, kS, vC, kC, o, StandOf(f, o, "us"), s),
             HimOK(l, kS, vC, kC, o, StandOf(f, o, "him"))
      PROVE  NegOK(l, kS, vC, kC, f, sin)
  <2> SUFFICES ASSUME NEW x \in Known, x # o
               PROVE  /\ UsOK(l, kS, vC, kC, x, StandOf(f, x, "us"), StandOf(sin, x, "him"))
                      /\ HimOK(l, kS, vC, kC, x, StandOf(f, x, "him"))
    BY <1>7 DEF NegOK
  <2>1. StandOf(f, x, "him") = StandOf(client, x, "him")
        /\ StandOf(f, x, "us") = StandOf(client, x, "us")
    BY <1>7 DEF Turned
  <2>2. UsOK(vS, kS, vC, kC, x, StandOf(client, x, "us"), StandOf(sin, x, "him"))
        /\ HimOK(vS, kS, vC, kC, x, StandOf(client, x, "him"))
    BY DEF NegOK
  <2> QED BY <1>6, <1>7, <2>1, <2>2, UsKept, HimKept
\* What the client does.
<1>8. CASE w \in Offers
  <2>1. IF w = "WILL"
        THEN /\ c = "NO" => Turned(client, f, o, "us", "WANTYES", <<"IAC", w, o>>)
             /\ c = "WANTNO" => Turned(client, f, o, "us", "WANTNO_OP", <<>>)
             /\ c = "WANTYES_OP" => Turned(client, f, o, "us", "WANTYES", <<>>)
             /\ c \notin {"NO", "WANTNO", "WANTYES_OP"} => Turned(client, f, o, "us", c, <<>>)
        ELSE /\ c = "YES" => Turned(client, f, o, "us", "WANTNO", <<"IAC", w, o>>)
             /\ c = "WANTYES" => Turned(client, f, o, "us", "WANTYES_OP", <<>>)
             /\ c = "WANTNO_OP" => Turned(client, f, o, "us", "WANTNO", <<>>)
             /\ c \notin {"YES", "WANTYES", "WANTNO_OP"} => Turned(client, f, o, "us", c, <<>>)
    BY <1>8, ClientAsks DEF f, Yes
  <2>2. ASSUME NEW stand, Turned(client, f, o, "us", stand, <<>>),
               stand = c \/ {c, stand} = Wants \/ {c, stand} = Unwants
        PROVE  NegOK(vS, kS, vC, kC, f, sin)
    <3>1. StandOf(f, o, "us") = stand /\ StandOf(f, o, "him") = d
      BY <1>1, <2>2 DEF Turned
    <3>2. UsOK(vS, kS, vC, kC, o, stand, s)
      BY <1>2, <2>2 DEF UsOK, Wants, Unwants
    <3> QED BY <1>2, <1>6, <1>7, <2>2, <3>1, <3>2
  <2>3. ASSUME NEW stand, Turned(client, f, o, "us", stand, <<"IAC", w, o>>),
               \/ w = "WILL" /\ stand \in Wants /\ c = "NO"
               \/ w = "WONT" /\ stand \in Unwants /\ c = "YES"
        PROVE  NegOK(wS, kS, vC, kC, f, sin)
    <3>1. StandOf(f, o, "us") = stand /\ StandOf(f, o, "him") = d
      BY <1>1, <2>3 DEF Turned
    <3>2. c = s /\ None(vS, kS, Offers, o) /\ None(vC, kC, Requests, o)
      BY <1>2, <2>3 DEF UsOK, Wants, Unwants
    <3>3. UsOK(wS, kS, vC, kC, o, stand, s)
      BY <1>5, <1>8, <2>3, <3>2 DEF UsOK
    <3>4. HimOK(wS, kS, vC, kC, o, d)
      BY <1>2, <1>4, <1>6, <1>8, HimKept DEF Offers, Requests
    <3> QED BY <1>4, <1>7, <2>3, <3>1, <3>3, <3>4
  <2>4. c \in {"NO", "YES"} \cup Wants \cup Unwants
    BY <1>2 DEF UsOK
  <2>5. \/ \E stand : Turned(client, f, o, "us", stand, <<>>) /\ NegOK(vS, kS, vC, kC, f, sin)
        \/ \E stand : /\ Turned(client, f, o, "us", stand, <<"IAC", w, o>>)
                      /\ NegOK(wS, kS, vC, kC, f, sin)
    <3>1. CASE w = "WILL" /\ c = "NO"
      BY <2>1, <2>3, <3>1 DEF Wants
    <3>2. CASE w = "WILL" /\ c = "WANTNO"
      BY <2>1, <2>2, <3>2 DEF Unwants
    <3>3. CASE w = "WILL" /\ c = "WANTYES_OP"
      BY <2>1, <2>2, <3>3 DEF Wants
    <3>4. CASE w = "WILL" /\ c \notin {"NO", "WANTNO", "WANTYES_OP"}
      BY <2>1, <2>2, <3>4
    <3>5. CASE w = "WONT" /\ c = "YES"
      BY <2>1, <2>3, <3>5 DEF Unwants
    <3>6. CASE w = "WONT" /\ c = "WANTYES"
      BY <2>1, <2>2, <3>6 DEF Wants
    <3>7. CASE w = "WONT" /\ c = "WANTNO_OP"
      BY <2>1, <2>2, <3>7 DEF Unwants
    <3>8. CASE w = "WONT" /\ c \notin {"YES", "WANTYES", "WANTNO_OP"}
      BY <2>1, <2>2, <3>8
    <3> QED BY <1>8, <3>1, <3>2, <3>3, <3>4, <3>5, <3>6, <3>7, <3>8 DEF Offers
  <2> QED BY <2>5 DEF f, u, wS
\* What sin should do.
<1>9. CASE w \in Requests
  <2>1. IF w = "DO"
        THEN /\ d = "NO" => Turned(client, f, o, "him", "WANTYES", <<"IAC", w, o>>)
             /\ d = "WANTNO" => Turned(client, f, o, "him", "WANTNO_OP", <<>>)
             /\ d = "WANTYES_OP" => Turned(client, f, o, "him", "WANTYES", <<>>)
             /\ d \notin {"NO", "WANTNO", "WANTYES_OP"} => Turned(client, f, o, "him", d, <<>>)
        ELSE /\ d = "YES" => Turned(client, f, o, "him", "WANTNO", <<"IAC", w, o>>)
             /\ d = "WANTYES" => Turned(client, f, o, "him", "WANTYES_OP", <<>>)
             /\ d = "WANTNO_OP" => Turned(client, f, o, "him", "WANTNO", <<>>)
             /\ d \notin {"YES", "WANTYES", "WANTNO_OP"} => Turned(client, f, o, "him", d, <<>>)
    BY <1>9, ClientAsks DEF f, Yes, Offers, Requests
  <2>2. ASSUME NEW stand, Turned(client, f, o, "him", stand, <<>>), stand = d \/ {d, stand} = Wants
        PROVE  NegOK(vS, kS, vC, kC, f, sin)
    <3>1. StandOf(f, o, "him") = stand /\ StandOf(f, o, "us") = c
      BY <1>1, <2>2 DEF Turned
    <3>2. HimOK(vS, kS, vC, kC, o, stand)
      BY <1>2, <2>2 DEF HimOK, Wants
    <3> QED BY <1>2, <1>6, <1>7, <2>2, <3>1, <3>2
  <2>3. ASSUME w = "DO", d = "NO", Turned(client, f, o, "him", "WANTYES", <<"IAC", w, o>>)
        PROVE  NegOK(wS, kS, vC, kC, f, sin)
    <3>1. StandOf(f, o, "him") = "WANTYES" /\ StandOf(f, o, "us") = c
      BY <1>1, <2>3 DEF Turned
    <3>2. None(vS, kS, Requests, o) /\ None(vC, kC, Offers, o)
      BY <1>2, <2>3 DEF HimOK, Wants
    <3>3. HimOK(wS, kS, vC, kC, o, "WANTYES")
      BY <1>5, <1>9, <2>3, <3>2 DEF HimOK, Wants
    <3>4. UsOK(wS, kS, vC, kC, o, c, s)
      BY <1>2, <1>4, <1>6, <1>9, UsKept DEF Offers, Requests
    <3> QED BY <1>4, <1>7, <2>3, <3>1, <3>3, <3>4
  <2>4. d \in {"NO"} \cup Wants
    BY <1>2 DEF HimOK
  <2>5. \/ \E stand : Turned(client, f, o, "him", stand, <<>>) /\ NegOK(vS, kS, vC, kC, f, sin)
        \/ \E stand : /\ Turned(client, f, o, "him", stand, <<"IAC", w, o>>)
                      /\ NegOK(wS, kS, vC, kC, f, sin)
    <3>1. CASE w = "DO" /\ d = "NO"
      BY <2>1, <2>3, <3>1
    <3>2. CASE w = "DO" /\ d = "WANTYES_OP"
      BY <2>1, <2>2, <3>2 DEF Wants
    <3>3. CASE w = "DO" /\ d = "WANTYES"
      BY <2>1, <2>2, <3>3
    <3>4. CASE w = "DONT" /\ d = "WANTYES"
      BY <2>1, <2>2, <3>4 DEF Wants
    <3>5. CASE w = "DONT" /\ d \notin {"YES", "WANTYES", "WANTNO_OP"}
      BY <2>1, <2>2, <3>5
    <3> QED BY <1>9, <2>4, <3>1, <3>2, <3>3, <3>4, <3>5 DEF Requests, Wants
  <2> QED BY <2>5 DEF f, u, wS
<1> QED BY <1>8, <1>9 DEF Verb, Offers, Requests

-----------------------------------------------------------------------------
(* A byte of the stream, and the end of a piece.                           *)

\* Of the places, the verbs are states of the same name.
LEMMA StateOfPlace ==
  ASSUME NEW x \in Place
  PROVE  /\ x.at = "top" <=> StateAt(x.at) = "DATA"
         /\ x.at = "cr" <=> StateAt(x.at) = "EOL"
         /\ x.at = "iac" <=> StateAt(x.at) = "IAC"
         /\ x.at = "sb" <=> StateAt(x.at) = "SB"
         /\ x.at = "sbdata" <=> StateAt(x.at) = "SB_DATA"
         /\ x.at = "sbiac" <=> StateAt(x.at) = "SB_DATA_IAC"
         /\ x.at \in Verb => StateAt(x.at) = x.at
         /\ x.at \notin Verb => StateAt(x.at) \notin Verb
         /\ StateAt(x.at) \notin {"AHEAD", "ASTRAY"}
<1>1. x.at \in {"top", "cr", "iac", "sb", "sbdata", "sbiac"} \cup Verb
  BY DEF Place
<1> QED BY <1>1 DEF StateAt, Verb

\* A byte that is no option of a verb.
LEMMA ByteProcessed ==
  ASSUME NEW e, NEW p, EngineOK(e, p), NEW ev \in Seq(Event), NEW vs, NEW x \in Place,
         NEW y, NEW b, x.at \notin Verb, Matches(e, x, ev), Go(x, b, y, ev, vs),
         ~ReceiveBinary(e)
  PROVE  Sober(e, Process(e, p, b)) /\ Matches(Process(e, p, b), y, ev) /\ y.m = x.m
<1>0. DOMAIN e = Fields /\ e.state = StateAt(x.at)
  BY DEF EngineOK, Matches
<1>1. CASE x.at = "top"
  <2>1. GoTop(x, b, y, ev)
    BY <1>1 DEF Go, Verb
  <2>2. Process(e, p, b) = InData(e, b)
    BY <1>0, <1>1, StateOfPlace DEF Process, Verb
  <2>3. y.m = x.m
    BY <2>1 DEF GoTop, Pl
  <2> QED BY <1>0, <1>1, <2>1, <2>2, <2>3, ByteInData
<1>2. CASE x.at = "cr"
  <2>1. GoCr(x, b, y, ev)
    BY <1>2 DEF Go, Verb
  <2>2. Process(e, p, b) = InEol(e, b)
    BY <1>0, <1>2, StateOfPlace DEF Process, Verb
  <2>3. y.m = x.m
    BY <2>1 DEF GoCr, Pl
  <2> QED BY <1>0, <1>2, <2>1, <2>2, <2>3, ByteInEol
<1>3. CASE x.at = "iac"
  <2>1. GoIac(x, b, y, ev)
    BY <1>3 DEF Go, Verb
  <2>2. Process(e, p, b) = InIac(e, b)
    BY <1>0, <1>3, StateOfPlace DEF Process, Verb
  <2>3. y.m = x.m
    BY <2>1 DEF GoIac, Pl
  <2> QED BY <1>0, <1>3, <2>1, <2>2, <2>3, ByteInIac
<1>4. CASE x.at = "sb"
  <2>1. GoSb(x, b, y, ev)
    BY <1>4 DEF Go, Verb
  <2>2. Process(e, p, b) = InSb(e, b)
    BY <1>0, <1>4, StateOfPlace DEF Process, Verb
  <2>3. y.m = x.m
    BY <2>1 DEF GoSb, Pl
  <2> QED BY <1>0, <1>4, <2>1, <2>2, <2>3, ByteInSb
<1>5. CASE x.at = "sbdata"
  <2>1. GoSbData(x, b, y, ev)
    BY <1>5 DEF Go, Verb
  <2>2. Process(e, p, b) = InSbData(e, b)
    BY <1>0, <1>5, StateOfPlace DEF Process, Verb
  <2>3. y.m = x.m
    BY <2>1 DEF GoSbData, Pl
  <2> QED BY <1>0, <1>5, <2>1, <2>2, <2>3, ByteInSbData
<1>6. CASE x.at = "sbiac"
  <2>1. GoSbIac(x, b, y, ev)
    BY <1>6 DEF Go, Verb
  <2>2. Process(e, p, b) = InSbDataIac(e, b)
    BY <1>0, <1>6, StateOfPlace DEF Process, Verb
  <2>3. y.m = x.m
    BY <2>1 DEF GoSbIac, Pl
  <2> QED BY <1>0, <1>6, <2>1, <2>2, <2>3, ByteInSbIac
<1>7. x.at \in {"top", "cr", "iac", "sb", "sbdata", "sbiac"}
  BY DEF Place
<1> QED BY <1>1, <1>2, <1>3, <1>4, <1>5, <1>6, <1>7

\* The option of a verb: the text is as it was.
LEMMA VerbProcessed ==
  ASSUME NEW e, NEW p, EngineOK(e, p), NEW ev \in Seq(Event), NEW vs, NEW x \in Place,
         NEW y, NEW b, x.at \in Verb, Matches(e, x, ev), Go(x, b, y, ev, vs),
         NEW o, NEW side, NEW stand, NEW sent,
         Turned(e, Negotiate(e, p, b), o, side, stand, sent)
  PROVE  /\ Process(e, p, b) = To(Negotiate(e, p, b), "DATA")
         /\ e.state = x.at /\ x.m < Len(vs) /\ vs[x.m + 1] = Saying(x.at, b)
         /\ Matches(Process(e, p, b), y, ev) /\ y.m = x.m + 1
<1> DEFINE g == Negotiate(e, p, b)
           f == To(g, "DATA")
<1>1. GoVerb(x, b, y, vs)
  BY DEF Go, Verb
<1>2. e.state = x.at
  BY StateOfPlace DEF Matches
<1>3. Process(e, p, b) = f
  BY <1>2 DEF Process, Verb
<1>4. y = Pl("top", x.n, 0, x.m + 1) /\ x.m < Len(vs) /\ vs[x.m + 1] = Saying(x.at, b)
  BY <1>1 DEF GoVerb, Saying
<1>5. DOMAIN g = Fields /\ g.got = e.got /\ g.run = e.run
  BY DEF Turned
<1> HIDE DEF g
<1>6. f.state = "DATA" /\ f.got = e.got /\ f.run = e.run
  BY <1>5, ToFields
<1>7. y.at = "top" /\ y.n = x.n /\ y.m = x.m + 1
  BY <1>4 DEF Pl
<1> HIDE DEF f
<1>8. Matches(f, y, ev)
  BY <1>6, <1>7 DEF Matches, StateAt, Handed
<1> QED BY <1>2, <1>3, <1>4, <1>7, <1>8 DEF f, g

\* What is left of the piece is handed on at its end.
LEMMA PieceEnded ==
  ASSUME NEW f, DOMAIN f = Fields, NEW ev \in Seq(Event), NEW y \in Place, Matches(f, y, ev)
  PROVE  Sober(f, EndPiece(f)) /\ Matches(EndPiece(f), y, ev) /\ EndPiece(f).run = <<>>
<1>1. CASE y.at = "top"
  <2> DEFINE g == HandRun(f)
  <2>1. EndPiece(f) = g
    BY <1>1 DEF EndPiece, Matches, StateAt
  <2>2. /\ Sober(f, g) /\ g.state = f.state /\ g.run = <<>>
        /\ g.got \in Seq(Event) /\ Handed(g) = Handed(f)
    BY HandRunFields DEF Matches
  <2> HIDE DEF g
  <2>3. <<>> \in Seq(Byte)
    OBVIOUS
  <2>4. Matches(g, y, ev)
    BY <1>1, <2>2, <2>3 DEF Matches
  <2> QED BY <2>1, <2>2, <2>4
<1>2. CASE y.at # "top"
  <2> DEFINE g == [f EXCEPT !.run = <<>>]
  <2>1. EndPiece(f) = g
    BY <1>2, StateOfPlace DEF EndPiece, Matches
  <2>2. /\ Sober(f, g) /\ g.state = f.state /\ g.got = f.got /\ g.run = <<>>
        /\ g.sb_telopt = f.sb_telopt /\ g.buffer = f.buffer
    BY DEF Sober, Fields
  <2>3. f.run = <<>>
    BY <1>2 DEF Matches
  <2> HIDE DEF g
  <2>4. Matches(g, y, ev)
    BY <1>2, <2>2, <2>3 DEF Matches, Handed
  <2> QED BY <2>1, <2>2, <2>4
<1> QED BY <1>1, <1>2

-----------------------------------------------------------------------------
(* What is on its way: on the wire, with libuv, and in the output buffer.  *)

RestOf(o, r) == IF r = NoWrite THEN <<>> ELSE SubSeq(o.base, r[1], r[2])

InUse(o) == SubSeq(o.base, 1, o.len)

StreamOf(p, w, o, r) ==
  IF p = "sin" THEN w["sin"] ELSE (w["client"] \o RestOf(o, r)) \o InUse(o)

Stream(p) == StreamOf(p, wire, outbuf, pending)

OutOK(o, r) ==
  /\ o.base \in Seq(Byte) /\ o.len \in 0 .. Len(o.base)
  /\ r = NoWrite \/ (/\ o.len = 0 /\ r[1] \in Nat /\ r[2] \in Nat
                     /\ 2 <= r[1] /\ r[1] <= r[2] /\ r[2] <= Len(o.base))

WireOK(w) == w["sin"] \in Seq(Byte) /\ w["client"] \in Seq(Byte) /\ DOMAIN w = End

LEMMA PartOfBytes ==
  ASSUME NEW s \in Seq(Byte), NEW i \in Nat, 1 <= i, NEW j \in Nat, j <= Len(s)
  PROVE  SubSeq(s, i, j) \in Seq(Byte)
<1>1. Len(s) \in Nat /\ \A k \in 1 .. Len(s) : s[k] \in Byte
  BY LenProperties, ElementOfSeq
<1>2. \A k \in i .. j : s[k] \in Byte
  BY <1>1
<1>3. i \in Int /\ j \in Int
  OBVIOUS
<1> QED BY <1>2, <1>3, SubSeqProperties

LEMMA StreamTypes ==
  ASSUME NEW w, WireOK(w), NEW o, NEW r, OutOK(o, r)
  PROVE  /\ RestOf(o, r) \in Seq(Byte) /\ InUse(o) \in Seq(Byte)
         /\ \A p \in End : StreamOf(p, w, o, r) \in Seq(Byte)
<1>1. RestOf(o, r) \in Seq(Byte)
  <2>1. CASE r = NoWrite
    BY <2>1 DEF RestOf
  <2>2. CASE r # NoWrite
    <3>1. SubSeq(o.base, r[1], r[2]) \in Seq(Byte)
      BY <2>2, PartOfBytes DEF OutOK
    <3> QED BY <2>2, <3>1 DEF RestOf
  <2> QED BY <2>1, <2>2
<1>2. InUse(o) \in Seq(Byte)
  <2>1. o.base \in Seq(Byte) /\ Len(o.base) \in Nat /\ o.len \in Nat /\ o.len <= Len(o.base)
    BY LenProperties DEF OutOK
  <2> QED BY <2>1, PartOfBytes DEF InUse
<1>3. w["client"] \o RestOf(o, r) \in Seq(Byte)
  BY <1>1, ConcatProperties DEF WireOK
<1>4. (w["client"] \o RestOf(o, r)) \o InUse(o) \in Seq(Byte)
  BY <1>2, <1>3, ConcatProperties
<1> QED BY <1>1, <1>2, <1>4 DEF StreamOf, WireOK, End

\* What is put behind the buffer in use becomes a part of it.
LEMMA OutputAppended ==
  ASSUME NEW o, OutOK(o, NoWrite), NEW bytes \in Seq(Byte)
  PROVE  /\ OutOK(append_output(o, bytes), NoWrite)
         /\ InUse(append_output(o, bytes)) = InUse(o) \o bytes
<1> DEFINE n == Len(bytes)
           end == o.len + n
           used == SubSeq(o.base, 1, o.len)
           a == used \o bytes
           rest == SubSeq(o.base, end + 1, Len(o.base))
           base == a \o rest
<1>1. /\ o.base \in Seq(Byte) /\ Len(o.base) \in Nat /\ o.len \in Nat /\ o.len <= Len(o.base)
      /\ n \in Nat /\ end \in Nat
  BY LenProperties DEF OutOK
<1>2. used \in Seq(Byte) /\ Len(used) = o.len
  <2>1. \A i \in 1 .. o.len : o.base[i] \in Byte
    BY <1>1, ElementOfSeq
  <2> QED BY <1>1, <2>1, SubSeqProperties
<1>3. rest \in Seq(Byte)
  BY <1>1, PartOfBytes
<1> HIDE DEF rest, used
<1>4. a \in Seq(Byte) /\ Len(a) = end
  BY <1>1, <1>2, ConcatProperties
<1> HIDE DEF a
<1>5. base \in Seq(Byte) /\ Len(base) = end + Len(rest) /\ Len(rest) \in Nat
  BY <1>3, <1>4, ConcatProperties, LenProperties
<1>6. SubSeq(base, 1, end) = a
  <2>1. \A i \in 1 .. end : base[i] = a[i]
    BY <1>1, <1>3, <1>4, ConcatProperties
  <2> HIDE DEF base
  <2>2. \A i \in 1 .. end : base[i] \in Byte
    BY <1>1, <1>5, ElementOfSeq
  <2> DEFINE c == SubSeq(base, 1, end)
  <2>3. c \in Seq(Byte) /\ Len(c) = end /\ \A i \in 1 .. end : c[i] = base[i]
    BY <1>1, <2>2, SubSeqProperties
  <2> HIDE DEF c, end
  <2>4. c = a
    BY <1>4, <2>1, <2>3, SeqEqual
  <2> QED BY <2>4 DEF c
<1> DEFINE f == append_output(o, bytes)
<1>7. f.base = base /\ f.len = end
  BY DEF append_output, base, a, used, rest
<1> HIDE DEF f, base, end
<1>8. end \in 0 .. Len(base)
  BY <1>1, <1>5
<1>9. OutOK(f, NoWrite)
  BY <1>5, <1>7, <1>8 DEF OutOK
<1>10. InUse(f) = InUse(o) \o bytes
  BY <1>6, <1>7 DEF InUse, a, used
<1> QED BY <1>9, <1>10 DEF f

LEMMA TailOfConcat ==
  ASSUME NEW S, NEW s \in Seq(S), s # <<>>, NEW t \in Seq(S)
  PROVE  s \o t # <<>> /\ Head(s \o t) = Head(s) /\ Tail(s \o t) = Tail(s) \o t
<1> DEFINE u == s \o t
           a == Tail(s)
           v == a \o t
<1>1. Len(s) \in Nat \ {0} /\ Len(t) \in Nat
  BY EmptySeq, LenProperties
<1>2. /\ u \in Seq(S) /\ Len(u) = Len(s) + Len(t)
      /\ \A i \in 1 .. Len(u) : u[i] = IF i <= Len(s) THEN s[i] ELSE t[i - Len(s)]
  BY ConcatProperties
<1>3. a \in Seq(S) /\ Len(a) = Len(s) - 1 /\ \A i \in 1 .. Len(a) : a[i] = s[i + 1]
  BY HeadTailProperties
<1> HIDE DEF u, a
<1>4. u # <<>>
  BY <1>1, <1>2
<1>5. Head(u) = Head(s)
  <2>1. u[1] = s[1]
    BY <1>1, <1>2
  <2> QED BY <2>1
<1>6. /\ Tail(u) \in Seq(S) /\ Len(Tail(u)) = Len(u) - 1
      /\ \A i \in 1 .. Len(Tail(u)) : Tail(u)[i] = u[i + 1]
  BY <1>2, <1>4, HeadTailProperties
<1>7. /\ v \in Seq(S) /\ Len(v) = Len(a) + Len(t)
      /\ \A i \in 1 .. Len(v) : v[i] = IF i <= Len(a) THEN a[i] ELSE t[i - Len(a)]
  <2>1. /\ v \in Seq(S) /\ Len(v) = Len(a) + Len(t)
        /\ \A i \in 1 .. Len(a) + Len(t) : v[i] = IF i <= Len(a) THEN a[i] ELSE t[i - Len(a)]
    BY <1>3, ConcatProperties
  <2> HIDE DEF v
  <2> QED BY <2>1
<1> DEFINE w == Tail(u)
<1> HIDE DEF v, w
<1>8. ASSUME NEW i \in 1 .. Len(w) PROVE w[i] = v[i]
  <2>1. i \in 1 .. Len(v) /\ i + 1 \in 1 .. Len(u) /\ w[i] = u[i + 1]
    BY <1>1, <1>2, <1>3, <1>6, <1>7 DEF w
  <2>2. CASE i <= Len(a)
    BY <1>1, <1>2, <1>3, <1>7, <2>1, <2>2, SMTT(30)
  <2>3. CASE ~(i <= Len(a))
    <3>1. (i + 1) - Len(s) = i - Len(a) /\ ~(i + 1 <= Len(s))
      BY <1>1, <1>3, <2>1, <2>3
    <3> QED BY <1>2, <1>7, <2>1, <2>3, <3>1
  <2> QED BY <2>2, <2>3
<1>9. Len(w) = Len(v)
  BY <1>1, <1>2, <1>3, <1>6, <1>7 DEF w
<1>10. w = v
  BY <1>6, <1>7, <1>8, <1>9, SeqEqual DEF w
<1> QED BY <1>4, <1>5, <1>10 DEF u, v, w, a

\* A flush only hands what is buffered to libuv.
LEMMA FlushKeepsStreams ==
  ASSUME WireOK(wire), OutOK(outbuf, pending), Rough \subseteq {"slow"}, Flush
  PROVE  /\ WireOK(wire') /\ OutOK(outbuf', pending')
         /\ \A p \in End : wire'[p] = <<>> => wire[p] = <<>>
         /\ StreamOf("sin", wire', outbuf', pending') = Stream("sin")
         /\ StreamOf("client", wire', outbuf', pending') = Stream("client")
<1>1. PICK taken \in 0 .. outbuf.len : taken # 0 /\ flush_output(taken)
  BY DEF Flush, flush_output
<1> DEFINE w == wire["client"]
           b == outbuf.base
           len == outbuf.len
           A == SubSeq(b, 1, taken)
           B == SubSeq(b, taken + 1, len)
           v == wire'["client"]
<1>2. pending = NoWrite
  BY DEF Flush
<1>3. /\ b \in Seq(Byte) /\ Len(b) \in Nat /\ len \in Nat /\ len <= Len(b)
      /\ taken \in Nat /\ 1 <= taken /\ taken <= len
  BY <1>1, LenProperties DEF OutOK
<1>4. A \in Seq(Byte) /\ B \in Seq(Byte) /\ w \in Seq(Byte) /\ InUse(outbuf) \in Seq(Byte)
  BY <1>3, PartOfBytes DEF WireOK, InUse
<1>5. v = w \o A /\ wire'["sin"] = wire["sin"] /\ DOMAIN wire' = End
  BY <1>1 DEF flush_output, WireOK, End
<1>6. Stream("client") = w \o InUse(outbuf)
  <2>1. w \o <<>> = w
    BY <1>4, ConcatEmptySeq
  <2> QED BY <1>2, <2>1 DEF Stream, StreamOf, RestOf
<1>7. w \o A \in Seq(Byte)
  BY <1>4, ConcatProperties
<1>8. WireOK(wire')
  BY <1>5, <1>7 DEF WireOK
<1>9. \A p \in End : wire'[p] = <<>> => wire[p] = <<>>
  <2>1. w \o A = <<>> => w = <<>>
    BY <1>4, ConcatEqualIffEmpty
  <2> QED BY <1>5, <2>1 DEF End
<1>10. StreamOf("sin", wire', outbuf', pending') = Stream("sin")
  BY <1>5 DEF Stream, StreamOf
<1>11. SubSeq(<<>>, 1, 0) = <<>> /\ SubSeq([b EXCEPT ![1] = "NUL"], 1, 0) = <<>>
  BY SubSeqEmpty
<1>12. CASE taken = len
  <2>1. outbuf' = [base |-> <<>>, len |-> 0] /\ pending' = NoWrite
    BY <1>1, <1>12 DEF flush_output
  <2>2. OutOK(outbuf', pending')
    BY <2>1 DEF OutOK
  <2>3. InUse(outbuf') = <<>> /\ RestOf(outbuf', pending') = <<>>
    BY <1>11, <2>1 DEF InUse, RestOf
  <2>4. ((w \o A) \o <<>>) \o <<>> = w \o A
    BY <1>7, ConcatEmptySeq
  <2>5. A = InUse(outbuf)
    BY <1>12 DEF InUse
  <2>6. StreamOf("client", wire', outbuf', pending') = Stream("client")
    BY <1>5, <1>6, <2>3, <2>4, <2>5 DEF StreamOf
  <2> QED BY <1>8, <1>10, <1>9, <2>2, <2>6
<1>13. CASE taken # len
  <2> DEFINE c == [b EXCEPT ![1] = "NUL"]
  <2>1. outbuf'.base = c /\ outbuf'.len = 0 /\ pending' = <<taken + 1, len>>
    BY <1>1, <1>13 DEF flush_output
  <2>2. pending'[1] = taken + 1 /\ pending'[2] = len /\ pending' # NoWrite
    BY <1>3, <2>1 DEF NoWrite
  <2>3. c \in Seq(Byte) /\ Len(c) = Len(b) /\ \A j \in 2 .. Len(b) : c[j] = b[j]
    <3>1. "NUL" \in Byte /\ 1 \in 1 .. Len(b)
      BY <1>3 DEF Byte, Text
    <3> QED BY <1>3, <3>1, ExceptSeq
  <2> HIDE DEF c
  <2>4. OutOK(outbuf', pending')
    BY <1>3, <1>13, <2>1, <2>2, <2>3 DEF OutOK
  <2>5. InUse(outbuf') = <<>>
    <3>1. SubSeq(c, 1, 0) = <<>>
      BY SubSeqEmpty
    <3> QED BY <2>1, <3>1 DEF InUse
  <2>6. RestOf(outbuf', pending') = B
    <3> DEFINE C == SubSeq(c, taken + 1, len)
    <3>0. taken + 1 \in Int /\ len \in Int /\ taken + 1 <= len
      BY <1>3, <1>13
    <3>1. \A i \in taken + 1 .. len : c[i] = b[i] /\ c[i] \in Byte /\ b[i] \in Byte
      BY <1>3, <2>3, ElementOfSeq
    <3>2. /\ C \in Seq(Byte) /\ Len(C) = len - (taken + 1) + 1
          /\ \A i \in 1 .. len - (taken + 1) + 1 : C[i] = c[(taken + 1) + i - 1]
      BY <3>0, <3>1, SubSeqProperties
    <3>3. /\ B \in Seq(Byte) /\ Len(B) = len - (taken + 1) + 1
          /\ \A i \in 1 .. len - (taken + 1) + 1 : B[i] = b[(taken + 1) + i - 1]
      BY <3>0, <3>1, SubSeqProperties
    <3> HIDE DEF B, C, len
    <3>4. \A i \in 1 .. Len(C) : (taken + 1) + i - 1 \in taken + 1 .. len
      BY <1>3, <3>2
    <3>5. \A i \in 1 .. Len(C) : C[i] = B[i]
      BY <3>1, <3>2, <3>3, <3>4
    <3>6. C = B
      BY <3>2, <3>3, <3>5, SeqEqual
    <3> QED BY <2>1, <2>2, <3>6 DEF RestOf, C
  <2>7. A \o B = InUse(outbuf)
    <3>1. 1 \in 1 .. Len(b) + 1 /\ taken \in 1 - 1 .. Len(b) /\ len \in taken .. Len(b)
      BY <1>3
    <3> QED BY <1>3, <3>1, ConcatAdjacentSubSeq DEF InUse
  <2> HIDE DEF A, B, w, v
  <2>8. ((w \o A) \o B) \o <<>> = w \o (A \o B)
    <3>1. (w \o A) \o B = w \o (A \o B)
      BY <1>4, ConcatAssociative
    <3>2. (w \o A) \o B \in Seq(Byte)
      BY <1>4, <1>7, ConcatProperties
    <3> QED BY <3>1, <3>2, ConcatEmptySeq
  <2>9. StreamOf("client", wire', outbuf', pending') = (v \o B) \o <<>>
    BY <2>5, <2>6 DEF StreamOf, v
  <2>10. StreamOf("client", wire', outbuf', pending') = Stream("client")
    BY <1>5, <1>6, <2>7, <2>8, <2>9
  <2> QED BY <1>8, <1>10, <1>9, <2>4, <2>10
<1> QED BY <1>8, <1>12, <1>13, <1>9

\* So does the socket that takes the rest.
LEMMA DrainKeepsStreams ==
  ASSUME WireOK(wire), OutOK(outbuf, pending), Drain
  PROVE  /\ WireOK(wire') /\ OutOK(outbuf', pending')
         /\ \A p \in End : wire'[p] = <<>> => wire[p] = <<>>
         /\ StreamOf("sin", wire', outbuf', pending') = Stream("sin")
         /\ StreamOf("client", wire', outbuf', pending') = Stream("client")
<1> DEFINE w == wire["client"]
           B == RestOf(outbuf, pending)
           C == InUse(outbuf)
<1>1. B \in Seq(Byte) /\ w \in Seq(Byte) /\ C \in Seq(Byte)
  BY StreamTypes DEF WireOK
<1>2. /\ wire'["client"] = w \o B /\ wire'["sin"] = wire["sin"] /\ DOMAIN wire' = End
      /\ outbuf' = outbuf /\ pending' = NoWrite
  BY DEF Drain, RestOf, WireOK, End
<1>3. RestOf(outbuf', pending') = <<>> /\ InUse(outbuf') = C
  BY <1>2 DEF RestOf, InUse
<1>4. Stream("client") = (w \o B) \o C
  BY DEF Stream, StreamOf
<1> HIDE DEF w, B, C
<1>5. w \o B \in Seq(Byte) /\ (w \o B) \o <<>> = w \o B
  BY <1>1, ConcatProperties, ConcatEmptySeq
<1>6. WireOK(wire')
  BY <1>2, <1>5 DEF WireOK
<1>7. OutOK(outbuf', pending')
  BY <1>2 DEF OutOK
<1>8. StreamOf("client", wire', outbuf', pending') = Stream("client")
  BY <1>2, <1>3, <1>4, <1>5 DEF StreamOf
<1>9. StreamOf("sin", wire', outbuf', pending') = Stream("sin")
  BY <1>2 DEF StreamOf, Stream
<1>10. \A p \in End : wire'[p] = <<>> => wire[p] = <<>>
  <2>1. w \o B = <<>> => w = <<>>
    BY <1>1, ConcatEqualIffEmpty
  <2> QED BY <1>2, <2>1 DEF End, w
<1> QED BY <1>6, <1>7, <1>8, <1>9, <1>10

\* What an engine sends is behind all that is on its way to the other end.
LEMMA PutStreams ==
  ASSUME WireOK(wire), OutOK(outbuf, pending), NEW p \in End,
         p = "sin" => pending = NoWrite, NEW e, e.sent \in Seq(Byte),
         NEW left \in Seq(Byte), Put(p, e, left), UNCHANGED pending
  PROVE  LET new(q) == StreamOf(q, wire', outbuf', pending') IN
         /\ WireOK(wire') /\ OutOK(outbuf', pending')
         /\ wire'[p] = left
         /\ wire'[Peer(p)] = <<>> => wire[Peer(p)] = <<>>
         /\ new(Peer(p)) = Stream(Peer(p)) \o e.sent
         /\ left = wire[p] => new(p) = Stream(p)
         /\ wire[p] # <<>> /\ left = Tail(wire[p]) =>
              /\ Stream(p) # <<>> /\ Head(Stream(p)) = Head(wire[p])
              /\ new(p) = Tail(Stream(p))
<1> DEFINE sent == e.sent
           B == RestOf(outbuf, pending)
           C == InUse(outbuf)
           w == wire["client"]
<1>0. sent \in Seq(Byte) /\ pending' = pending
  OBVIOUS
<1>1. B \in Seq(Byte) /\ w \in Seq(Byte) /\ C \in Seq(Byte)
  BY StreamTypes DEF WireOK
<1>2. CASE p = "sin"
  <2>1. /\ outbuf' = append_output(outbuf, sent)
        /\ wire'["sin"] = left /\ wire'["client"] = w /\ DOMAIN wire' = End
    BY <1>2 DEF Put, WireOK, End
  <2>2. OutOK(outbuf', pending') /\ InUse(outbuf') = C \o sent
    BY <1>0, <1>2, <2>1, OutputAppended
  <2>3. RestOf(outbuf', pending') = B /\ B = <<>>
    BY <1>0, <1>2 DEF RestOf
  <2>4. WireOK(wire')
    BY <1>1, <2>1 DEF WireOK
  <2>5. Stream("client") = (w \o B) \o C
    BY DEF Stream, StreamOf
  <2> HIDE DEF w, B, C, sent
  <2>6. (w \o B) \o (C \o sent) = ((w \o B) \o C) \o sent
    <3> DEFINE v == w \o B
    <3>1. v \in Seq(Byte)
      BY <1>1, ConcatProperties
    <3> HIDE DEF v
    <3>2. sent \in Seq(Byte) /\ C \in Seq(Byte)
      BY <1>0, <1>1
    <3>3. (v \o C) \o sent = v \o (C \o sent)
      BY <3>1, <3>2, ConcatAssociative, SMTT(30)
    <3> QED BY <3>3 DEF v
  <2>7. StreamOf("client", wire', outbuf', pending') = Stream("client") \o sent
    BY <2>1, <2>2, <2>3, <2>5, <2>6 DEF StreamOf
  <2>8. StreamOf("sin", wire', outbuf', pending') = left /\ Stream("sin") = wire["sin"]
    BY <2>1 DEF StreamOf, Stream
  <2>9. Peer(p) = "client"
    BY <1>2 DEF Peer
  <2> QED BY <1>2, <2>1, <2>2, <2>4, <2>7, <2>8, <2>9 DEF sent, w
<1>3. CASE p = "client"
  <2>1. /\ outbuf' = outbuf
        /\ wire'["sin"] = wire["sin"] \o sent /\ wire'["client"] = left /\ DOMAIN wire' = End
    BY <1>3 DEF Put, WireOK, End
  <2>2. RestOf(outbuf', pending') = B /\ InUse(outbuf') = C /\ OutOK(outbuf', pending')
    BY <1>0, <2>1
  <2>3. wire["sin"] \in Seq(Byte)
    BY DEF WireOK
  <2>4. wire["sin"] \o sent \in Seq(Byte)
    BY <1>0, <2>3, ConcatProperties
  <2>5. WireOK(wire')
    BY <2>1, <2>4 DEF WireOK
  <2>6. wire["sin"] \o sent = <<>> => wire["sin"] = <<>>
    BY <1>0, <2>3, ConcatEqualIffEmpty
  <2>7. Stream("client") = (w \o B) \o C
    BY DEF Stream, StreamOf
  <2>8. StreamOf("client", wire', outbuf', pending') = (left \o B) \o C
    BY <2>1, <2>2 DEF StreamOf
  <2>9. StreamOf("sin", wire', outbuf', pending') = Stream("sin") \o sent
    BY <2>1 DEF StreamOf, Stream
  <2> HIDE DEF B, C
  <2>10. ASSUME w # <<>>
         PROVE  /\ (w \o B) \o C # <<>> /\ Head((w \o B) \o C) = Head(w)
                /\ Tail((w \o B) \o C) = (Tail(w) \o B) \o C
    <3> HIDE DEF w
    <3>1. /\ w \o B # <<>> /\ Head(w \o B) = Head(w) /\ Tail(w \o B) = Tail(w) \o B
      BY <1>1, <2>10, TailOfConcat
    <3>2. w \o B \in Seq(Byte)
      BY <1>1, ConcatProperties
    <3> DEFINE v == w \o B
    <3> HIDE DEF v
    <3>3. v \o C # <<>> /\ Head(v \o C) = Head(v) /\ Tail(v \o C) = Tail(v) \o C
      BY <1>1, <3>1, <3>2, TailOfConcat DEF v
    <3> QED BY <3>1, <3>3 DEF v
  <2>11. Peer(p) = "sin"
    BY <1>3 DEF Peer
  <2> HIDE DEF sent
  <2>12. left = w => StreamOf("client", wire', outbuf', pending') = Stream("client")
    BY <2>7, <2>8
  <2>13. w # <<>> /\ left = Tail(w) =>
           /\ Stream("client") # <<>> /\ Head(Stream("client")) = Head(w)
           /\ StreamOf("client", wire', outbuf', pending') = Tail(Stream("client"))
    BY <2>7, <2>8, <2>10
  <2> QED BY <1>3, <2>1, <2>2, <2>5, <2>6, <2>9, <2>11, <2>12, <2>13 DEF sent
<1> QED BY <1>2, <1>3 DEF End

-----------------------------------------------------------------------------
(* An end that reads.                                                      *)

\* The engine has s still to read of what ev and vs were made into, and has
\* read k of the verbs.
ReaderOK(e, s, ev, vs, k) ==
  \E x \in Place :
    /\ Matches(e, x, ev) /\ x.m = k
    /\ Parsed(x, s, Pl("top", Len(ev), 0, Len(vs)), ev, vs)

\* What is to come changes nothing of what came.
LEMMA MatchesMore ==
  ASSUME NEW e, NEW x \in Place, NEW ev \in Seq(Event), NEW more \in Seq(Event),
         Matches(e, x, ev)
  PROVE  Matches(e, x, ev \o more)
<1> DEFINE ew == ev \o more
           a == SubSeq(ev, 1, x.n)
           b == SubSeq(ew, 1, x.n)
<1>1. x.n \in Nat /\ x.n <= Len(ev) /\ Len(ev) \in Nat /\ Len(more) \in Nat
  BY LenProperties DEF Matches, Place
<1>2. /\ ew \in Seq(Event) /\ Len(ew) = Len(ev) + Len(more)
      /\ \A i \in 1 .. Len(ev) : ew[i] = ev[i]
  <2>1. /\ ew \in Seq(Event) /\ Len(ew) = Len(ev) + Len(more)
        /\ \A i \in 1 .. Len(ev) + Len(more) :
             ew[i] = IF i <= Len(ev) THEN ev[i] ELSE more[i - Len(ev)]
    BY ConcatProperties
  <2> HIDE DEF ew
  <2> QED BY <1>1, <2>1
<1> HIDE DEF ew
<1>3. \A i \in 1 .. x.n : ev[i] \in Event /\ ew[i] = ev[i]
  BY <1>1, <1>2, ElementOfSeq
<1>4. a \in Seq(Event) /\ Len(a) = x.n /\ \A i \in 1 .. x.n : a[i] = ev[i]
  BY <1>1, <1>3, SubSeqProperties
<1>5. b \in Seq(Event) /\ Len(b) = x.n /\ \A i \in 1 .. x.n : b[i] = ew[i]
  BY <1>1, <1>3, SubSeqProperties
<1> HIDE DEF a, b
<1>6. a = b
  BY <1>3, <1>4, <1>5, SeqEqual
<1>7. IsSub(ev, x.n + 1) => IsSub(ew, x.n + 1) /\ ew[x.n + 1] = ev[x.n + 1]
  BY <1>1, <1>2 DEF IsSub
<1>8. x.n <= Len(ew)
  BY <1>1, <1>2
<1>9. Matches(e, x, ew)
  BY <1>6, <1>7, <1>8 DEF Matches, a, b
<1> QED BY <1>9 DEF ew

LEMMA ReaderHearsMore ==
  ASSUME NEW e, NEW s \in Seq(Byte), NEW t \in Seq(Byte), NEW ev \in Seq(Event),
         NEW more \in Seq(Event), NEW vs \in Seq(Said), NEW mv \in Seq(Said), NEW k,
         ReaderOK(e, s, ev, vs, k),
         Parsed(Pl("top", Len(ev), 0, Len(vs)), t,
                Pl("top", Len(ev \o more), 0, Len(vs \o mv)), ev \o more, vs \o mv)
  PROVE  ReaderOK(e, s \o t, ev \o more, vs \o mv, k)
<1> DEFINE ew == ev \o more
           vw == vs \o mv
           y == Pl("top", Len(ev), 0, Len(vs))
           z == Pl("top", Len(ew), 0, Len(vw))
<1>1. PICK x \in Place : /\ Matches(e, x, ev) /\ x.m = k
                         /\ Parsed(x, s, y, ev, vs)
  BY DEF ReaderOK
<1>2. Matches(e, x, ew)
  BY <1>1, MatchesMore
<1>3. Parsed(x, s, y, ew, vw)
  BY <1>1, ParsedMore
<1>4. ew \in Seq(Event) /\ vw \in Seq(Said)
  BY ConcatProperties
<1> HIDE DEF ew, vw
<1>5. Len(ev) \in Nat /\ Len(vs) \in Nat /\ Len(ew) \in Nat /\ Len(vw) \in Nat
  BY <1>4, LenProperties
<1>6. y \in Place /\ z \in Place
  BY <1>5, PlIsPlace
<1>7. Parsed(y, t, z, ew, vw)
  BY DEF ew, vw
<1> HIDE DEF y, z
<1>8. Parsed(x, s \o t, z, ew, vw)
  BY <1>3, <1>6, <1>7, ParsedBoth
<1>9. ReaderOK(e, s \o t, ew, vw, k)
  BY <1>1, <1>2, <1>8 DEF ReaderOK, z
<1> QED BY <1>9 DEF ew, vw

\* A byte is read, and perhaps the end of the piece.
Came(e, p, b, last) == IF last THEN EndPiece(Process(e, p, b)) ELSE Process(e, p, b)

LEMMA CameAfter ==
  ASSUME NEW e, NEW p, NEW b, NEW last \in BOOLEAN, NEW ev \in Seq(Event), NEW y \in Place,
         DOMAIN Process(e, p, b) = Fields, Matches(Process(e, p, b), y, ev)
  PROVE  /\ Matches(Came(e, p, b, last), y, ev)
         /\ Came(e, p, b, last).q = Process(e, p, b).q
         /\ Came(e, p, b, last).sent = Process(e, p, b).sent
         /\ "crossed" \notin Process(e, p, b).warned => "crossed" \notin Came(e, p, b, last).warned
         /\ last => Came(e, p, b, last).run = <<>>
<1> DEFINE f == Process(e, p, b)
<1> HIDE DEF f
<1>1. DOMAIN f = Fields /\ Matches(f, y, ev)
  BY DEF f
<1>2. Sober(f, EndPiece(f)) /\ Matches(EndPiece(f), y, ev) /\ EndPiece(f).run = <<>>
  BY <1>1, PieceEnded
<1>3. Came(e, p, b, last) = IF last THEN EndPiece(f) ELSE f
  BY DEF Came, f
<1>4. CASE last
  <2>1. Came(e, p, b, last) = EndPiece(f)
    BY <1>3, <1>4
  <2> QED BY <1>2, <2>1 DEF Sober, f
<1>5. CASE ~last
  <2>1. Came(e, p, b, last) = f
    BY <1>3, <1>5
  <2> QED BY <1>1, <1>5, <2>1 DEF f
<1> QED BY <1>4, <1>5

\* A byte b of no verb changes neither options nor what is sent; the option of
\* a verb is the next of the verbs that were said.
OtherRead(e, f, s, ev, vs, k, last) ==
  /\ ReaderOK(f, s, ev, vs, k)
  /\ f.q = e.q /\ f.sent = e.sent /\ "crossed" \notin f.warned
  /\ last => f.run = <<>>

OptionRead(e, f, b, g, s, ev, vs, k, last) ==
  /\ e.state \in Verb /\ b \in Option
  /\ k < Len(vs) /\ vs[k + 1] = Saying(e.state, b)
  /\ \A side, stand, sent :
       Turned(e, g, b, side, stand, sent) =>
         /\ ReaderOK(f, s, ev, vs, k + 1)
         /\ f.q = g.q /\ f.sent = sent /\ "crossed" \notin f.warned
         /\ last => f.run = <<>>

LEMMA ReaderReads ==
  ASSUME NEW e, NEW p, EngineOK(e, p), NEW s \in Seq(Byte), s # <<>>, NEW ev \in Seq(Event),
         NEW vs \in Seq(Said), NEW k \in Nat, ReaderOK(e, s, ev, vs, k), ~ReceiveBinary(e),
         NEW last \in BOOLEAN, "crossed" \notin e.warned
  PROVE  LET f == Came(e, p, Head(s), last) IN
         \/ OtherRead(e, f, Tail(s), ev, vs, k, last)
         \/ OptionRead(e, f, Head(s), Negotiate(e, p, Head(s)), Tail(s), ev, vs, k, last)
<1> DEFINE b == Head(s)
           f == Came(e, p, b, last)
           g == Negotiate(e, p, b)
           h == Process(e, p, b)
           z == Pl("top", Len(ev), 0, Len(vs))
<1>1. PICK x \in Place : Matches(e, x, ev) /\ x.m = k /\ Parsed(x, s, z, ev, vs)
  BY DEF ReaderOK
<1>2. z \in Place
  BY LenProperties, PlIsPlace
<1> HIDE DEF z
<1>3. PICK y \in Place : Go(x, b, y, ev, vs) /\ Parsed(y, Tail(s), z, ev, vs)
  BY <1>1, <1>2, ParsedHead
<1> HIDE DEF b
<1>4. ASSUME Matches(f, y, ev) PROVE ReaderOK(f, Tail(s), ev, vs, y.m)
  <2> HIDE DEF f
  <2> QED BY <1>3, <1>4 DEF ReaderOK, z
<1>5. CASE x.at \notin Verb
  <2>1. Sober(e, h) /\ Matches(h, y, ev) /\ y.m = k
    BY <1>1, <1>3, <1>5, ByteProcessed
  <2>2. DOMAIN h = Fields /\ h.q = e.q /\ h.sent = e.sent /\ "crossed" \notin h.warned
    BY <2>1 DEF Sober
  <2>3. /\ Matches(f, y, ev) /\ f.q = h.q /\ f.sent = h.sent
        /\ "crossed" \notin h.warned => "crossed" \notin f.warned
        /\ last => f.run = <<>>
    BY <2>1, <2>2, CameAfter
  <2> HIDE DEF f, h
  <2>4. ReaderOK(f, Tail(s), ev, vs, k)
    BY <1>4, <2>1, <2>3
  <2>5. OtherRead(e, f, Tail(s), ev, vs, k, last)
    BY <2>2, <2>3, <2>4 DEF OtherRead
  <2> QED BY <2>5 DEF f, b
<1>6. CASE x.at \in Verb
  <2>1. GoVerb(x, b, y, vs)
    BY <1>3, <1>6 DEF Go, Verb
  <2>2. e.state = x.at
    BY <1>1, <1>6, StateOfPlace DEF Matches
  <2>3. k < Len(vs) /\ vs[k + 1] = Saying(e.state, b)
    BY <1>1, <2>1, <2>2 DEF GoVerb, Saying
  <2>4. b \in Option
    <3>1. k + 1 \in 1 .. Len(vs)
      BY <2>3, LenProperties
    <3>2. vs[k + 1] \in Said
      BY <3>1, ElementOfSeq
    <3> QED BY <2>3, <3>2 DEF Said, Saying
  <2>5. ASSUME NEW side, NEW stand, NEW sent, Turned(e, g, b, side, stand, sent)
        PROVE  /\ ReaderOK(f, Tail(s), ev, vs, k + 1)
               /\ f.q = g.q /\ f.sent = sent /\ "crossed" \notin f.warned
               /\ last => f.run = <<>>
    <3>1. h = To(g, "DATA") /\ Matches(h, y, ev) /\ y.m = k + 1
      BY <1>1, <1>3, <1>6, <2>5, VerbProcessed
    <3>2. DOMAIN g = Fields /\ g.sent = sent /\ g.warned = e.warned
      BY <2>5 DEF Turned
    <3> DEFINE d == To(g, "DATA")
    <3>3. DOMAIN d = Fields /\ d.q = g.q /\ d.sent = g.sent /\ d.warned = g.warned
      BY <3>2 DEF To, Fields
    <3> HIDE DEF d, g
    <3>4. DOMAIN h = Fields /\ h.q = g.q /\ h.sent = sent /\ "crossed" \notin h.warned
      BY <3>1, <3>2, <3>3 DEF d
    <3>5. /\ Matches(f, y, ev) /\ f.q = h.q /\ f.sent = h.sent
          /\ "crossed" \notin h.warned => "crossed" \notin f.warned
          /\ last => f.run = <<>>
      BY <3>1, <3>4, CameAfter
    <3> HIDE DEF f, h
    <3>6. ReaderOK(f, Tail(s), ev, vs, k + 1)
      BY <1>4, <3>1, <3>5
    <3> QED BY <3>4, <3>5, <3>6
  <2> HIDE DEF f, g
  <2>6. OptionRead(e, f, b, g, Tail(s), ev, vs, k, last)
    BY <1>6, <2>2, <2>3, <2>4, <2>5 DEF OptionRead
  <2> QED BY <2>6 DEF b, f, g
<1> QED BY <1>5, <1>6

-----------------------------------------------------------------------------
(* The two ends.                                                           *)

\* Each end has to read what the other said, and both stand in order.
Exchange(sin, client, sS, sC, evS, evC) ==
  \E vS \in Seq(Said), vC \in Seq(Said) :
    \E kS \in 0 .. Len(vS), kC \in 0 .. Len(vC) :
      /\ ReaderOK(sin, sS, evS, vS, kS)
      /\ ReaderOK(client, sC, evC, vC, kC)
      /\ NegOK(vS, kS, vC, kC, client, sin)

Cleared(e) == [e EXCEPT !.sent = <<>>]

\* An engine that reads on as another would, whatever its options.
Alike(e, f) ==
  /\ f.state = e.state /\ f.got = e.got /\ f.run = e.run /\ f.buffer = e.buffer
  /\ f.sb_telopt = e.sb_telopt

LEMMA ClearedAlike ==
  ASSUME NEW e, DOMAIN e = Fields
  PROVE  /\ Alike(e, Cleared(e)) /\ Cleared(e).sent = <<>> /\ Cleared(e).q = e.q
         /\ Cleared(e).warned = e.warned /\ DOMAIN Cleared(e) = Fields
  BY DEF Alike, Cleared, Fields

LEMMA ReaderAlike ==
  ASSUME NEW e, NEW f, Alike(e, f), NEW s, NEW ev, NEW vs, NEW k, ReaderOK(e, s, ev, vs, k)
  PROVE  ReaderOK(f, s, ev, vs, k)
<1>1. \A x \in Place : Matches(e, x, ev) => Matches(f, x, ev)
  BY DEF Alike, Matches, Handed
<1> QED BY <1>1 DEF ReaderOK

\* Where an engine stands, its options tell.
LEMMA StandsSame ==
  ASSUME NEW c, NEW s, NEW d, NEW t, d.q = c.q, t.q = s.q,
         NEW vS, NEW kS, NEW vC, NEW kC, NegOK(vS, kS, vC, kC, c, s)
  PROVE  NegOK(vS, kS, vC, kC, d, t)
<1>1. \A o, side : StandOf(d, o, side) = StandOf(c, o, side)
  BY DEF StandOf, get_rfc1143
<1>2. \A o, side : StandOf(t, o, side) = StandOf(s, o, side)
  BY DEF StandOf, get_rfc1143
<1> QED BY <1>1, <1>2 DEF NegOK

\* Neither end is ever in binary mode: sin agrees to no such option.
LEMMA NeverBinary ==
  ASSUME NEW vS, NEW kS, NEW vC, NEW kC, NEW c, NEW s, EngineOK(s, "sin"),
         NegOK(vS, kS, vC, kC, c, s)
  PROVE  /\ ~ReceiveBinary(s) /\ ~TransmitBinary(s)
         /\ ~ReceiveBinary(c) /\ ~TransmitBinary(c)
<1>1. StandOf(s, "BINARY", "us") = "NO" /\ StandOf(s, "BINARY", "him") # "YES"
  BY DEF EngineOK, Passive, StandOf, get_rfc1143, Off
<1>2. "BINARY" \in Known
  BY DEF Known
<1>3. StandOf(c, "BINARY", "us") # "YES"
  BY <1>1, <1>2 DEF NegOK, UsOK, Wants, Unwants
<1>4. StandOf(c, "BINARY", "him") # "YES"
  BY <1>2 DEF NegOK, HimOK, Wants
<1> QED BY <1>1, <1>3, <1>4 DEF StandOf, ReceiveBinary, TransmitBinary

\* A verb that is said is put behind what is on its way.
LEMMA VerbHeard ==
  ASSUME NEW e, NEW s \in Seq(Byte), NEW ev \in Seq(Event), NEW vs \in Seq(Said), NEW k,
         ReaderOK(e, s, ev, vs, k), NEW w \in Verb, NEW o \in Option
  PROVE  /\ <<"IAC", w, o>> \in Seq(Byte)
         /\ Append(vs, Saying(w, o)) \in Seq(Said)
         /\ Len(Append(vs, Saying(w, o))) = Len(vs) + 1
         /\ ReaderOK(e, s \o <<"IAC", w, o>>, ev, Append(vs, Saying(w, o)), k)
<1> DEFINE u == Saying(w, o)
           t == <<"IAC", w, o>>
           vw == Append(vs, u)
<1>1. u \in Said /\ u = [verb |-> w, opt |-> o]
  BY DEF Said, Saying
<1>2. t \in Seq(Byte)
  BY DEF Byte, Text
<1> HIDE DEF u
<1>3. /\ vw \in Seq(Said) /\ Len(vw) = Len(vs) + 1 /\ Len(vs) \in Nat /\ vw[Len(vs) + 1] = u
      /\ vw = vs \o <<u>> /\ <<u>> \in Seq(Said) /\ <<>> \in Seq(Event)
  BY <1>1, AppendProperties, AppendIsConcat, LenProperties
<1>4. ev \o <<>> = ev /\ Len(ev) \in Nat
  BY ConcatEmptySeq, LenProperties
<1>5. Parsed(Pl("top", Len(ev), 0, Len(vs)), t, Pl("top", Len(ev), 0, Len(vs) + 1), ev, vw)
  <2> DEFINE n == Len(ev)  m == Len(vs)
  <2> HIDE DEF vw, n, m
  <2>1. n \in Nat /\ m \in Nat /\ m < Len(vw) /\ vw[m + 1] = [verb |-> w, opt |-> o]
    BY <1>1, <1>3, <1>4 DEF n, m
  <2>2. Parsed(Pl("top", n, 0, m), t, Pl("top", n, 0, m + 1), ev, vw)
    BY <2>1, VerbParsed
  <2> QED BY <2>2 DEF n, m
<1> HIDE DEF t
<1>6. Parsed(Pl("top", Len(ev), 0, Len(vs)), t,
             Pl("top", Len(ev \o <<>>), 0, Len(vs \o <<u>>)), ev \o <<>>, vs \o <<u>>)
  BY <1>3, <1>4, <1>5
<1>7. ReaderOK(e, s \o t, ev \o <<>>, vs \o <<u>>, k)
  BY <1>2, <1>3, <1>6, ReaderHearsMore
<1>8. ReaderOK(e, s \o t, ev, vw, k)
  BY <1>3, <1>4, <1>7
<1> QED BY <1>2, <1>3, <1>8 DEF u, t

\* Nothing is heard when nothing is said.
LEMMA NothingHeard ==
  ASSUME NEW e, NEW s \in Seq(Byte), NEW ev, NEW vs, NEW k, ReaderOK(e, s, ev, vs, k)
  PROVE  ReaderOK(e, s \o <<>>, ev, vs, k) /\ <<>> \in Seq(Byte)
  BY ConcatEmptySeq

LEMMA CameOK ==
  ASSUME NEW e, NEW p \in End, EngineOK(e, p), NEW b, NEW last \in BOOLEAN
  PROVE  EngineOK(Came(e, p, b, last), p)
<1> DEFINE f == Process(e, p, b)
<1>1. EngineOK(f, p)
  BY ProcessOK
<1> HIDE DEF f
<1>2. EngineOK(EndPiece(f), p)
  BY <1>1, SmallStepsOK DEF EndPiece
<1> QED BY <1>1, <1>2 DEF Came, f

\* sin reads a byte: what it answers is behind what the client has to read.
LEMMA SinReadsByte ==
  ASSUME NEW sin, NEW client, EngineOK(sin, "sin"), sin.sent = <<>>, "crossed" \notin sin.warned,
         NEW sS \in Seq(Byte), sS # <<>>, NEW sC \in Seq(Byte), NEW evS \in Seq(Event),
         NEW evC \in Seq(Event), Exchange(sin, client, sS, sC, evS, evC), NEW last \in BOOLEAN
  PROVE  LET f == Came(sin, "sin", Head(sS), last) IN
         /\ f.sent \in Seq(Byte) /\ "crossed" \notin f.warned
         /\ last => f.run = <<>>
         /\ Exchange(Cleared(f), client, Tail(sS), sC \o f.sent, evS, evC)
<1> DEFINE b == Head(sS)
           f == Came(sin, "sin", b, last)
           g == Negotiate(sin, "sin", b)
           h == Cleared(f)
<1>1. PICK vS \in Seq(Said), vC \in Seq(Said) :
        \E kS \in 0 .. Len(vS), kC \in 0 .. Len(vC) :
          /\ ReaderOK(sin, sS, evS, vS, kS)
          /\ ReaderOK(client, sC, evC, vC, kC)
          /\ NegOK(vS, kS, vC, kC, client, sin)
  BY DEF Exchange
<1>2. PICK kS \in 0 .. Len(vS), kC \in 0 .. Len(vC) :
        /\ ReaderOK(sin, sS, evS, vS, kS)
        /\ ReaderOK(client, sC, evC, vC, kC)
        /\ NegOK(vS, kS, vC, kC, client, sin)
  BY <1>1
<1>3. Len(vS) \in Nat /\ Len(vC) \in Nat /\ kS \in Nat /\ kC \in Nat /\ kC <= Len(vC)
  BY LenProperties
<1>4. ~ReceiveBinary(sin)
  BY <1>2, NeverBinary
<1>5. EngineOK(f, "sin")
  BY CameOK DEF End
<1>6. \/ OtherRead(sin, f, Tail(sS), evS, vS, kS, last)
      \/ OptionRead(sin, f, b, g, Tail(sS), evS, vS, kS, last)
  BY <1>2, <1>3, <1>4, ReaderReads
<1> HIDE DEF b, f
<1>7. Alike(f, h) /\ h.q = f.q
  BY <1>5, ClearedAlike DEF EngineOK
<1>8. CASE OtherRead(sin, f, Tail(sS), evS, vS, kS, last)
  <2>0. /\ ReaderOK(f, Tail(sS), evS, vS, kS)
        /\ f.q = sin.q /\ f.sent = sin.sent /\ "crossed" \notin f.warned
        /\ last => f.run = <<>>
    BY <1>8 DEF OtherRead
  <2>1. ReaderOK(h, Tail(sS), evS, vS, kS)
    BY <1>7, <2>0, ReaderAlike
  <2>2. NegOK(vS, kS, vC, kC, client, h)
    BY <1>2, <1>7, <2>0, StandsSame
  <2>3. f.sent = <<>> /\ ReaderOK(client, sC \o <<>>, evC, vC, kC) /\ <<>> \in Seq(Byte)
    BY <1>2, <2>0, NothingHeard
  <2> HIDE DEF h
  <2>4. Exchange(h, client, Tail(sS), sC \o f.sent, evS, evC)
    BY <2>1, <2>2, <2>3 DEF Exchange
  <2> QED BY <2>0, <2>3, <2>4 DEF f, b, h
<1>9. CASE OptionRead(sin, f, b, g, Tail(sS), evS, vS, kS, last)
  <2>0. /\ sin.state \in Verb /\ b \in Option
        /\ kS < Len(vS) /\ vS[kS + 1] = Saying(sin.state, b)
        /\ \A side, stand, sent :
             Turned(sin, g, b, side, stand, sent) =>
               /\ ReaderOK(f, Tail(sS), evS, vS, kS + 1)
               /\ f.q = g.q /\ f.sent = sent /\ "crossed" \notin f.warned
               /\ last => f.run = <<>>
    BY <1>9 DEF OptionRead
  <2>1. PICK w \in Verb, side \in {"us", "him"}, stand \in Stand :
          /\ Turned(sin, g, b, side, stand, <<"IAC", w, b>>)
          /\ NegOK(vS, kS + 1, Append(vC, Saying(w, b)), kC, client, g)
    <3> DEFINE v == sin.state
    <3>1. v \in Verb /\ b \in Option /\ kS < Len(vS) /\ vS[kS + 1] = Saying(v, b) /\ sin.state = v
      BY <2>0
    <3> HIDE DEF v
    <3> QED BY <1>2, <1>3, <3>1, SinReads
  <2> DEFINE sent == <<"IAC", w, b>>
             vW == Append(vC, Saying(w, b))
  <2>2. /\ ReaderOK(f, Tail(sS), evS, vS, kS + 1)
        /\ f.q = g.q /\ f.sent = sent /\ "crossed" \notin f.warned
        /\ last => f.run = <<>>
    BY <2>0, <2>1
  <2>3. sent \in Seq(Byte) /\ vW \in Seq(Said) /\ Len(vW) = Len(vC) + 1
        /\ ReaderOK(client, sC \o sent, evC, vW, kC)
    BY <1>2, <2>0, VerbHeard
  <2> HIDE DEF g, h, sent, vW
  <2>4. ReaderOK(h, Tail(sS), evS, vS, kS + 1)
    BY <1>7, <2>2, ReaderAlike
  <2>5. NegOK(vS, kS + 1, vW, kC, client, h)
    BY <1>7, <2>1, <2>2, StandsSame DEF vW
  <2>6. kS + 1 \in 0 .. Len(vS) /\ kC \in 0 .. Len(vW)
    BY <1>3, <2>0, <2>3
  <2>7. Exchange(h, client, Tail(sS), sC \o f.sent, evS, evC)
    BY <2>2, <2>3, <2>4, <2>5, <2>6 DEF Exchange
  <2> QED BY <2>2, <2>3, <2>7 DEF f, b, h
<1> QED BY <1>6, <1>8, <1>9

\* The client reads a byte.
LEMMA ClientReadsByte ==
  ASSUME NEW sin, NEW client, EngineOK(sin, "sin"), EngineOK(client, "client"),
         client.sent = <<>>, "crossed" \notin client.warned,
         NEW sS \in Seq(Byte), NEW sC \in Seq(Byte), sC # <<>>, NEW evS \in Seq(Event),
         NEW evC \in Seq(Event), Exchange(sin, client, sS, sC, evS, evC), NEW last \in BOOLEAN
  PROVE  LET f == Came(client, "client", Head(sC), last) IN
         /\ f.sent \in Seq(Byte) /\ "crossed" \notin f.warned
         /\ last => f.run = <<>>
         /\ Exchange(sin, Cleared(f), sS \o f.sent, Tail(sC), evS, evC)
<1> DEFINE b == Head(sC)
           f == Came(client, "client", b, last)
           g == Negotiate(client, "client", b)
           h == Cleared(f)
<1>1. PICK vS \in Seq(Said), vC \in Seq(Said) :
        \E kS \in 0 .. Len(vS), kC \in 0 .. Len(vC) :
          /\ ReaderOK(sin, sS, evS, vS, kS)
          /\ ReaderOK(client, sC, evC, vC, kC)
          /\ NegOK(vS, kS, vC, kC, client, sin)
  BY DEF Exchange
<1>2. PICK kS \in 0 .. Len(vS), kC \in 0 .. Len(vC) :
        /\ ReaderOK(sin, sS, evS, vS, kS)
        /\ ReaderOK(client, sC, evC, vC, kC)
        /\ NegOK(vS, kS, vC, kC, client, sin)
  BY <1>1
<1>3. Len(vS) \in Nat /\ Len(vC) \in Nat /\ kS \in Nat /\ kC \in Nat /\ kS <= Len(vS)
  BY LenProperties
<1>4. ~ReceiveBinary(client)
  BY <1>2, NeverBinary
<1>5. EngineOK(f, "client")
  BY CameOK DEF End
<1>6. \/ OtherRead(client, f, Tail(sC), evC, vC, kC, last)
      \/ OptionRead(client, f, b, g, Tail(sC), evC, vC, kC, last)
  BY <1>2, <1>3, <1>4, ReaderReads
<1> HIDE DEF b, f
<1>7. Alike(f, h) /\ h.q = f.q
  BY <1>5, ClearedAlike DEF EngineOK
<1>8. CASE OtherRead(client, f, Tail(sC), evC, vC, kC, last)
  <2>0. /\ ReaderOK(f, Tail(sC), evC, vC, kC)
        /\ f.q = client.q /\ f.sent = client.sent /\ "crossed" \notin f.warned
        /\ last => f.run = <<>>
    BY <1>8 DEF OtherRead
  <2>1. ReaderOK(h, Tail(sC), evC, vC, kC)
    BY <1>7, <2>0, ReaderAlike
  <2>2. NegOK(vS, kS, vC, kC, h, sin)
    BY <1>2, <1>7, <2>0, StandsSame
  <2>3. f.sent = <<>> /\ ReaderOK(sin, sS \o <<>>, evS, vS, kS) /\ <<>> \in Seq(Byte)
    BY <1>2, <2>0, NothingHeard
  <2> HIDE DEF h
  <2>4. Exchange(sin, h, sS \o f.sent, Tail(sC), evS, evC)
    BY <2>1, <2>2, <2>3 DEF Exchange
  <2> QED BY <2>0, <2>3, <2>4 DEF f, b, h
<1>9. CASE OptionRead(client, f, b, g, Tail(sC), evC, vC, kC, last)
  <2>0. /\ client.state \in Verb /\ b \in Option
        /\ kC < Len(vC) /\ vC[kC + 1] = Saying(client.state, b)
        /\ \A side, stand, sent :
             Turned(client, g, b, side, stand, sent) =>
               /\ ReaderOK(f, Tail(sC), evC, vC, kC + 1)
               /\ f.q = g.q /\ f.sent = sent /\ "crossed" \notin f.warned
               /\ last => f.run = <<>>
    BY <1>9 DEF OptionRead
  <2>1. PICK side \in {"us", "him"}, stand \in Stand :
          \/ /\ Turned(client, g, b, side, stand, <<>>)
             /\ NegOK(vS, kS, vC, kC + 1, g, sin)
          \/ \E w \in Verb :
               /\ Turned(client, g, b, side, stand, <<"IAC", w, b>>)
               /\ NegOK(Append(vS, Saying(w, b)), kS, vC, kC + 1, g, sin)
    <3> DEFINE v == client.state
    <3>1. v \in Verb /\ b \in Option /\ kC < Len(vC) /\ vC[kC + 1] = Saying(v, b)
          /\ client.state = v
      BY <2>0
    <3> HIDE DEF v
    <3> QED BY <1>2, <1>3, <3>1, ClientReads
  <2>2. \A sent : Turned(client, g, b, side, stand, sent) =>
          /\ ReaderOK(f, Tail(sC), evC, vC, kC + 1)
          /\ f.q = g.q /\ f.sent = sent /\ "crossed" \notin f.warned
          /\ last => f.run = <<>>
    BY <2>0
  <2>3. kC + 1 \in 0 .. Len(vC)
    BY <1>3, <2>0
  <2> HIDE DEF g, h
  <2>4. CASE /\ Turned(client, g, b, side, stand, <<>>)
             /\ NegOK(vS, kS, vC, kC + 1, g, sin)
    <3>1. /\ ReaderOK(f, Tail(sC), evC, vC, kC + 1)
          /\ f.q = g.q /\ f.sent = <<>> /\ "crossed" \notin f.warned
          /\ last => f.run = <<>>
      BY <2>2, <2>4
    <3>2. ReaderOK(h, Tail(sC), evC, vC, kC + 1)
      BY <1>7, <3>1, ReaderAlike
    <3>3. NegOK(vS, kS, vC, kC + 1, h, sin)
      BY <1>7, <2>4, <3>1, StandsSame
    <3>4. ReaderOK(sin, sS \o <<>>, evS, vS, kS) /\ <<>> \in Seq(Byte)
      BY <1>2, NothingHeard
    <3>5. Exchange(sin, h, sS \o f.sent, Tail(sC), evS, evC)
      BY <2>3, <3>1, <3>2, <3>3, <3>4 DEF Exchange
    <3> QED BY <3>1, <3>4, <3>5 DEF f, b, h
  <2>5. ASSUME NEW w \in Verb, Turned(client, g, b, side, stand, <<"IAC", w, b>>),
               NegOK(Append(vS, Saying(w, b)), kS, vC, kC + 1, g, sin)
        PROVE  /\ f.sent \in Seq(Byte) /\ "crossed" \notin f.warned
               /\ last => f.run = <<>>
               /\ Exchange(sin, h, sS \o f.sent, Tail(sC), evS, evC)
    <3> DEFINE sent == <<"IAC", w, b>>
               vW == Append(vS, Saying(w, b))
    <3>1. /\ ReaderOK(f, Tail(sC), evC, vC, kC + 1)
          /\ f.q = g.q /\ f.sent = sent /\ "crossed" \notin f.warned
          /\ last => f.run = <<>>
      BY <2>2, <2>5
    <3>2. sent \in Seq(Byte) /\ vW \in Seq(Said) /\ Len(vW) = Len(vS) + 1
          /\ ReaderOK(sin, sS \o sent, evS, vW, kS)
      BY <1>2, <2>0, VerbHeard
    <3> HIDE DEF sent, vW
    <3>3. ReaderOK(h, Tail(sC), evC, vC, kC + 1)
      BY <1>7, <3>1, ReaderAlike
    <3>4. NegOK(vW, kS, vC, kC + 1, h, sin)
      BY <1>7, <2>5, <3>1, StandsSame DEF vW
    <3>5. kS \in 0 .. Len(vW)
      BY <1>3, <3>2
    <3>6. Exchange(sin, h, sS \o f.sent, Tail(sC), evS, evC)
      BY <2>3, <3>1, <3>2, <3>3, <3>4, <3>5 DEF Exchange
    <3> QED BY <3>1, <3>2, <3>6
  <2> QED BY <2>1, <2>4, <2>5 DEF f, b, h
<1> QED BY <1>6, <1>8, <1>9

-----------------------------------------------------------------------------
(* An end that says something.                                             *)

\* The bytes t say what more adds to ev, and no verb.
Tells(t, ev, more) ==
  \A m \in Nat : \A vs :
    Parsed(Pl("top", Len(ev), 0, m), t, Pl("top", Len(ev \o more), 0, m), ev \o more, vs)

LEMMA TextTells ==
  ASSUME NEW b \in Text, NEW ev \in Seq(Event)
  PROVE  /\ Tells(Encoded(b), ev, Words(<<b>>))
         /\ Encoded(b) \in Seq(Byte) /\ Words(<<b>>) \in Seq(Event)
<1> DEFINE more == Words(<<b>>)
           ew == ev \o more
           n == Len(ev)
<1>1. b \in Byte /\ Encoded(b) \in Seq(Byte)
  <2>1. b \in Byte /\ {"IAC", "CR", "LF", "NUL"} \subseteq Byte
    BY DEF Byte, Text
  <2> HIDE DEF Byte
  <2>2. /\ <<"IAC", "IAC">> \in Seq(Byte) /\ <<"CR", "NUL">> \in Seq(Byte)
        /\ <<"CR", "LF">> \in Seq(Byte) /\ <<b>> \in Seq(Byte)
    BY <2>1
  <2>3. Encoded(b) \in {<<"IAC", "IAC">>, <<"CR", "NUL">>, <<"CR", "LF">>, <<b>>}
    BY DEF Encoded
  <2> QED BY <2>1, <2>2, <2>3
<1>2. more = <<Word(b)>> /\ Word(b) \in Event
  BY <1>1, WordsOfOne DEF Word, Event
<1>3. more \in Seq(Event)
  <2> DEFINE v == Word(b)
  <2> HIDE DEF v
  <2>1. v \in Event
    BY <1>2 DEF v
  <2>2. <<v>> \in Seq(Event)
    BY <2>1
  <2> QED BY <1>2, <2>2 DEF v
<1>4. n \in Nat /\ Len(ew) = n + 1 /\ ew[n + 1] = Word(b)
  <2>1. Len(more) = 1 /\ more[1] = Word(b)
    BY <1>2
  <2> QED BY <1>3, <2>1, ConcatProperties, LenProperties, SMTT(30)
<1> HIDE DEF ew, n, more
<1>5. IsText(ew, n + 1, b)
  BY <1>4 DEF IsText, Word
<1>6. ASSUME NEW m \in Nat, NEW vs
      PROVE  Parsed(Pl("top", n, 0, m), Encoded(b), Pl("top", Len(ew), 0, m), ew, vs)
  BY <1>4, <1>5, TextParsed
<1> QED BY <1>1, <1>3, <1>6 DEF Tells, ew, n, more

LEMMA NopTells ==
  ASSUME NEW ev \in Seq(Event)
  PROVE  /\ Tells(<<"IAC", "NOP">>, ev, <<>>)
         /\ <<"IAC", "NOP">> \in Seq(Byte) /\ <<>> \in Seq(Event)
<1>1. ev \o <<>> = ev /\ Len(ev) \in Nat
  BY ConcatEmptySeq, LenProperties
<1>2. ASSUME NEW m \in Nat, NEW vs
      PROVE  Parsed(Pl("top", Len(ev), 0, m), <<"IAC", "NOP">>,
                    Pl("top", Len(ev \o <<>>), 0, m), ev \o <<>>, vs)
  BY <1>1, NopParsed
<1>3. <<"IAC", "NOP">> \in Seq(Byte)
  BY DEF Byte, Text
<1> QED BY <1>2, <1>3 DEF Tells

LEMMA SubTells ==
  ASSUME NEW o \in Option, NEW d \in Seq(Text), Len(d) <= Largest, NEW end \in {"SE", "NOP"},
         NEW ev \in Seq(Event)
  PROVE  LET sent == (<<"IAC", "SB", o>> \o FlattenSeq(Escaped(d))) \o <<"IAC", end>>
             more == <<[opt |-> o, bytes |-> d]>> IN
         /\ Tells(sent, ev, more) /\ sent \in Seq(Byte) /\ more \in Seq(Event)
<1> DEFINE sent == (<<"IAC", "SB", o>> \o FlattenSeq(Escaped(d))) \o <<"IAC", end>>
           v == [opt |-> o, bytes |-> d]
           more == <<v>>
           ew == ev \o more
           n == Len(ev)
<1>1. d \in Seq(Byte)
  BY SeqMonotonic DEF Byte
<1>2. v \in Event /\ v.opt = o /\ v.bytes = d
  BY <1>1 DEF Event
<1>3. more \in Seq(Event)
  BY <1>2
<1> HIDE DEF v
<1>4. n \in Nat /\ Len(ew) = n + 1 /\ ew[n + 1] = v
  BY <1>2, <1>3, ConcatProperties, LenProperties
<1> HIDE DEF ew, n, more
<1>5. IsSub(ew, n + 1)
  BY <1>2, <1>4 DEF IsSub
<1>6. ew[n + 1] = [opt |-> o, bytes |-> d]
  BY <1>4 DEF v
<1>7. ASSUME NEW m \in Nat, NEW vs
      PROVE  sent \in Seq(Byte) /\ Parsed(Pl("top", n, 0, m), sent, Pl("top", n + 1, 0, m), ew, vs)
  BY <1>4, <1>5, <1>6, SubParsed
<1> HIDE DEF sent
<1>8. sent \in Seq(Byte)
  <2>1. 0 \in Nat
    OBVIOUS
  <2> QED BY <1>7, <2>1
<1>9. Tells(sent, ev, more)
  BY <1>4, <1>7 DEF Tells, ew, n
<1> QED BY <1>3, <1>8, <1>9 DEF sent, more, v

\* Engines that stand and read alike.
LEMMA ExchangeAlike ==
  ASSUME NEW sin, NEW client, NEW s, NEW c, NEW sS, NEW sC, NEW evS, NEW evC,
         Exchange(sin, client, sS, sC, evS, evC),
         Alike(sin, s), s.q = sin.q, Alike(client, c), c.q = client.q
  PROVE  Exchange(s, c, sS, sC, evS, evC)
<1>1. \A e, f, t, ev, vs, k : Alike(e, f) /\ ReaderOK(e, t, ev, vs, k) => ReaderOK(f, t, ev, vs, k)
  BY ReaderAlike
<1>2. \A vS, kS, vC, kC : NegOK(vS, kS, vC, kC, client, sin) => NegOK(vS, kS, vC, kC, c, s)
  BY StandsSame
<1> QED BY <1>1, <1>2 DEF Exchange

\* What one end tells is put behind what the other has to read.
LEMMA ReaderTold ==
  ASSUME NEW e, NEW s \in Seq(Byte), NEW t \in Seq(Byte), NEW ev \in Seq(Event),
         NEW more \in Seq(Event), NEW vs \in Seq(Said), NEW k, ReaderOK(e, s, ev, vs, k),
         Tells(t, ev, more)
  PROVE  ReaderOK(e, s \o t, ev \o more, vs, k)
<1>1. vs \o <<>> = vs /\ <<>> \in Seq(Said) /\ Len(vs) \in Nat
  BY ConcatEmptySeq, LenProperties
<1>2. Parsed(Pl("top", Len(ev), 0, Len(vs)), t,
             Pl("top", Len(ev \o more), 0, Len(vs \o <<>>)), ev \o more, vs \o <<>>)
  BY <1>1 DEF Tells
<1>3. ReaderOK(e, s \o t, ev \o more, vs \o <<>>, k)
  BY <1>1, <1>2, ReaderHearsMore
<1> QED BY <1>1, <1>3

LEMMA SinTells ==
  ASSUME NEW sin, NEW client, NEW sS, NEW sC \in Seq(Byte), NEW evS, NEW evC \in Seq(Event),
         Exchange(sin, client, sS, sC, evS, evC),
         NEW t \in Seq(Byte), NEW more \in Seq(Event), Tells(t, evC, more)
  PROVE  Exchange(sin, client, sS, sC \o t, evS, evC \o more)
<1>1. ASSUME NEW vC \in Seq(Said), NEW kC, ReaderOK(client, sC, evC, vC, kC)
      PROVE  ReaderOK(client, sC \o t, evC \o more, vC, kC)
  BY <1>1, ReaderTold
<1> QED BY <1>1 DEF Exchange

LEMMA ClientTells ==
  ASSUME NEW sin, NEW client, NEW sS \in Seq(Byte), NEW sC, NEW evS \in Seq(Event), NEW evC,
         Exchange(sin, client, sS, sC, evS, evC),
         NEW t \in Seq(Byte), NEW more \in Seq(Event), Tells(t, evS, more)
  PROVE  Exchange(sin, client, sS \o t, sC, evS \o more, evC)
<1>1. ASSUME NEW vS \in Seq(Said), NEW kS, ReaderOK(sin, sS, evS, vS, kS)
      PROVE  ReaderOK(sin, sS \o t, evS \o more, vS, kS)
  BY <1>1, ReaderTold
<1> QED BY <1>1 DEF Exchange

\* What an engine's program asks for changes where it stands and nothing of
\* what it reads.
LEMMA NegotiateAlike ==
  ASSUME NEW e, DOMAIN e = Fields, NEW verb, NEW o
  PROVE  Alike(e, telnet_negotiate(e, verb, o))
<1> DEFINE side == IF verb \in {"WILL", "WONT"} THEN "us" ELSE "him"
           Become(s) == SetStand(e, o, side, s)
           f == telnet_negotiate(e, verb, o)
<1>1. f \in {e, Say(Become("WANTYES"), verb, o), Say(Become("WANTNO"), verb, o),
             Become("WANTNO_OP"), Become("WANTYES"), Become("WANTYES_OP"), Become("WANTNO")}
  BY DEF telnet_negotiate
<1>2. \A s : Alike(e, Become(s)) /\ DOMAIN Become(s) = Fields
  BY DEF SetStand, set_rfc1143, Alike, Fields
<1>3. ASSUME NEW g, Alike(e, g), DOMAIN g = Fields PROVE Alike(e, Say(g, verb, o))
  BY <1>3 DEF Say, Send, Alike, Fields
<1>4. Alike(e, e)
  BY DEF Alike
<1> HIDE DEF f, Become
<1>5. Alike(e, f)
  BY <1>1, <1>2, <1>3, <1>4
<1> QED BY <1>5 DEF f

LEMMA ClientAsksMore ==
  ASSUME NEW sin, NEW client, EngineOK(client, "client"), client.sent = <<>>,
         "crossed" \notin client.warned, NEW sS \in Seq(Byte), NEW sC, NEW evS \in Seq(Event),
         NEW evC, Exchange(sin, client, sS, sC, evS, evC), NEW w \in Verb, NEW o \in Option
  PROVE  LET f == telnet_negotiate(client, w, o) IN
         /\ EngineOK(f, "client") /\ f.sent \in Seq(Byte) /\ "crossed" \notin f.warned
         /\ f.run = client.run
         /\ Exchange(sin, Cleared(f), sS \o f.sent, sC, evS, evC)
<1> DEFINE f == telnet_negotiate(client, w, o)
           h == Cleared(f)
<1>1. PICK vS \in Seq(Said), vC \in Seq(Said) :
        \E kS \in 0 .. Len(vS), kC \in 0 .. Len(vC) :
          /\ ReaderOK(sin, sS, evS, vS, kS)
          /\ ReaderOK(client, sC, evC, vC, kC)
          /\ NegOK(vS, kS, vC, kC, client, sin)
  BY DEF Exchange
<1>2. PICK kS \in 0 .. Len(vS), kC \in 0 .. Len(vC) :
        /\ ReaderOK(sin, sS, evS, vS, kS)
        /\ ReaderOK(client, sC, evC, vC, kC)
        /\ NegOK(vS, kS, vC, kC, client, sin)
  BY <1>1
<1>3. Len(vS) \in Nat /\ Len(vC) \in Nat /\ kS \in Nat /\ kC \in Nat /\ kS <= Len(vS)
  BY LenProperties
<1>4. EngineOK(f, "client") /\ Alike(client, f)
  <2>1. "client" # "sin" /\ DOMAIN client = Fields
    BY DEF EngineOK
  <2>2. EngineOK(f, "client")
    BY <2>1, NegotiateOK
  <2>3. Alike(client, f)
    BY <2>1, NegotiateAlike
  <2> QED BY <2>2, <2>3
<1>5. PICK side \in {"us", "him"} : \E stand :
        \/ /\ Turned(client, f, o, side, stand, <<>>)
           /\ NegOK(vS, kS, vC, kC, f, sin)
        \/ /\ Turned(client, f, o, side, stand, <<"IAC", w, o>>)
           /\ NegOK(Append(vS, Saying(w, o)), kS, vC, kC, f, sin)
  BY <1>2, <1>3, ClientSays
<1> HIDE DEF f
<1>6. Alike(f, h) /\ h.q = f.q
  BY <1>4, ClearedAlike DEF EngineOK
<1>7. Alike(client, h) /\ f.run = client.run
  BY <1>4, <1>6 DEF Alike
<1> HIDE DEF h
<1>8. ReaderOK(h, sC, evC, vC, kC)
  BY <1>2, <1>7, ReaderAlike
<1>9. ASSUME NEW stand, Turned(client, f, o, side, stand, <<>>), NegOK(vS, kS, vC, kC, f, sin)
      PROVE  /\ f.sent \in Seq(Byte) /\ "crossed" \notin f.warned
             /\ Exchange(sin, h, sS \o f.sent, sC, evS, evC)
  <2>1. f.sent = <<>> /\ f.warned = client.warned
    BY <1>9 DEF Turned
  <2>2. NegOK(vS, kS, vC, kC, h, sin)
    BY <1>6, <1>9, StandsSame
  <2>3. ReaderOK(sin, sS \o <<>>, evS, vS, kS) /\ <<>> \in Seq(Byte)
    BY <1>2, NothingHeard
  <2>4. Exchange(sin, h, sS \o f.sent, sC, evS, evC)
    BY <1>8, <2>1, <2>2, <2>3 DEF Exchange
  <2> QED BY <2>1, <2>3, <2>4
<1>10. ASSUME NEW stand, Turned(client, f, o, side, stand, <<"IAC", w, o>>),
              NegOK(Append(vS, Saying(w, o)), kS, vC, kC, f, sin)
       PROVE  /\ f.sent \in Seq(Byte) /\ "crossed" \notin f.warned
              /\ Exchange(sin, h, sS \o f.sent, sC, evS, evC)
  <2> DEFINE sent == <<"IAC", w, o>>
             vW == Append(vS, Saying(w, o))
  <2>1. f.sent = sent /\ f.warned = client.warned
    BY <1>10 DEF Turned
  <2>2. sent \in Seq(Byte) /\ vW \in Seq(Said) /\ Len(vW) = Len(vS) + 1
        /\ ReaderOK(sin, sS \o sent, evS, vW, kS)
    BY <1>2, VerbHeard
  <2> HIDE DEF sent, vW
  <2>3. NegOK(vW, kS, vC, kC, h, sin)
    BY <1>6, <1>10, StandsSame DEF vW
  <2>4. kS \in 0 .. Len(vW)
    BY <1>3, <2>2
  <2>5. Exchange(sin, h, sS \o f.sent, sC, evS, evC)
    BY <1>8, <2>1, <2>2, <2>3, <2>4 DEF Exchange
  <2> QED BY <2>1, <2>2, <2>5
<1> QED BY <1>4, <1>5, <1>7, <1>9, <1>10 DEF f, h

\* What the programs send, without binary mode.
LEMMA SentText ==
  ASSUME NEW e, DOMAIN e = Fields, e.sent = <<>>, NEW b \in Text, ~TransmitBinary(e)
  PROVE  LET f == telnet_send_text(e, b) IN
         /\ Alike(e, f) /\ f.q = e.q /\ f.warned = e.warned /\ f.sent = Encoded(b)
<1>1. telnet_send_text(e, b) = Send(e, Encoded(b))
  BY DEF telnet_send_text, Encoded
<1>2. Encoded(b) \in Seq(Byte)
  <2>1. <<>> \in Seq(Event)
    OBVIOUS
  <2> QED BY <2>1, TextTells
<1>3. <<>> \o Encoded(b) = Encoded(b)
  BY <1>2, ConcatEmptySeq
<1> QED BY <1>1, <1>3 DEF Send, Alike, Fields

LEMMA SentBytes ==
  ASSUME NEW e, DOMAIN e = Fields, NEW bytes
  PROVE  LET f == Send(e, bytes) IN
         /\ DOMAIN f = Fields /\ Alike(e, f) /\ f.q = e.q /\ f.warned = e.warned
         /\ f.sent = e.sent \o bytes
  BY DEF Send, Alike, Fields

LEMMA SentNop ==
  ASSUME NEW e, DOMAIN e = Fields, e.sent = <<>>
  PROVE  LET f == telnet_iac(e, "NOP") IN
         /\ Alike(e, f) /\ f.q = e.q /\ f.warned = e.warned /\ f.sent = <<"IAC", "NOP">>
<1>1. <<>> \o <<"IAC", "NOP">> = <<"IAC", "NOP">>
  <2>1. <<"IAC", "NOP">> \in Seq({"IAC", "NOP"})
    OBVIOUS
  <2> QED BY <2>1, ConcatEmptySeq
<1> QED BY <1>1, SentBytes DEF telnet_iac

LEMMA SentSub ==
  ASSUME NEW e, DOMAIN e = Fields, e.sent = <<>>, NEW o \in Option, NEW d \in Seq(Text),
         NEW end
  PROVE  LET f == Send(telnet_send(telnet_begin_sb(e, o), d), <<"IAC", end>>) IN
         /\ Alike(e, f) /\ f.q = e.q /\ f.warned = e.warned
         /\ f.sent = (<<"IAC", "SB", o>> \o FlattenSeq(Escaped(d))) \o <<"IAC", end>>
<1> DEFINE a == <<"IAC", "SB", o>>
           t == FlattenSeq(Escaped(d))
           z == <<"IAC", end>>
           e1 == Send(e, a)
           e2 == Send(e1, t)
           e3 == Send(e2, z)
<1>1. telnet_begin_sb(e, o) = e1 /\ telnet_send(e1, d) = e2
  BY DEF telnet_begin_sb, telnet_send, Escaped
<1>2. <<>> \o a = a
  <2>1. a \in Seq({"IAC", "SB", o})
    OBVIOUS
  <2> QED BY <2>1, ConcatEmptySeq
<1> HIDE DEF a, t, z
<1>3. /\ DOMAIN e1 = Fields /\ Alike(e, e1) /\ e1.q = e.q /\ e1.warned = e.warned
      /\ e1.sent = a
  BY <1>2, SentBytes
<1> HIDE DEF e1
<1>4. /\ DOMAIN e2 = Fields /\ Alike(e1, e2) /\ e2.q = e1.q /\ e2.warned = e1.warned
      /\ e2.sent = a \o t
  BY <1>3, SentBytes
<1> HIDE DEF e2
<1>5. /\ Alike(e2, e3) /\ e3.q = e2.q /\ e3.warned = e2.warned
      /\ e3.sent = (a \o t) \o z
  BY <1>4, SentBytes
<1> HIDE DEF e3
<1>6. Alike(e, e3)
  BY <1>3, <1>4, <1>5 DEF Alike
<1> QED BY <1>1, <1>3, <1>4, <1>5, <1>6 DEF a, t, z, e3

-----------------------------------------------------------------------------
(* The whole connection.                                                   *)

\* An end: nothing of a run is left when no piece is at hand, and none is when
\* nothing more has come.
EndOK(e, r, w) ==
  /\ e.sent = <<>>
  /\ "crossed" \notin e.warned
  /\ ~r => e.run = <<>>
  /\ w = <<>> => ~r

ConnectionInv ==
  /\ IInv
  /\ \A p \in End : EndOK(engine[p], reading[p], wire[p])
  /\ DOMAIN reading = End
  /\ WireOK(wire) /\ OutOK(outbuf, pending)
  /\ said["sin"] \in Seq(Event) /\ said["client"] \in Seq(Event) /\ DOMAIN said = End
  /\ Exchange(engine["sin"], engine["client"], Stream("sin"), Stream("client"),
              said["client"], said["sin"])

LEMMA ExchangeNotBinary ==
  ASSUME NEW sin, NEW client, NEW sS, NEW sC, NEW evS, NEW evC, EngineOK(sin, "sin"),
         Exchange(sin, client, sS, sC, evS, evC)
  PROVE  ~TransmitBinary(sin) /\ ~TransmitBinary(client)
  BY NeverBinary DEF Exchange

\* An end has read or said something.
LEMMA PutKeeps ==
  ASSUME ConnectionInv, NEW p \in End, p = "sin" => pending = NoWrite,
         NEW e, EngineOK(e, p), e.sent \in Seq(Byte), "crossed" \notin e.warned,
         NEW left \in Seq(Byte), Put(p, e, left), UNCHANGED pending,
         DOMAIN reading' = End, reading'[Peer(p)] = reading[Peer(p)],
         ~reading'[p] => e.run = <<>>, left = <<>> => ~reading'[p],
         said'["sin"] \in Seq(Event), said'["client"] \in Seq(Event), DOMAIN said' = End,
         Exchange(engine'["sin"], engine'["client"],
                  StreamOf("sin", wire', outbuf', pending'),
                  StreamOf("client", wire', outbuf', pending'),
                  said'["client"], said'["sin"])
  PROVE  ConnectionInv'
<1>1. IInv'
  BY PutOK DEF ConnectionInv
<1>2. /\ WireOK(wire') /\ OutOK(outbuf', pending') /\ wire'[p] = left
      /\ wire'[Peer(p)] = <<>> => wire[Peer(p)] = <<>>
  BY PutStreams DEF ConnectionInv
<1>3. Peer(p) \in End /\ Peer(p) # p /\ \A x \in End : x = p \/ x = Peer(p)
  BY DEF Peer, End
<1>4. engine'[p] = Cleared(e) /\ engine'[Peer(p)] = engine[Peer(p)]
  BY <1>3 DEF Put, Cleared, ConnectionInv, IInv
<1>5. EndOK(engine'[p], reading'[p], wire'[p])
  <2> DEFINE h == Cleared(e)
  <2>1. Alike(e, h) /\ h.sent = <<>> /\ h.warned = e.warned
    BY ClearedAlike DEF EngineOK
  <2>2. h.run = e.run
    BY <2>1 DEF Alike
  <2> HIDE DEF h
  <2> QED BY <1>2, <1>4, <2>1, <2>2 DEF EndOK, h
<1>6. EndOK(engine'[Peer(p)], reading'[Peer(p)], wire'[Peer(p)])
  <2>1. EndOK(engine[Peer(p)], reading[Peer(p)], wire[Peer(p)])
    BY <1>3 DEF ConnectionInv
  <2> QED BY <1>2, <1>4, <2>1 DEF EndOK
<1>7. \A x \in End : EndOK(engine'[x], reading'[x], wire'[x])
  BY <1>3, <1>5, <1>6
<1> QED BY <1>1, <1>2, <1>7 DEF ConnectionInv, Stream

LEMMA ReceiveKeeps ==
  ASSUME ConnectionInv, Rough \subseteq {"slow"}, NEW p \in End, NEW last \in BOOLEAN, Receive(p, last)
  PROVE  ConnectionInv'
<1> DEFINE b == Head(wire[p])
           f == Came(engine[p], p, b, last)
           left == Tail(wire[p])
           new(q) == StreamOf(q, wire', outbuf', pending')
<1>1. /\ wire[p] # <<>> /\ (last \/ Len(wire[p]) > 1) /\ (p = "sin" => pending = NoWrite)
      /\ reading' = [reading EXCEPT ![p] = ~last] /\ pending' = pending /\ said' = said
      /\ Put(p, f, left)
  BY DEF Receive, MaySend, Came
<1>2. wire[p] \in Seq(Byte)
  BY DEF ConnectionInv, WireOK, End
<1>3. left \in Seq(Byte) /\ Len(left) = Len(wire[p]) - 1 /\ Len(wire[p]) \in Nat
  BY <1>1, <1>2, HeadTailProperties, LenProperties
<1>4. EngineOK(engine[p], p) /\ EndOK(engine[p], reading[p], wire[p])
  BY DEF ConnectionInv, IInv
<1>5. EngineOK(f, p)
  BY <1>4, CameOK
<1>6. Stream("sin") \in Seq(Byte) /\ Stream("client") \in Seq(Byte)
  BY StreamTypes DEF ConnectionInv, Stream, End
<1>7. Exchange(engine["sin"], engine["client"], Stream("sin"), Stream("client"),
               said["client"], said["sin"])
  BY DEF ConnectionInv
<1>8. said["sin"] \in Seq(Event) /\ said["client"] \in Seq(Event) /\ DOMAIN said = End
  BY DEF ConnectionInv
<1>9. EngineOK(engine["sin"], "sin") /\ EngineOK(engine["client"], "client")
  BY DEF ConnectionInv, IInv, End
<1>10. /\ DOMAIN reading' = End /\ reading'[Peer(p)] = reading[Peer(p)] /\ reading'[p] = ~last
       /\ DOMAIN engine = End
  BY <1>1 DEF ConnectionInv, IInv, Peer, End
<1>11. left = <<>> => last
  <2>1. Len(<<>>) = 0
    OBVIOUS
  <2> DEFINE n == Len(wire[p])
  <2>2. n \in Nat /\ Len(left) = n - 1 /\ (last \/ n > 1)
    BY <1>1, <1>3
  <2> HIDE DEF left, n
  <2> QED BY <2>1, <2>2
<1>12. ASSUME f.sent \in Seq(Byte)
       PROVE  /\ new(Peer(p)) = Stream(Peer(p)) \o f.sent
              /\ new(p) = Tail(Stream(p))
  <2> HIDE DEF f
  <2>1. WireOK(wire) /\ OutOK(outbuf, pending)
    BY DEF ConnectionInv
  <2> QED BY <1>1, <1>3, <1>12, <2>1, PutStreams
<1> HIDE DEF b, f, left
<1>13. engine'[p] = Cleared(f) /\ engine'[Peer(p)] = engine[Peer(p)]
  BY <1>1, <1>10 DEF Put, Cleared, Peer, End
<1>14. Stream(p) # <<>> /\ Head(Stream(p)) = b
  <2>1. CASE p = "sin"
    BY <1>1, <2>1 DEF Stream, StreamOf, b
  <2>2. CASE p = "client"
    <3> DEFINE B == RestOf(outbuf, pending)  C == InUse(outbuf)  w == wire["client"]
    <3>1. B \in Seq(Byte) /\ C \in Seq(Byte)
      BY StreamTypes DEF ConnectionInv
    <3> HIDE DEF B, C
    <3> DEFINE v == w \o B
    <3>2. v # <<>> /\ Head(v) = b /\ v \in Seq(Byte)
      BY <1>1, <1>2, <2>2, <3>1, TailOfConcat, ConcatProperties DEF b
    <3> HIDE DEF v
    <3>3. v \o C # <<>> /\ Head(v \o C) = b
      BY <3>1, <3>2, TailOfConcat
    <3>4. Stream("client") = v \o C
      BY DEF Stream, StreamOf, B, C, v
    <3> QED BY <2>2, <3>3, <3>4
  <2> QED BY <2>1, <2>2 DEF End
<1>15. CASE p = "sin"
  <2>1. /\ f.sent \in Seq(Byte) /\ "crossed" \notin f.warned
        /\ last => f.run = <<>>
        /\ Exchange(Cleared(f), engine["client"], Tail(Stream("sin")), Stream("client") \o f.sent,
                    said["client"], said["sin"])
    <3>1. engine["sin"].sent = <<>> /\ "crossed" \notin engine["sin"].warned
      BY <1>4, <1>15 DEF EndOK
    <3>2. f = Came(engine["sin"], "sin", Head(Stream("sin")), last) /\ Stream("sin") # <<>>
      BY <1>14, <1>15 DEF f
    <3> DEFINE g == Came(engine["sin"], "sin", Head(Stream("sin")), last)
    <3>3. /\ g.sent \in Seq(Byte) /\ "crossed" \notin g.warned
          /\ last => g.run = <<>>
          /\ Exchange(Cleared(g), engine["client"], Tail(Stream("sin")),
                      Stream("client") \o g.sent, said["client"], said["sin"])
      BY <1>6, <1>7, <1>8, <1>9, <3>1, <3>2, SinReadsByte
    <3> HIDE DEF g
    <3> QED BY <3>2, <3>3 DEF g
  <2>2. new("client") = Stream("client") \o f.sent /\ new("sin") = Tail(Stream("sin"))
    BY <1>12, <1>15, <2>1 DEF Peer
  <2> HIDE DEF new
  <2>3. engine'["sin"] = Cleared(f) /\ engine'["client"] = engine["client"]
    BY <1>13, <1>15 DEF Peer
  <2>4. Exchange(engine'["sin"], engine'["client"], new("sin"), new("client"),
                 said'["client"], said'["sin"])
    BY <1>1, <2>1, <2>2, <2>3
  <2> QED BY <1>1, <1>3, <1>5, <1>8, <1>10, <1>11, <2>1, <2>4, PutKeeps DEF new
<1>16. CASE p = "client"
  <2>1. /\ f.sent \in Seq(Byte) /\ "crossed" \notin f.warned
        /\ last => f.run = <<>>
        /\ Exchange(engine["sin"], Cleared(f), Stream("sin") \o f.sent, Tail(Stream("client")),
                    said["client"], said["sin"])
    <3>1. engine["client"].sent = <<>> /\ "crossed" \notin engine["client"].warned
      BY <1>4, <1>16 DEF EndOK
    <3>2. f = Came(engine["client"], "client", Head(Stream("client")), last)
          /\ Stream("client") # <<>>
      BY <1>14, <1>16 DEF f
    <3> DEFINE g == Came(engine["client"], "client", Head(Stream("client")), last)
    <3>3. /\ g.sent \in Seq(Byte) /\ "crossed" \notin g.warned
          /\ last => g.run = <<>>
          /\ Exchange(engine["sin"], Cleared(g), Stream("sin") \o g.sent,
                      Tail(Stream("client")), said["client"], said["sin"])
      BY <1>6, <1>7, <1>8, <1>9, <3>1, <3>2, ClientReadsByte
    <3> HIDE DEF g
    <3> QED BY <3>2, <3>3 DEF g
  <2>2. new("sin") = Stream("sin") \o f.sent /\ new("client") = Tail(Stream("client"))
    BY <1>12, <1>16, <2>1 DEF Peer
  <2> HIDE DEF new
  <2>3. engine'["client"] = Cleared(f) /\ engine'["sin"] = engine["sin"]
    BY <1>13, <1>16 DEF Peer
  <2>4. Exchange(engine'["sin"], engine'["client"], new("sin"), new("client"),
                 said'["client"], said'["sin"])
    BY <1>1, <2>1, <2>2, <2>3
  <2> QED BY <1>1, <1>3, <1>5, <1>8, <1>10, <1>11, <2>1, <2>4, PutKeeps DEF new
<1> QED BY <1>15, <1>16 DEF End

\* What ConnectionInv says of both ends, for the prover.
LEMMA ConnectionFacts ==
  ASSUME ConnectionInv
  PROVE  /\ EngineOK(engine["sin"], "sin") /\ EngineOK(engine["client"], "client")
         /\ DOMAIN engine["sin"] = Fields /\ DOMAIN engine["client"] = Fields
         /\ engine["sin"].sent = <<>> /\ engine["client"].sent = <<>>
         /\ "crossed" \notin engine["sin"].warned /\ "crossed" \notin engine["client"].warned
         /\ DOMAIN engine = End
         /\ Stream("sin") \in Seq(Byte) /\ Stream("client") \in Seq(Byte)
         /\ wire["sin"] \in Seq(Byte) /\ wire["client"] \in Seq(Byte)
         /\ said["sin"] \in Seq(Event) /\ said["client"] \in Seq(Event) /\ DOMAIN said = End
         /\ Exchange(engine["sin"], engine["client"], Stream("sin"), Stream("client"),
                     said["client"], said["sin"])
         /\ ~TransmitBinary(engine["sin"]) /\ ~TransmitBinary(engine["client"])
<1>1. EngineOK(engine["sin"], "sin") /\ EngineOK(engine["client"], "client")
      /\ DOMAIN engine = End
  BY DEF ConnectionInv, IInv, End
<1>2. /\ engine["sin"].sent = <<>> /\ engine["client"].sent = <<>>
      /\ "crossed" \notin engine["sin"].warned /\ "crossed" \notin engine["client"].warned
  BY DEF ConnectionInv, EndOK, End
<1>3. Stream("sin") \in Seq(Byte) /\ Stream("client") \in Seq(Byte)
  BY StreamTypes DEF ConnectionInv, Stream, End
<1>4. Exchange(engine["sin"], engine["client"], Stream("sin"), Stream("client"),
               said["client"], said["sin"])
  BY DEF ConnectionInv
<1>5. ~TransmitBinary(engine["sin"]) /\ ~TransmitBinary(engine["client"])
  BY <1>1, <1>4, ExchangeNotBinary
<1>6. DOMAIN engine["sin"] = Fields /\ DOMAIN engine["client"] = Fields
  BY <1>1 DEF EngineOK
<1>7. /\ wire["sin"] \in Seq(Byte) /\ wire["client"] \in Seq(Byte)
      /\ said["sin"] \in Seq(Event) /\ said["client"] \in Seq(Event) /\ DOMAIN said = End
  BY DEF ConnectionInv, WireOK
<1> QED BY <1>1, <1>2, <1>3, <1>4, <1>5, <1>6, <1>7

\* A program has done something, between two pieces.
LEMMA MoveKeeps ==
  ASSUME ConnectionInv, Rough \subseteq {"slow"}, NEW p \in End, NEW e, EngineOK(e, p),
         e.sent \in Seq(Byte), "crossed" \notin e.warned, e.run = engine[p].run,
         NEW more \in Seq(Event), Move(p, e, more),
         p = "sin" =>
           Exchange(Cleared(e), engine["client"], Stream("sin"), Stream("client") \o e.sent,
                    said["client"], said["sin"] \o more),
         p = "client" =>
           Exchange(engine["sin"], Cleared(e), Stream("sin") \o e.sent, Stream("client"),
                    said["client"] \o more, said["sin"])
  PROVE  ConnectionInv'
<1> DEFINE left == wire[p]
           new(q) == StreamOf(q, wire', outbuf', pending')
<1>1. /\ Put(p, e, left) /\ said' = [said EXCEPT ![p] = @ \o more] /\ ~reading[p]
      /\ pending' = pending /\ reading' = reading /\ (p = "sin" => pending = NoWrite)
  BY DEF Move, Mean, MaySend
<1>2. left \in Seq(Byte)
  BY ConnectionFacts DEF End
<1>3. /\ WireOK(wire) /\ OutOK(outbuf, pending)
      /\ DOMAIN reading = End /\ EndOK(engine[p], reading[p], wire[p])
  BY DEF ConnectionInv
<1>4. new(Peer(p)) = Stream(Peer(p)) \o e.sent /\ new(p) = Stream(p)
  BY <1>1, <1>2, <1>3, PutStreams
<1> HIDE DEF left
<1>5. engine'[p] = Cleared(e) /\ engine'[Peer(p)] = engine[Peer(p)]
  BY <1>1, ConnectionFacts DEF Put, Cleared, Peer, End
<1>6. said'[p] = said[p] \o more /\ said'[Peer(p)] = said[Peer(p)] /\ DOMAIN said' = End
  BY <1>1, ConnectionFacts DEF Peer, End
<1>7. said'["sin"] \in Seq(Event) /\ said'["client"] \in Seq(Event)
  <2>1. said[p] \in Seq(Event) /\ said[Peer(p)] \in Seq(Event)
    BY ConnectionFacts DEF Peer, End
  <2>2. said[p] \o more \in Seq(Event)
    BY <2>1, ConcatProperties
  <2>3. said'[p] \in Seq(Event) /\ said'[Peer(p)] \in Seq(Event)
    BY <1>6, <2>1, <2>2
  <2> QED BY <2>3 DEF Peer, End
<1>8. Exchange(engine'["sin"], engine'["client"], new("sin"), new("client"),
               said'["client"], said'["sin"])
  <2> HIDE DEF new
  <2>1. CASE p = "sin"
    <3>1. /\ new("client") = Stream("client") \o e.sent /\ new("sin") = Stream("sin")
          /\ engine'["sin"] = Cleared(e) /\ engine'["client"] = engine["client"]
          /\ said'["sin"] = said["sin"] \o more /\ said'["client"] = said["client"]
      BY <1>4, <1>5, <1>6, <2>1 DEF Peer
    <3> QED BY <2>1, <3>1
  <2>2. CASE p = "client"
    <3>1. /\ new("sin") = Stream("sin") \o e.sent /\ new("client") = Stream("client")
          /\ engine'["client"] = Cleared(e) /\ engine'["sin"] = engine["sin"]
          /\ said'["client"] = said["client"] \o more /\ said'["sin"] = said["sin"]
      BY <1>4, <1>5, <1>6, <2>2 DEF Peer
    <3> QED BY <2>2, <3>1
  <2> QED BY <2>1, <2>2 DEF End
<1>9. e.run = <<>>
  BY <1>1, <1>3 DEF EndOK
<1>10. ~reading'[p] /\ DOMAIN reading' = End /\ reading'[Peer(p)] = reading[Peer(p)]
  BY <1>1, <1>3
<1> QED BY <1>1, <1>2, <1>6, <1>7, <1>8, <1>9, <1>10, PutKeeps DEF new

\* It has told something, and no verb.
LEMMA TellKeeps ==
  ASSUME ConnectionInv, Rough \subseteq {"slow"}, NEW p \in End, NEW e, EngineOK(e, p),
         Alike(engine[p], e), e.q = engine[p].q, e.warned = engine[p].warned,
         e.sent \in Seq(Byte), NEW more \in Seq(Event), Tells(e.sent, said[p], more),
         Move(p, e, more)
  PROVE  ConnectionInv'
<1> DEFINE h == Cleared(e)
           t == e.sent
<1>1. Alike(e, h) /\ h.q = e.q
  BY ClearedAlike DEF EngineOK
<1> HIDE DEF h, t
<1>2. Alike(engine[p], h) /\ h.q = engine[p].q /\ e.run = engine[p].run
  BY <1>1 DEF Alike
<1>3. "crossed" \notin e.warned
  BY ConnectionFacts DEF End
<1>4. t \in Seq(Byte) /\ Tells(t, said[p], more)
  BY DEF t
<1>5. \A x : Alike(x, x)
  BY DEF Alike
<1>6. Exchange(engine["sin"], engine["client"], Stream("sin"), Stream("client"),
               said["client"], said["sin"])
  BY ConnectionFacts
<1>7. ASSUME p = "sin"
      PROVE  Exchange(h, engine["client"], Stream("sin"), Stream("client") \o t,
                      said["client"], said["sin"] \o more)
  <2>1. Exchange(engine["sin"], engine["client"], Stream("sin"), Stream("client") \o t,
                 said["client"], said["sin"] \o more)
    <3>1. Stream("client") \in Seq(Byte) /\ said["sin"] \in Seq(Event)
      BY ConnectionFacts
    <3>2. Tells(t, said["sin"], more)
      BY <1>4, <1>7
    <3> QED BY <1>4, <1>6, <3>1, <3>2, SinTells
  <2>2. Alike(engine["sin"], h) /\ h.q = engine["sin"].q
    BY <1>2, <1>7
  <2> QED BY <1>5, <2>1, <2>2, ExchangeAlike
<1>8. ASSUME p = "client"
      PROVE  Exchange(engine["sin"], h, Stream("sin") \o t, Stream("client"),
                      said["client"] \o more, said["sin"])
  <2>1. Exchange(engine["sin"], engine["client"], Stream("sin") \o t, Stream("client"),
                 said["client"] \o more, said["sin"])
    <3>1. Stream("sin") \in Seq(Byte) /\ said["client"] \in Seq(Event)
      BY ConnectionFacts
    <3>2. Tells(t, said["client"], more)
      BY <1>4, <1>8
    <3> QED BY <1>4, <1>6, <3>1, <3>2, ClientTells
  <2>2. Alike(engine["client"], h) /\ h.q = engine["client"].q
    BY <1>2, <1>8
  <2> QED BY <1>5, <2>1, <2>2, ExchangeAlike
<1> QED BY <1>2, <1>3, <1>4, <1>7, <1>8, MoveKeeps DEF h, t

LEMMA TextKeeps ==
  ASSUME ConnectionInv, Rough \subseteq {"slow"}, NEW p \in End, NEW b \in Text,
         Move(p, telnet_send_text(engine[p], b), Words(<<b>>))
  PROVE  ConnectionInv'
<1> DEFINE e == telnet_send_text(engine[p], b)
<1>1. EngineOK(engine[p], p) /\ DOMAIN engine[p] = Fields /\ engine[p].sent = <<>>
      /\ ~TransmitBinary(engine[p]) /\ said[p] \in Seq(Event)
  BY ConnectionFacts DEF End
<1>2. EngineOK(e, p)
  BY <1>1, SendingOK
<1>3. /\ Alike(engine[p], e) /\ e.q = engine[p].q /\ e.warned = engine[p].warned
      /\ e.sent = Encoded(b)
  BY <1>1, SentText
<1>4. Tells(Encoded(b), said[p], Words(<<b>>)) /\ Encoded(b) \in Seq(Byte)
      /\ Words(<<b>>) \in Seq(Event)
  BY <1>1, TextTells
<1>5. Move(p, e, Words(<<b>>))
  OBVIOUS
<1> HIDE DEF e
<1> QED BY <1>2, <1>3, <1>4, <1>5, TellKeeps

LEMMA ConnectionInit == Init => ConnectionInv
<1> SUFFICES ASSUME Init PROVE ConnectionInv
  OBVIOUS
<1> DEFINE e == telnet_init
           greeting == Encoded("LF")
           ev == Words(<<"LF">>)
           x == Pl("top", 0, 0, 0)
<1>1. /\ DOMAIN e = Fields /\ e.state = "DATA" /\ e.run = <<>> /\ e.got = <<>> /\ e.q = <<>>
      /\ e.sent = <<>> /\ e.warned = {}
  BY DEF telnet_init, Fields
<1>2. greeting = <<"CR", "LF">> /\ "LF" \in Text
  BY DEF Encoded, Text
<1>3. Tells(greeting, <<>>, ev) /\ greeting \in Seq(Byte) /\ ev \in Seq(Event)
  <2>1. <<>> \in Seq(Event)
    OBVIOUS
  <2> QED BY <1>2, <2>1, TextTells
<1>4. telnet_vprintf(e, "LF").sent = greeting
  <2>1. <<>> \o <<"CR", "LF">> = <<"CR", "LF">>
    <3>1. <<"CR", "LF">> \in Seq({"CR", "LF"})
      OBVIOUS
    <3> QED BY <3>1, ConcatEmptySeq
  <2>2. telnet_vprintf(e, "LF") = Send(e, <<"CR", "LF">>)
    BY DEF telnet_vprintf
  <2> HIDE DEF e
  <2>3. Send(e, <<"CR", "LF">>).sent = e.sent \o <<"CR", "LF">>
    BY <1>1, SentBytes
  <2> QED BY <1>1, <1>2, <2>1, <2>2, <2>3
<1>5. /\ engine = [p \in End |-> e]
      /\ wire = [p \in End |-> IF p = "client" THEN greeting ELSE <<>>]
      /\ outbuf = [base |-> <<>>, len |-> 0] /\ pending = NoWrite
      /\ reading = [p \in End |-> FALSE]
      /\ said = [p \in End |-> IF p = "sin" THEN ev ELSE <<>>]
  BY <1>4 DEF Init
<1> HIDE DEF e, greeting, ev
<1>6. engine["sin"] = e /\ engine["client"] = e /\ wire["sin"] = <<>> /\ wire["client"] = greeting
      /\ said["sin"] = ev /\ said["client"] = <<>>
  BY <1>5 DEF End
<1>0. <<>> \in Seq(Byte) /\ <<>> \in Seq(Event)
  OBVIOUS
<1>7. IInv
  BY InitOK
<1>8. \A p \in End : EndOK(engine[p], reading[p], wire[p])
  BY <1>1, <1>5 DEF EndOK
<1>9. WireOK(wire)
  <2>1. DOMAIN wire = End
    BY <1>5
  <2> QED BY <1>0, <1>3, <1>6, <2>1 DEF WireOK
<1>10. OutOK(outbuf, pending)
  BY <1>5 DEF OutOK
<1>11. Stream("sin") = <<>> /\ Stream("client") = greeting
  <2>1. RestOf(outbuf, pending) = <<>>
    BY <1>5 DEF RestOf
  <2>2. InUse(outbuf) = <<>>
    BY <1>5, SubSeqEmpty DEF InUse
  <2>3. (greeting \o <<>>) \o <<>> = greeting
    BY <1>3, ConcatEmptySeq
  <2> QED BY <1>6, <2>1, <2>2, <2>3 DEF Stream, StreamOf
<1>12. x \in Place /\ x = Pl("top", Len(<<>>), 0, Len(<<>>)) /\ x.at = "top" /\ x.n = 0 /\ x.m = 0
  BY DEF Place, Pl
<1>13. Exchange(e, e, <<>>, <<>>, <<>>, <<>>)
  <2>1. Matches(e, x, <<>>)
    <3>1. SubSeq(<<>>, 1, 0) = <<>>
      BY SubSeqEmpty
    <3>2. Handed(e) = <<>>
      <4>1. <<>> \o <<>> = <<>>
        <5>1. <<>> \in Seq({})
          OBVIOUS
        <5> QED BY <5>1, ConcatEmptySeq
      <4> QED BY <1>1, <4>1, WordsOfNone DEF Handed
    <3>3. Len(<<>>) = 0 /\ <<>> \in Seq(Event) /\ <<>> \in Seq(Byte)
      OBVIOUS
    <3> HIDE DEF x
    <3> QED BY <1>1, <1>12, <3>1, <3>2, <3>3 DEF Matches, StateAt
  <2>2. Parsed(x, <<>>, x, <<>>, <<>>)
    BY <1>12, ParsedNone
  <2>3. ReaderOK(e, <<>>, <<>>, <<>>, 0)
    <3> HIDE DEF x
    <3> QED BY <1>12, <2>1, <2>2 DEF ReaderOK
  <2>4. NegOK(<<>>, 0, <<>>, 0, e, e)
    <3>1. \A o, side : side \in {"us", "him"} => StandOf(e, o, side) = "NO"
      <4>1. DOMAIN e.q = {}
        BY <1>1
      <4> QED BY <4>1 DEF StandOf, get_rfc1143, Off
    <3>2. \A verbs, o : None(<<>>, 0, verbs, o)
      <4>1. 0 + 1 .. Len(<<>>) = {}
        OBVIOUS
      <4> QED BY <4>1 DEF None, Flight
    <3> QED BY <3>1, <3>2 DEF NegOK, UsOK, HimOK
  <2>5. <<>> \in Seq(Said) /\ 0 \in 0 .. Len(<<>>)
    OBVIOUS
  <2> HIDE DEF x
  <2> QED BY <2>3, <2>4, <2>5 DEF Exchange
<1>14. Exchange(e, e, <<>>, greeting, <<>>, ev)
  <2>1. <<>> \in Seq(Event) /\ <<>> \in Seq(Byte)
    OBVIOUS
  <2>2. <<>> \o greeting = greeting /\ <<>> \o ev = ev
    BY <1>3, ConcatEmptySeq
  <2>3. Exchange(e, e, <<>>, <<>> \o greeting, <<>>, <<>> \o ev)
    BY <1>3, <1>13, <2>1, SinTells
  <2> QED BY <2>2, <2>3
<1>15. Exchange(engine["sin"], engine["client"], Stream("sin"), Stream("client"),
                said["client"], said["sin"])
  BY <1>6, <1>11, <1>14
<1>16. said["sin"] \in Seq(Event) /\ said["client"] \in Seq(Event) /\ DOMAIN said = End
       /\ DOMAIN reading = End
  <2>1. DOMAIN said = End /\ DOMAIN reading = End
    BY <1>5
  <2> QED BY <1>0, <1>3, <1>6, <2>1
<1> QED BY <1>7, <1>8, <1>9, <1>10, <1>15, <1>16 DEF ConnectionInv

LEMMA ConnectionNext ==
  ASSUME Rough \subseteq {"slow"}, ConnectionInv, [Next]_vars
  PROVE  ConnectionInv'
<1>0. EngineOK(engine["client"], "client") /\ DOMAIN engine["client"] = Fields
      /\ engine["client"].sent = <<>> /\ said["client"] \in Seq(Event) /\ "client" \in End
      /\ "sin" \in End
  BY ConnectionFacts DEF End
<1>1. ASSUME NEW p \in End, NEW last \in BOOLEAN, Receive(p, last) PROVE ConnectionInv'
  BY <1>1, ReceiveKeeps
<1>2. ASSUME WireOK(wire') /\ OutOK(outbuf', pending'),
             \A p \in End : wire'[p] = <<>> => wire[p] = <<>>,
             StreamOf("sin", wire', outbuf', pending') = Stream("sin"),
             StreamOf("client", wire', outbuf', pending') = Stream("client"),
             UNCHANGED <<engine, reading, said>>
      PROVE  ConnectionInv'
  <2>1. IInv'
    BY <1>2 DEF ConnectionInv, IInv
  <2>2. \A p \in End : EndOK(engine'[p], reading'[p], wire'[p])
    BY <1>2 DEF ConnectionInv, EndOK
  <2>3. Stream("sin")' = Stream("sin") /\ Stream("client")' = Stream("client")
    BY <1>2 DEF Stream
  <2> QED BY <1>2, <2>1, <2>2, <2>3 DEF ConnectionInv
<1>3. CASE Flush
  <2>1. WireOK(wire) /\ OutOK(outbuf, pending)
    BY DEF ConnectionInv
  <2>2. UNCHANGED <<engine, reading, said>>
    BY <1>3 DEF Flush
  <2> QED BY <1>2, <1>3, <2>1, <2>2, FlushKeepsStreams
<1>4. CASE Drain
  <2>1. WireOK(wire) /\ OutOK(outbuf, pending)
    BY DEF ConnectionInv
  <2>2. UNCHANGED <<engine, reading, said>>
    BY <1>4 DEF Drain
  <2> QED BY <1>2, <1>4, <2>1, <2>2, DrainKeepsStreams
<1>5. ASSUME NEW b \in Typed, Write(b) PROVE ConnectionInv'
  <2>1. b \in Text
    BY BytesAssumption
  <2>2. Move("sin", telnet_send_text(engine["sin"], b), Words(<<b>>))
    BY <1>5 DEF Write
  <2> QED BY <1>0, <2>1, <2>2, TextKeeps
<1>6. ASSUME NEW b \in Typed, Type(b) PROVE ConnectionInv'
  <2>1. b \in Text
    BY BytesAssumption
  <2>2. Move("client", telnet_send_text(engine["client"], b), Words(<<b>>))
    BY <1>6 DEF Type
  <2> QED BY <1>0, <2>1, <2>2, TextKeeps
<1>7. ASSUME NEW verb \in Verb, NEW o \in Option, Ask(verb, o) PROVE ConnectionInv'
  <2> DEFINE e == telnet_negotiate(engine["client"], verb, o)
  <2>1. /\ EngineOK(e, "client") /\ e.sent \in Seq(Byte) /\ "crossed" \notin e.warned
        /\ e.run = engine["client"].run
        /\ Exchange(engine["sin"], Cleared(e), Stream("sin") \o e.sent, Stream("client"),
                    said["client"], said["sin"])
    BY ConnectionFacts, ClientAsksMore
  <2>2. Move("client", e, <<>>)
    BY <1>7 DEF Ask
  <2> HIDE DEF e
  <2>3. said["client"] \o <<>> = said["client"] /\ <<>> \in Seq(Event)
    BY <1>0, ConcatEmptySeq
  <2>4. Exchange(engine["sin"], Cleared(e), Stream("sin") \o e.sent, Stream("client"),
                 said["client"] \o <<>>, said["sin"])
    BY <2>1, <2>3
  <2>5. "client" # "sin"
    OBVIOUS
  <2> QED BY <1>0, <2>1, <2>2, <2>3, <2>4, <2>5, MoveKeeps
<1>8. CASE Command
  <2> DEFINE e == telnet_iac(engine["client"], "NOP")
             t == <<"IAC", "NOP">>
  <2>1. EngineOK(e, "client")
    BY <1>0, SendingOK
  <2>2. /\ Alike(engine["client"], e) /\ e.q = engine["client"].q
        /\ e.warned = engine["client"].warned /\ e.sent = t
    BY <1>0, SentNop
  <2>3. Tells(t, said["client"], <<>>) /\ t \in Seq(Byte) /\ <<>> \in Seq(Event)
    BY <1>0, NopTells
  <2>4. Move("client", e, <<>>)
    BY <1>8 DEF Command
  <2> HIDE DEF e, t
  <2> QED BY <1>0, <2>1, <2>2, <2>3, <2>4, TellKeeps
<1>9. ASSUME NEW o \in Option, NEW d \in Data, NEW end \in {"SE", "NOP"}, Fits(d),
             Move("client", Send(telnet_send(telnet_begin_sb(engine["client"], o), d), <<"IAC", end>>),
                  <<[opt |-> o, bytes |-> d]>>)
      PROVE  ConnectionInv'
  <2> DEFINE e1 == telnet_send(telnet_begin_sb(engine["client"], o), d)
             e == Send(e1, <<"IAC", end>>)
             t == (<<"IAC", "SB", o>> \o FlattenSeq(Escaped(d))) \o <<"IAC", end>>
             more == <<[opt |-> o, bytes |-> d]>>
  <2>1. d \in Seq(Text) /\ Len(d) <= Largest
    BY <1>9, BytesAssumption DEF Fits
  <2>2. EngineOK(e, "client")
    <3>1. EngineOK(e1, "client")
      BY <1>0, SendingOK
    <3> HIDE DEF e1
    <3> QED BY <3>1, SmallStepsOK
  <2>3. /\ Alike(engine["client"], e) /\ e.q = engine["client"].q
        /\ e.warned = engine["client"].warned /\ e.sent = t
    BY <1>0, <2>1, SentSub, SMTT(30)
  <2>4. Tells(t, said["client"], more) /\ t \in Seq(Byte) /\ more \in Seq(Event)
    BY <1>0, <2>1, SubTells
  <2>5. Move("client", e, more)
    BY <1>9
  <2> HIDE DEF e, t, more
  <2> QED BY <1>0, <2>2, <2>3, <2>4, <2>5, TellKeeps
<1>10. ASSUME NEW o \in Option, NEW d \in Data, Subnegotiation(o, d) PROVE ConnectionInv'
  BY <1>9, <1>10 DEF Subnegotiation, telnet_subnegotiation
<1>11. ASSUME NEW o \in Option, NEW d \in Data, Abandon(o, d) PROVE ConnectionInv'
  BY <1>9, <1>11 DEF Abandon, telnet_iac
<1>12. CASE Compress
  BY <1>12 DEF Compress
<1>13. CASE UNCHANGED vars
  <2>1. /\ UNCHANGED <<engine, reading, said>> /\ wire' = wire /\ outbuf' = outbuf
        /\ pending' = pending
    BY <1>13 DEF vars
  <2>2. WireOK(wire) /\ OutOK(outbuf, pending)
    BY DEF ConnectionInv
  <2> QED BY <1>2, <2>1, <2>2 DEF Stream
<1> QED BY <1>1, <1>3, <1>4, <1>5, <1>6, <1>7, <1>8, <1>10, <1>11, <1>12, <1>13 DEF Next

LEMMA ConnectionInvariance ==
  ASSUME Rough \subseteq {"slow"}
  PROVE  Spec => []ConnectionInv
<1>1. Init => ConnectionInv
  BY ConnectionInit
<1>2. ConnectionInv /\ [Next]_vars => ConnectionInv'
  BY ConnectionNext
<1> QED BY <1>1, <1>2, PTL DEF Spec

\* When all is read there is nothing in the stream.
LEMMA NothingLeft ==
  ASSUME ConnectionInv, NEW p \in End, Read(p)
  PROVE  Stream(p) = <<>> /\ engine[p].run = <<>>
<1>1. EndOK(engine[p], reading[p], wire[p])
  BY DEF ConnectionInv
<1>2. wire[p] = <<>>
  BY DEF Read
<1>3. CASE p = "sin"
  BY <1>1, <1>2, <1>3 DEF EndOK, Stream, StreamOf
<1>4. CASE p = "client"
  <2>1. outbuf.len = 0 /\ pending = NoWrite
    BY <1>4 DEF Read
  <2>2. RestOf(outbuf, pending) = <<>> /\ InUse(outbuf) = <<>>
    BY <2>1, SubSeqEmpty DEF RestOf, InUse
  <2>3. (<<>> \o <<>>) \o <<>> = <<>>
    <3>1. <<>> \in Seq({})
      OBVIOUS
    <3> QED BY <3>1, ConcatEmptySeq
  <2> QED BY <1>1, <1>2, <1>4, <2>2, <2>3 DEF EndOK, Stream, StreamOf
<1> QED BY <1>3, <1>4 DEF End

\* What is handed on is a part of what was made into the bytes, and all of it
\* when nothing is left to read; so are the verbs.
LEMMA ReaderHas ==
  ASSUME NEW e, NEW s, NEW ev \in Seq(Event), NEW vs \in Seq(Said), NEW k,
         ReaderOK(e, s, ev, vs, k)
  PROVE  /\ IsPrefix(e.got, ev)
         /\ s = <<>> => k = Len(vs)
         /\ s = <<>> /\ e.run = <<>> => e.got = ev
<1> DEFINE got == e.got
           more == Words(e.run)
           z == Pl("top", Len(ev), 0, Len(vs))
<1>1. PICK x \in Place : Matches(e, x, ev) /\ x.m = k /\ Parsed(x, s, z, ev, vs)
  BY DEF ReaderOK
<1>2. /\ got \in Seq(Event) /\ more \in Seq(Event) /\ x.n \in Nat /\ x.n <= Len(ev)
      /\ got \o more = SubSeq(ev, 1, x.n)
  BY <1>1, WordsType DEF Matches, Handed, Place
<1> HIDE DEF got, more
<1>3. /\ Len(got) \in Nat /\ Len(ev) \in Nat /\ Len(more) \in Nat
      /\ \A i \in 1 .. Len(ev) : ev[i] \in Event
  BY <1>2, LenProperties, ElementOfSeq
<1>4. IsPrefix(got, ev)
  <2> DEFINE a == SubSeq(ev, 1, x.n)
             b == SubSeq(ev, 1, Len(got))
  <2>1. a \in Seq(Event) /\ Len(a) = x.n /\ \A i \in 1 .. x.n : a[i] = ev[i]
    BY <1>2, <1>3, SubSeqProperties
  <2>2. /\ Len(got \o more) = Len(got) + Len(more)
        /\ \A i \in 1 .. Len(got) + Len(more) :
             (got \o more)[i] = IF i <= Len(got) THEN got[i] ELSE more[i - Len(got)]
    BY <1>2, ConcatProperties
  <2> HIDE DEF a
  <2>3. a = got \o more
    BY <1>2 DEF a
  <2>4. Len(got) <= x.n /\ \A i \in 1 .. Len(got) : got[i] = ev[i]
    <3>1. Len(a) = Len(got) + Len(more) /\ \A i \in 1 .. Len(got) + Len(more) :
            a[i] = IF i <= Len(got) THEN got[i] ELSE more[i - Len(got)]
      BY <2>2, <2>3
    <3>2. Len(got) <= x.n
      BY <1>3, <2>1, <3>1
    <3>3. ASSUME NEW i \in 1 .. Len(got) PROVE got[i] = ev[i]
      <4>1. i \in 1 .. Len(got) + Len(more) /\ i \in 1 .. x.n /\ i <= Len(got)
        BY <1>2, <1>3, <3>2
      <4> QED BY <2>1, <3>1, <4>1
    <3> QED BY <3>2, <3>3
  <2>5. b \in Seq(Event) /\ Len(b) = Len(got) /\ \A i \in 1 .. Len(got) : b[i] = ev[i]
    BY <1>2, <1>3, <2>4, SubSeqProperties
  <2> HIDE DEF b
  <2>6. got = b
    BY <1>2, <2>4, <2>5, SeqEqual
  <2>7. SubSeq(got, 1, Len(got)) = got
    BY <1>2, SubSeqFull
  <2>8. Len(got) <= Len(ev)
    BY <1>2, <1>3, <2>4
  <2> QED BY <2>6, <2>7, <2>8 DEF IsPrefix, b
<1>5. ASSUME s = <<>> PROVE k = Len(vs) /\ x.n = Len(ev)
  <2>1. PICK lab \in [1 .. Len(s) + 1 -> Place] : lab[1] = x /\ lab[Len(s) + 1] = z
    BY <1>1 DEF Parsed
  <2>2. Len(s) = 0
    BY <1>5
  <2>3. x = z
    BY <2>1, <2>2
  <2> QED BY <1>1, <2>3 DEF Pl
<1>6. ASSUME s = <<>>, e.run = <<>> PROVE got = ev
  <2>1. more = <<>>
    BY <1>6, WordsOfNone DEF more
  <2>2. SubSeq(ev, 1, Len(ev)) = ev /\ got \o <<>> = got
    BY <1>2, SubSeqFull, ConcatEmptySeq
  <2> QED BY <1>2, <1>5, <1>6, <2>1, <2>2
<1> QED BY <1>4, <1>5, <1>6 DEF got

\* What each program means the other to get arrives, in its order, and all of
\* it when all is read; as long as the socket takes the first byte of what is
\* written and no subnegotiation is too long (libtelnet.c:967, :1351).
THEOREM TextArrivesHolds ==
  ASSUME Rough \subseteq {"slow"}
  PROVE  Spec => []TextArrives
<1>1. ConnectionInv => TextArrives
  <2> SUFFICES ASSUME ConnectionInv, NEW p \in End
               PROVE  /\ IsPrefix(engine[p].got, said[Peer(p)])
                      /\ Read(p) => engine[p].got = said[Peer(p)]
    BY DEF TextArrives
  <2> DEFINE ev == said[Peer(p)]
  <2>1. PICK vs \in Seq(Said) : \E k : ReaderOK(engine[p], Stream(p), ev, vs, k)
    <3>1. CASE p = "sin"
      BY <3>1, ConnectionFacts DEF Exchange, Peer
    <3>2. CASE p = "client"
      BY <3>2, ConnectionFacts DEF Exchange, Peer
    <3> QED BY <3>1, <3>2 DEF End
  <2>2. ev \in Seq(Event)
    BY ConnectionFacts DEF Peer, End
  <2> HIDE DEF ev
  <2>3. /\ IsPrefix(engine[p].got, ev)
        /\ Stream(p) = <<>> /\ engine[p].run = <<>> => engine[p].got = ev
    BY <2>1, <2>2, ReaderHas
  <2> QED BY <2>3, NothingLeft DEF ev
<1> QED BY <1>1, ConnectionInvariance, PTL

\* When nothing is on its way both ends stand alike with every option, and an
\* option is on only where sin's table has it (libtelnet.c:363, :1241).
THEOREM AgreeHolds ==
  ASSUME Rough \subseteq {"slow"}
  PROVE  Spec => []Agree
<1>1. ConnectionInv => Agree
  <2> SUFFICES ASSUME ConnectionInv, Quiet, NEW p \in End, NEW o \in Option
               PROVE  /\ StandOf(engine[p], o, "us") \in {"NO", "YES"}
                      /\ StandOf(engine[p], o, "us") = StandOf(engine[Peer(p)], o, "him")
                      /\ StandOf(engine[p], o, "us") = "YES" =>
                           o \in Accepts["sin"][IF p = "sin" THEN "us" ELSE "him"]
    BY DEF Agree
  <2> DEFINE s == engine["sin"]  c == engine["client"]
  <2>1. PICK vS \in Seq(Said), vC \in Seq(Said) :
          \E kS, kC :
            /\ ReaderOK(s, Stream("sin"), said["client"], vS, kS)
            /\ ReaderOK(c, Stream("client"), said["sin"], vC, kC)
            /\ NegOK(vS, kS, vC, kC, c, s)
    BY ConnectionFacts DEF Exchange
  <2>2. PICK kS, kC :
          /\ ReaderOK(s, Stream("sin"), said["client"], vS, kS)
          /\ ReaderOK(c, Stream("client"), said["sin"], vC, kC)
          /\ NegOK(vS, kS, vC, kC, c, s)
    BY <2>1
  <2>3. kS = Len(vS) /\ kC = Len(vC)
    <3>1. Stream("sin") = <<>> /\ Stream("client") = <<>>
      BY NothingLeft DEF Quiet, End
    <3>2. said["sin"] \in Seq(Event) /\ said["client"] \in Seq(Event)
      BY ConnectionFacts
    <3> QED BY <2>2, <3>1, <3>2, ReaderHas
  <2>4. \A verbs : Flight(vS, kS, verbs, o) = {} /\ Flight(vC, kC, verbs, o) = {}
    <3>1. Len(vS) \in Nat /\ Len(vC) \in Nat
      BY LenProperties
    <3>2. kS + 1 .. Len(vS) = {} /\ kC + 1 .. Len(vC) = {}
      BY <2>3, <3>1
    <3> QED BY <3>2 DEF Flight
  <2>5. \A verbs, w : ~One(vS, kS, verbs, o, w) /\ ~One(vC, kC, verbs, o, w)
    BY <2>4 DEF One
  <2>6. o \in Known
    BY DEF Known
  <2>7. /\ UsOK(vS, kS, vC, kC, o, StandOf(c, o, "us"), StandOf(s, o, "him"))
        /\ HimOK(vS, kS, vC, kC, o, StandOf(c, o, "him"))
    BY <2>2, <2>6 DEF NegOK
  <2>8. StandOf(c, o, "us") = StandOf(s, o, "him") /\ StandOf(c, o, "us") \in {"NO", "YES"}
    BY <2>5, <2>7 DEF UsOK
  <2>9. StandOf(c, o, "him") = "NO"
    BY <2>5, <2>7 DEF HimOK
  <2>10. EngineOK(s, "sin")
    BY ConnectionFacts
  <2> HIDE DEF s, c
  <2>11. StandOf(s, o, "us") = "NO" /\ (StandOf(s, o, "him") = "YES" => o = "ECHO")
    BY <2>10 DEF EngineOK, Passive, StandOf, get_rfc1143, Off
  <2>12. CASE p = "sin"
    <3>1. engine[p] = s /\ engine[Peer(p)] = c
      BY <2>12 DEF s, c, Peer
    <3> QED BY <2>9, <2>11, <3>1
  <2>13. CASE p = "client"
    <3>1. engine[p] = c /\ engine[Peer(p)] = s
      BY <2>13 DEF s, c, Peer
    <3>2. "ECHO" \in Accepts["sin"].him
      BY SinAssumption
    <3> QED BY <2>8, <2>11, <2>13, <3>1, <3>2
  <2> QED BY <2>12, <2>13 DEF End
<1> QED BY <1>1, ConnectionInvariance, PTL

\* Neither end ever hears the answer that no engine gives (libtelnet.c:407,
\* :461).
THEOREM NeverCrossedHolds ==
  ASSUME Rough \subseteq {"slow"}
  PROVE  Spec => []NeverCrossed
<1>1. ConnectionInv => NeverCrossed
  BY DEF ConnectionInv, EndOK, NeverCrossed
<1> QED BY <1>1, ConnectionInvariance, PTL

=============================================================================
