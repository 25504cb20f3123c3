---------------------------- MODULE LineService ----------------------------
(***************************************************************************)
(* What a connection promises to game code: net.input tells of each line,  *)
(* one client after another, that it connected, what it typed, and that it *)
(* has gone; net.write reaches the client that is on the line, or nobody.  *)
(* Nothing is promised of what a client types after a NUL.                 *)
(* Lines.tla is the table that keeps the promise (Service).                *)
(***************************************************************************)
EXTENDS Integers, Sequences

CONSTANTS
  Line,   \* the lines of the game
  NoLine,
  Chunk,  \* what a client may send at a time
  NL,     \* the newline character
  NUL     \* the character that ends a string

VARIABLES
  client, \* client[l]: there is "none", it is "here", or "gone"
  unread, \* unread[l]: what the client sent and the game has not got; a NUL
          \* in it ends what the game can rely on
  known,  \* known[l]: the game was told of the client
  output, \* output[l]: something waits to be sent to the client
  event   \* what the latest net.input of this turn returned

vars == <<client, unread, known, output, event>>

Report(ret, l, text) == event' = [ret |-> ret, line |-> l, text |-> text]

Init ==
  /\ client = [l \in Line |-> "none"]
  /\ unread = [l \in Line |-> <<>>]
  /\ known = [l \in Line |-> FALSE]
  /\ output = [l \in Line |-> FALSE]
  /\ event = [ret |-> -1, line |-> NoLine, text |-> <<>>]

HasNul(s) == \E i \in 1 .. Len(s) : s[i] = NUL

\* The oldest whole line of s ends at i.
EndsLine(i, s) ==
  /\ i \in 1 .. Len(s)
  /\ s[i] = NL
  /\ \A j \in 1 .. i - 1 : s[j] \notin {NL, NUL}

HasLine(s) == \E i \in 1 .. Len(s) : EndsLine(i, s)

-----------------------------------------------------------------------------
(* Clients.                                                                *)

\* A client finds nothing of the one before it.
Arrive(l) ==
  /\ client[l] = "none" /\ ~known[l] /\ ~output[l]
  /\ client' = [client EXCEPT ![l] = "here"]
  /\ UNCHANGED <<unread, known, output, event>>

\* A client that goes may have sent something first.
Send(l, data, last) ==
  /\ client[l] = "here"
  /\ unread' = [unread EXCEPT ![l] = IF HasNul(@) THEN @ ELSE @ \o data]
  /\ client' = [client EXCEPT ![l] = IF last THEN "gone" ELSE "here"]
  /\ UNCHANGED <<known, output, event>>

Leave(l) ==
  /\ client[l] = "here"
  /\ client' = [client EXCEPT ![l] = "gone"]
  /\ UNCHANGED <<unread, known, output, event>>

-----------------------------------------------------------------------------
(* Game code.                                                              *)

\* A client is reported at most once, and not when a whole line of it is there.
Connected(l) ==
  /\ client[l] = "here" /\ ~known[l] /\ ~HasLine(unread[l])
  /\ known' = [known EXCEPT ![l] = TRUE]
  /\ Report(1, l, <<>>)
  /\ UNCHANGED <<client, unread, output>>

\* The oldest line is taken, whole; it may be the first that is heard of a
\* client.
Input(l) ==
  /\ client[l] = "here"
  /\ \E i \in 1 .. Len(unread[l]) :
       /\ EndsLine(i, unread[l])
       /\ Report(3, l, SubSeq(unread[l], 1, i - 1))
       /\ unread' = [unread EXCEPT ![l] = SubSeq(@, i + 1, Len(@))]
  /\ known' = [known EXCEPT ![l] = TRUE]
  /\ UNCHANGED <<client, output>>

\* A client that sent a NUL, and has no whole line in front of it any more, may be
\* said to have typed anything.
Garbled(l) ==
  /\ client[l] = "here"
  /\ HasNul(unread[l]) /\ ~HasLine(unread[l])
  /\ Report(3, l, event'.text)
  /\ unread' = [unread EXCEPT ![l] = <<NUL>>]
  /\ known' = [known EXCEPT ![l] = TRUE]
  /\ UNCHANGED <<client, output>>

\* The end is reported once; then the line is free.  What was not read is lost.
Gone(l) ==
  /\ client[l] = "gone"
  /\ client' = [client EXCEPT ![l] = "none"]
  /\ unread' = [unread EXCEPT ![l] = <<>>]
  /\ known' = [known EXCEPT ![l] = FALSE]
  /\ output' = [output EXCEPT ![l] = FALSE]
  /\ Report(2, l, <<>>)

Nothing == Report(0, NoLine, <<>>) /\ UNCHANGED <<client, unread, known, output>>

\* net.write, or an answer to a telnet option.
Write(l) ==
  /\ client[l] = "here"
  /\ output' = [output EXCEPT ![l] = TRUE]
  /\ UNCHANGED <<client, unread, known, event>>

\* The turn ends: what waits for a client that is here is sent.
Turn ==
  /\ output' = [l \in Line |-> output[l] /\ client[l] # "here"]
  /\ Report(-1, NoLine, <<>>)
  /\ UNCHANGED <<client, unread, known>>

Next ==
  \/ \E l \in Line :
       \/ Arrive(l)
       \/ \E data \in Chunk, last \in BOOLEAN : Send(l, data, last)
       \/ Leave(l) \/ Connected(l) \/ Input(l) \/ Garbled(l) \/ Gone(l) \/ Write(l)
  \/ Nothing
  \/ Turn

Spec == Init /\ [][Next]_vars

=============================================================================
