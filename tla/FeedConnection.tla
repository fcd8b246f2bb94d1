--------------------------- MODULE FeedConnection ---------------------------
(***************************************************************************)
(* The timing provider's socket: documents cut into a chain of packets,    *)
(* cut again by TCP into chunks, put together by the packet framer, over   *)
(* connections that break anywhere (pit/timing_feed/framing.py and         *)
(* sources.py NatsoftSource).                                              *)
(*                                                                         *)
(* The stream is a sequence of cells: a header, with its ids and length,   *)
(* or one piece of payload.  The provider's own mistakes are a chain it    *)
(* abandons and a header that is none.                                     *)
(***************************************************************************)
EXTENDS Naturals, Sequences, SequencesExt

CONSTANTS
    Ids,        \* the cycle of packet ids
    PayloadMax,  \* cells of payload in one packet
    Sizes,      \* the documents: number -> its cells of payload
    MaxSize,    \* MAX_DOCUMENT_BYTES, in cells
    Backoff,    \* the waits between two dials, the first and the last
    ConnectionMaxFaults  \* bound on mistakes and lost connections

VARIABLES
    up,         \* there is a connection
    wait,       \* the time until the next dial
    delay,      \* NatsoftSource's delay
    next,       \* the next document the provider sends
    wire,       \* the cells sent and not received
    buffer,     \* PacketFramer._buffer
    parts,      \* PacketFramer._parts, joined
    expect,     \* PacketFramer._expect_previous and _last_following
    yielded,    \* the documents given to the service, as put together
    connectionSent,  \* history: the documents sent whole on this connection
    got,        \* history: the documents given on this connection
    connectionTorn,  \* history: the provider made a mistake on this connection
    connectionFaults  \* mistakes and lost connections so far

connectionVars == <<up, wait, delay, next, wire, buffer, parts, expect, yielded,
                    connectionSent, got, connectionTorn, connectionFaults>>

Framer == <<buffer, parts, expect>>
Dialler == <<up, wait, delay>>

Terminal == 0

\* next_packet_id: ids are 1..Ids, and cycle.
NextPacketId(i) == (i % Ids) + 1

Payload(d) == [i \in 1..Sizes[d] |-> <<d, i>>]

\* encode_document: one packet per slice, each naming the one before and after
\* it; an empty document is one empty packet.
EncodeDocument(d, firstId) ==
    LET n == IF Sizes[d] = 0 THEN 1 ELSE (Sizes[d] + PayloadMax - 1) \div PayloadMax
        id[k \in 0..n] == IF k = 0 THEN Terminal
                          ELSE IF k = n THEN Terminal
                          ELSE IF k = 1 THEN firstId ELSE NextPacketId(id[k - 1])
        slice(k) == SubSeq(Payload(d), (k - 1) * PayloadMax + 1,
                           IF k = n THEN Sizes[d] ELSE k * PayloadMax)
    IN  [k \in 1..n |-> <<[prev |-> id[k - 1], following |-> id[k], len |-> Len(slice(k)),
                           magic |-> TRUE]>> \o slice(k)]

\* PacketFramer._chain: ids that do not follow on, or a document too long, are
\* an error; the last packet of a chain completes a document.
Chain(f, header, payload) ==
    LET joined == f.parts \o payload
    IN  IF \/ header.prev # f.expect
           \/ /\ header.following # Terminal
              /\ f.expect # Terminal
              /\ header.following # NextPacketId(f.expect)
           \/ Len(joined) > MaxSize
        THEN [f EXCEPT !.error = TRUE]
        ELSE IF header.following = Terminal
        THEN [f EXCEPT !.docs = Append(@, joined), !.parts = <<>>, !.expect = Terminal]
        ELSE [f EXCEPT !.parts = joined, !.expect = header.following]

\* PacketFramer._next_packet, one turn of the loop in feed: a packet is taken
\* out of the buffer once it is all there.
Turn(f) ==
    IF f.error \/ f.buffer = <<>> THEN f
    ELSE LET header == Head(f.buffer)
         IN  IF ~header.magic THEN [f EXCEPT !.error = TRUE]
             ELSE IF Len(f.buffer) < 1 + header.len THEN f
             ELSE Chain([f EXCEPT !.buffer = SubSeq(@, header.len + 2, Len(@))],
                        header, SubSeq(f.buffer, 2, header.len + 1))

\* PacketFramer.feed: turns until nothing more is complete.
Feed(chunk) ==
    LET start == [buffer |-> buffer \o chunk, parts |-> parts, expect |-> expect,
                  docs |-> <<>>, error |-> FALSE]
    IN  FoldLeft(LAMBDA f, i : Turn(f), start, [i \in 1..Len(start.buffer) |-> i])

-----------------------------------------------------------------------------

ConnectionInit ==
    /\ up = FALSE
    /\ wait = 0
    /\ delay = Backoff[1]
    /\ next = 1
    /\ wire = <<>>
    /\ buffer = <<>>
    /\ parts = <<>>
    /\ expect = Terminal
    /\ yielded = <<>>
    /\ connectionSent = <<>>
    /\ got = <<>>
    /\ connectionTorn = FALSE
    /\ connectionFaults = 0

\* The provider sends a document whole, from any id of the cycle.
ConnectionSend(firstId) ==
              /\ up
              /\ next \in DOMAIN Sizes
              /\ next' = next + 1
              /\ wire' = wire \o FlattenSeq(EncodeDocument(next, firstId))
              /\ connectionSent' = Append(connectionSent, next)
              /\ UNCHANGED <<Dialler, Framer, yielded, got, connectionTorn, connectionFaults>>

\* The provider abandons a document after its first packet.
SendTorn ==
    /\ up
    /\ connectionFaults < ConnectionMaxFaults
    /\ next \in DOMAIN Sizes
    /\ Sizes[next] > PayloadMax
    /\ connectionFaults' = connectionFaults + 1
    /\ connectionTorn' = TRUE
    /\ next' = next + 1
    /\ wire' = wire \o EncodeDocument(next, 1)[1]
    /\ UNCHANGED <<Dialler, Framer, yielded, connectionSent, got>>

\* The provider sends a header without the magic.
SendGarbage ==
    /\ up
    /\ connectionFaults < ConnectionMaxFaults
    /\ connectionFaults' = connectionFaults + 1
    /\ connectionTorn' = TRUE
    /\ wire' = Append(wire, [magic |-> FALSE])
    /\ UNCHANGED <<Dialler, next, Framer, yielded, connectionSent, got>>

\* __aiter__ after an error or a closed connection: wait, then double the wait.
Redial ==
    /\ up' = FALSE
    /\ wire' = <<>>
    /\ wait' = delay
    /\ delay' = IF delay * 2 > Backoff[2] THEN Backoff[2] ELSE delay * 2
    /\ connectionSent' = <<>>
    /\ got' = <<>>
    /\ connectionTorn' = FALSE

\* What is read is the start of the stream that holds the first k cells.
Receive(k) ==
    /\ up
    /\ k <= Len(wire)
    /\ LET f == Feed(SubSeq(wire, 1, k))
       IN  IF f.error
           THEN /\ Redial
                /\ buffer' = <<>> /\ parts' = <<>> /\ expect' = Terminal
                /\ UNCHANGED yielded
           ELSE /\ wire' = SubSeq(wire, k + 1, Len(wire))
                /\ buffer' = f.buffer /\ parts' = f.parts /\ expect' = f.expect
                /\ yielded' = yielded \o f.docs
                /\ got' = got \o f.docs
                /\ delay' = IF f.docs = <<>> THEN delay ELSE Backoff[1]
                /\ UNCHANGED <<up, wait, connectionSent, connectionTorn>>
    /\ UNCHANGED <<next, connectionFaults>>

\* The connection is lost, closed, or silent for too long.
Lose ==
    /\ up
    /\ connectionFaults < ConnectionMaxFaults
    /\ connectionFaults' = connectionFaults + 1
    /\ Redial
    /\ UNCHANGED <<next, Framer, yielded>>

\* _connection: a new framer for each connection.
Dial ==
    /\ ~up
    /\ wait = 0
    /\ up' = TRUE
    /\ buffer' = <<>>
    /\ parts' = <<>>
    /\ expect' = Terminal
    /\ UNCHANGED <<wait, delay, next, wire, yielded, connectionSent, got, connectionTorn,
                   connectionFaults>>

\* The dial fails.
DialFails ==
    /\ ~up
    /\ wait = 0
    /\ connectionFaults < ConnectionMaxFaults
    /\ connectionFaults' = connectionFaults + 1
    /\ Redial
    /\ UNCHANGED <<next, Framer, yielded>>

ConnectionTick ==
    /\ ~up
    /\ wait > 0
    /\ wait' = wait - 1
    /\ UNCHANGED <<up, delay, next, wire, Framer, yielded, connectionSent, got,
                   connectionTorn, connectionFaults>>

ConnectionNext ==
    \/ \E i \in 1..Ids : ConnectionSend(i)
    \/ SendTorn
    \/ SendGarbage
    \/ \E k \in 1..Len(wire) : Receive(k)
    \/ Lose
    \/ Dial
    \/ DialFails
    \/ ConnectionTick

ConnectionSpec == ConnectionInit /\ [][ConnectionNext]_connectionVars

-----------------------------------------------------------------------------
\* The state has the shape the code gives it.
ConnectionTypeOK ==
    /\ up \in BOOLEAN
    /\ delay \in Backoff[1]..Backoff[2] /\ wait \in 0..Backoff[2]
    /\ expect \in 0..Ids
    /\ Len(parts) <= MaxSize

\* Every document given to the service is one the provider sent, whole and
\* nothing else: never pieces of two, whatever the chunks, the lost
\* connections and the provider's own broken chains.
WholeDocuments ==
    \A i \in DOMAIN yielded : \E d \in DOMAIN Sizes : yielded[i] = Payload(d)

\* The documents given are the ones sent on this connection, in order and with
\* none left out; how the stream was cut into chunks makes no difference.
InOrder ==
    Len(got) <= Len(connectionSent) /\ \A i \in DOMAIN got : got[i] = Payload(connectionSent[i])

\* When everything sent has been received, everything sent has been given: no
\* complete document is held back in the buffer until more arrives.  Excused:
\* a document completed by the very chunk in which the provider's mistake
\* arrives is dropped with the connection.
NothingHeldBack ==
    up /\ wire = <<>> /\ ~connectionTorn => Len(got) = Len(connectionSent)
=============================================================================
