----------------------------- MODULE RtspSession -----------------------------
(***************************************************************************)
(* The RTSP control connection of one Miracast session: the WFD handshake  *)
(* M1-M7 (castd/wfdsink/rtsp.py), the loop that acknowledges the source's  *)
(* keep-alives (castd/wfdsink/session.py), and RtspReader, which cuts the  *)
(* byte stream into messages.                                              *)
(*                                                                         *)
(* The i-th message of the source travels as pieces <<i, part>>: the       *)
(* request or status line, the headers, the blank line, and the body if it *)
(* has one.  TCP keeps their order; a recv() returns whatever has arrived, *)
(* from a part of a message to several.  The source sends the messages of  *)
(* the handshake in order and waits for castd where the protocol says so;  *)
(* a message may be flawed, and the source may stop or close anywhere, in  *)
(* the middle of a message too.                                            *)
(***************************************************************************)
EXTENDS Naturals, Sequences

CONSTANTS MaxMessages   \* bound on the messages of a source

ASSUME MaxMessagesAssumption == MaxMessages \in Nat /\ MaxMessages >= 7

VARIABLES
  sent,      \* the messages the source has begun to send
  unwritten, \* the pieces of the last one that it has not written yet
  wire,      \* the pieces castd has not received yet
  conn,      \* the connection at the source's end: "open", "fin" or "reset"
  said,      \* what castd has sent
  buf,       \* RtspReader._buf
  taken,     \* the pieces next_message() has returned so far
  last,      \* the last message it returned
  got,       \* how many it returned in the handshake
  nstate,    \* WfdNegotiator.state
  phase,     \* where the session thread is
  sockOpen   \* the stream watchdog has not closed the socket

source == <<sent, unwritten, wire, conn>>
reader == <<buf, taken, last>>
vars == <<source, said, reader, got, nstate, phase, sockOpen>>

Handshake == <<"OPTIONS", "M2_OK", "GET_PARAMETER", "SET_PARAMETER", "TRIGGER_SETUP",
               "SETUP_OK", "PLAY_OK">>
KeepAlive == "GET_PARAMETER_M16"
Teardown == "TRIGGER_TEARDOWN"

\* What the source expects castd to have said before each of them.
Awaited == <<0, 2, 2, 3, 4, 6, 7>>

Messages == [kind : {Handshake[i] : i \in 1 .. 7} \cup {KeepAlive, Teardown}, flawed : BOOLEAN]

Responses == {"M2_OK", "SETUP_OK", "PLAY_OK"}
WithBody == {"GET_PARAMETER", "SET_PARAMETER", "TRIGGER_SETUP", Teardown}

Pieces(i, kind) == << <<i, "line">>, <<i, "headers">>, <<i, "blank">> >>
                     \o IF kind \in WithBody THEN << <<i, "body">> >> ELSE <<>>

NegotiatorStates == {"WAIT_M1", "WAIT_M3", "WAIT_M4", "WAIT_M5", "WAIT_M6_RESPONSE",
                     "WAIT_M7_RESPONSE", "STREAMING", "TORN_DOWN"}
Phases == {"handshake", "starting", "steady", "over"}

Init ==
  /\ sent = <<>> /\ unwritten = <<>> /\ wire = <<>> /\ conn = "open"
  /\ said = <<>>
  /\ buf = <<>> /\ taken = <<>> /\ last = <<>>
  /\ got = 0 /\ nstate = "WAIT_M1" /\ phase = "handshake" /\ sockOpen = TRUE
-----------------------------------------------------------------------------
\* The source.

MayBegin(i) == i \in 1 .. 7 => Len(said) >= Awaited[i]

SourceBegins ==
  LET i == Len(sent) + 1 IN
  /\ conn = "open" /\ unwritten = <<>> /\ i <= MaxMessages /\ MayBegin(i)
  /\ \E kind \in IF i <= 7 THEN {Handshake[i]} ELSE {KeepAlive, Teardown}, flawed \in BOOLEAN :
       /\ sent' = Append(sent, [kind |-> kind, flawed |-> flawed])
       /\ unwritten' = Pieces(i, kind)
  /\ UNCHANGED <<wire, conn, said, reader, got, nstate, phase, sockOpen>>

SourceWrites ==
  /\ conn = "open" /\ unwritten # <<>>
  /\ wire' = Append(wire, Head(unwritten)) /\ unwritten' = Tail(unwritten)
  /\ UNCHANGED <<sent, conn, said, reader, got, nstate, phase, sockOpen>>

SourceCloses ==
  /\ conn = "open"
  /\ conn' \in {"fin", "reset"}
  /\ UNCHANGED <<sent, unwritten, wire, said, reader, got, nstate, phase, sockOpen>>

\* The stream watchdog knows the socket from the moment the session has it.
WatchdogCloses ==
  /\ sockOpen /\ phase # "over"
  /\ sockOpen' = FALSE
  /\ UNCHANGED <<source, said, reader, got, nstate, phase>>
-----------------------------------------------------------------------------
\* RtspReader.next_message.

Heads(b) == {k \in 1 .. Len(b) : b[k][2] = "blank"}
HeadEnd(b) == CHOOSE k \in Heads(b) : \A j \in Heads(b) : k <= j
BodyLength(piece) == IF sent[piece[1]].kind \in WithBody THEN 1 ELSE 0

TotalHeaderOnly(b) == HeadEnd(b)
Total(b) == HeadEnd(b) + BodyLength(b[HeadEnd(b)])

HasMessage(b) == Heads(b) # {} /\ Len(b) >= Total(b)

Reading == phase \in {"handshake", "steady"}

\* recv() returns what TCP has delivered so far.
Receive ==
  /\ Reading /\ sockOpen /\ ~HasMessage(buf) /\ wire # <<>>
  /\ buf' = buf \o wire /\ wire' = <<>>
  /\ UNCHANGED <<sent, unwritten, conn, said, taken, last, got, nstate, phase, sockOpen>>

\* next_message() returns m and keeps rest.
Returns(m, rest) == /\ buf' = rest
                    /\ taken' = taken \o m
                    /\ last' = m

NextMessage(m) ==
  \/ /\ HasMessage(buf)
     /\ m = SubSeq(buf, 1, Total(buf))
     /\ Returns(m, SubSeq(buf, Total(buf) + 1, Len(buf)))
  \* An empty recv: whatever is in the buffer is returned as a message.
  \/ /\ ~HasMessage(buf) /\ sockOpen /\ conn = "fin" /\ wire = <<>>
     /\ m = buf
     /\ Returns(m, <<>>)
-----------------------------------------------------------------------------
\* WfdNegotiator: what it looks for in a message.

Sound(m, part) == \E k \in 1 .. Len(m) : m[k][2] = part /\ ~sent[m[k][1]].flawed
HasKind(m, kinds) == \E k \in 1 .. Len(m) : m[k][2] = "line" /\ sent[m[k][1]].kind \in kinds
HasTrigger(m) == \E k \in 1 .. Len(m) : m[k][2] = "body" /\ sent[m[k][1]].kind = Teardown

HasCSeq(m) == Sound(m, "headers")

Reply(m) == [says |-> "reply", to |-> Head(m)[1]]
Request(method) == [says |-> method, to |-> 0]

\* The i-th read of negotiate(): is the message accepted, where does the
\* negotiator go, and what does castd say next.
AcceptedAnyM7(i, m) ==
  CASE i \in {1, 3, 4, 5} -> HasCSeq(m)
    [] i = 2 -> TRUE
    [] i = 6 -> Sound(m, "headers")
    [] i = 7 -> m # <<>>
Accepted(i, m) ==
  CASE i \in {1, 3, 4, 5} -> HasCSeq(m)
    [] i = 2 -> TRUE                        \* the response to M2 is not looked at
    [] i = 6 -> Sound(m, "headers")         \* server_port and Session
    [] i = 7 -> Sound(m, "line")            \* "200 OK"

Expects == <<"WAIT_M1", "WAIT_M3", "WAIT_M3", "WAIT_M4", "WAIT_M5", "WAIT_M6_RESPONSE",
             "WAIT_M7_RESPONSE", "STREAMING">>

\* Where the handler of the i-th read leaves the negotiator.
AdvanceForgetsM4(i) == IF i = 4 THEN Expects[4] ELSE Expects[i + 1]
Advance(i) == Expects[i + 1]

AnswersLateM2(i, m) ==
  CASE i = 1 -> <<Reply(m)>>
    [] i = 2 -> <<Request("OPTIONS")>>
    [] i \in {3, 4} -> <<Reply(m)>>
    [] i = 5 -> <<Reply(m), Request("SETUP")>>
    [] i = 6 -> <<Request("PLAY")>>
    [] i = 7 -> <<>>
Answers(i, m) ==
  CASE i = 1 -> <<Reply(m), Request("OPTIONS")>>
    [] i \in {2, 7} -> <<>>
    [] i \in {3, 4} -> <<Reply(m)>>
    [] i = 5 -> <<Reply(m), Request("SETUP")>>
    [] i = 6 -> <<Request("PLAY")>>

\* sendall() raises OSError on a socket that is closed here; on one that
\* the source has closed it may.
SendWorks == sockOpen
SendFails(list) == list # <<>> /\ (~sockOpen \/ conn # "open")

Negotiate ==
  /\ phase = "handshake"
  /\ \E m \in {SubSeq(buf, 1, k) : k \in 0 .. Len(buf)} :
       /\ NextMessage(m)
       /\ LET i == got + 1 IN
          \/ /\ nstate = Expects[i] /\ Accepted(i, m)
             /\ Answers(i, m) = <<>> \/ SendWorks
             /\ said' = said \o Answers(i, m)
             /\ nstate' = Advance(i)
             /\ phase' = IF i = 7 THEN "starting" ELSE "handshake"
             /\ got' = i
          \* OSError out of sendall(): the handler has moved the state.
          \/ /\ nstate = Expects[i] /\ Accepted(i, m) /\ SendFails(Answers(i, m))
             /\ nstate' = Advance(i)
             /\ phase' = "over" /\ got' = i
             /\ UNCHANGED said
          \* NegotiationError.
          \/ /\ nstate # Expects[i] \/ ~Accepted(i, m)
             /\ phase' = "over" /\ got' = i
             /\ UNCHANGED <<said, nstate>>
  /\ UNCHANGED <<source, sockOpen>>

StartPumpFreshReader ==
  /\ phase = "starting" /\ sockOpen
  /\ phase' = "steady" /\ buf' = <<>>
  /\ UNCHANGED <<source, said, taken, last, got, nstate, sockOpen>>

\* The pipeline is started and _pump_control_channel goes on with the same
\* reader.
StartPump ==
  /\ phase = "starting" /\ sockOpen
  /\ phase' = "steady"
  /\ UNCHANGED <<source, said, reader, got, nstate, sockOpen>>

\* Popen raises OSError; or the socket is closed here already, and the
\* settimeout() that run_steady_state begins with raises it.
StartFails ==
  /\ phase = "starting"
  /\ phase' = "over"
  /\ UNCHANGED <<source, said, reader, got, nstate, sockOpen>>
-----------------------------------------------------------------------------
\* run_steady_state.

IsTeardownTriggerOnly(m) == HasTrigger(m)
IsTeardown(m) == m = <<>> \/ HasTrigger(m)

Requests == {KeepAlive, Teardown}

AcksKeepAlivesOnly(m) == IF HasKind(m, {KeepAlive}) THEN <<Reply(m)>> ELSE <<>>
Acks(m) == IF HasKind(m, Requests) THEN <<Reply(m)>> ELSE <<>>

Over == phase' = "over" /\ nstate' = "TORN_DOWN"

SteadyState ==
  /\ phase = "steady"
  /\ \E m \in {SubSeq(buf, 1, k) : k \in 0 .. Len(buf)} :
       /\ NextMessage(m)
       /\ \/ /\ Acks(m) = <<>> \/ (HasCSeq(m) /\ SendWorks)
             /\ said' = said \o Acks(m)
             /\ IF IsTeardown(m) THEN Over ELSE UNCHANGED <<phase, nstate>>
          \* NegotiationError out of the acknowledgement, OSError out of sendall().
          \/ /\ Acks(m) # <<>> /\ (~HasCSeq(m) \/ SendFails(Acks(m)))
             /\ Over
             /\ UNCHANGED said
  /\ UNCHANGED <<source, got, sockOpen>>

\* recv() raises: the timeout (15 s in the handshake, 60 s after it), or
\* OSError once the socket is closed here or reset by the source.
ReceiveFails ==
  /\ Reading /\ ~HasMessage(buf)
  /\ ~sockOpen \/ conn = "reset" \/ (conn = "open" /\ wire = <<>>)
  /\ phase' = "over"
  /\ nstate' = IF phase = "steady" THEN "TORN_DOWN" ELSE nstate
  /\ UNCHANGED <<source, said, reader, got, sockOpen>>

SinkStep == Receive \/ Negotiate \/ StartPump \/ StartFails \/ SteadyState \/ ReceiveFails

Next == SourceBegins \/ SourceWrites \/ SourceCloses \/ WatchdogCloses \/ SinkStep

\* The session thread runs; nothing is assumed of the source.
Spec == Init /\ [][Next]_vars /\ WF_vars(SinkStep)
-----------------------------------------------------------------------------
(* Types; and the negotiator expects what negotiate() reads next.          *)
TypeOK ==
  /\ sent \in Seq(Messages) /\ Len(sent) <= MaxMessages
  /\ conn \in {"open", "fin", "reset"} /\ sockOpen \in BOOLEAN
  /\ got \in 0 .. 7 /\ nstate \in NegotiatorStates /\ phase \in Phases
  /\ phase \in {"handshake", "starting", "steady"} => nstate = Expects[got + 1]

SentPieces ==
  LET upTo[i \in 0 .. Len(sent)] ==
        IF i = 0 THEN <<>> ELSE upTo[i - 1] \o Pieces(i, sent[i].kind)
  IN  upTo[Len(sent)]

(* Whatever the segments, nothing the source sent is lost, doubled or      *)
(* reordered between TCP and the handlers, across the end of the handshake *)
(* too: what was returned, what the reader holds, what is on the wire and  *)
(* what the source has still to write is what it set out to send.          *)
NothingLost == taken \o buf \o wire \o unwritten = SentPieces

(* A handler is never given half a message, or two, while the source is    *)
(* there.                                                                  *)
WholeMessages ==
  last # <<>> /\ conn = "open" => last = Pieces(last[1][1], sent[last[1][1]].kind)

(* Streaming starts only when both ends agree: the source has sent all of  *)
(* its side of the handshake, and nothing castd relies on was flawed.      *)
Agreement ==
  nstate = "STREAMING" =>
    Len(sent) >= 7 /\ \A i \in 1 .. 7 : i # 2 => ~sent[i].flawed

(* Source and sink never wait for each other: when castd waits for a       *)
(* message of the handshake the source has all it needs to send it.        *)
NoStandoff ==
  phase = "handshake" /\ conn = "open" /\ unwritten = <<>> /\ wire = <<>> /\ ~HasMessage(buf) =>
    MayBegin(Len(sent) + 1)

IsReply(k) == said[k].says = "reply"
Replies == {k \in 1 .. Len(said) : IsReply(k)}
RequestsRead == {i \in 1 .. Len(sent) : /\ sent[i].kind \notin Responses
                                        /\ \E k \in 1 .. Len(taken) : taken[k] = <<i, "line">>}

(* castd's replies answer requests it has read, in the order in which they *)
(* came, each at most once; it passes none over, and none that it has read *)
(* is left unanswered while the session goes on.                           *)
EveryRequestAnswered ==
  /\ \A k \in Replies : said[k].to \in RequestsRead
  /\ \A j, k \in Replies : j < k => said[j].to < said[k].to
  /\ \A i \in RequestsRead :
       (phase # "over" \/ \E k \in Replies : i < said[k].to) => \E k \in Replies : said[k].to = i

(* A session whose source has closed the connection, asked for the         *)
(* teardown, or whose socket the watchdog has closed, ends.                *)
SessionOver ==
  (conn # "open" \/ ~sockOpen \/ (\E i \in 1 .. Len(sent) : sent[i].kind = Teardown))
    ~> phase = "over"
=============================================================================
