----------------------------- MODULE RTSPReader -----------------------------
(***************************************************************************)
(* How messages are read from an RTSP connection (wfd/rtsp/message.py):    *)
(* the bytes come in chunks of any size and at any time, one deadline      *)
(* covers a message from its first byte on, and sizes are limited.  A byte *)
(* is "n", the end of a line, "?", which no header may hold, "1", "2" or   *)
(* "9", a line of which alone says Content-Length: 1, 2 or one beyond the  *)
(* limit, or "a", any other.  Reading takes no time, waiting and handling  *)
(* do.                                                                     *)
(***************************************************************************)
EXTENDS Integers, Sequences, SequencesExt, FiniteSetsExt

CONSTANTS Wires,            \* what the peer sends before it closes
          MaxChunk,         \* RTSP_MAX_LINE as the limit of one recv
          MaxLine,          \* RTSP_MAX_LINE as the limit of one line
          MaxHeaders, MaxHeaderBytes,
          MessageTimeout, IdleTimeout,
          MaxTime           \* bound of the clock

\* What a byte can be.
Kinds == {"n", "?", "1", "2", "9", "a"}

ASSUME ReaderAssumption ==
  /\ Wires \subseteq Seq(Kinds) /\ {MaxChunk, MaxLine, MaxHeaderBytes} \subseteq Nat \ {0}
  /\ MaxHeaders \in Nat /\ MessageTimeout \in Nat /\ IdleTimeout \in Nat

VARIABLES wire,      \* all that the peer sends
          received,  \* how many bytes of it were received
          now,
          idle_timeout, buffer, deadline,
          reader_at, \* "handling", "line", "body", or how it ended
          line, lines, header_bytes, body,
          since,     \* when the reader began to wait for a message
          first,     \* when its first byte was in hand
          messages   \* those returned

readVars == <<wire, received, now, idle_timeout, buffer, deadline, reader_at, line, lines,
              header_bytes, body, since, first, messages>>
Never == -1
Reading == reader_at \in {"line", "body"}

-----------------------------------------------------------------------------
(* What the lines of a header say.                                          *)

Declared(headers) == {l[1] : l \in {h \in ToSet(headers) : h \in {<<"1">>, <<"2">>, <<"9">>}}}
BadHeader(headers) ==
  \/ \E l \in ToSet(headers) : Contains(l, "?")
  \/ Cardinality(Declared(headers)) > 1 \/ "9" \in Declared(headers)
ContentLength(headers) == IF "2" \in Declared(headers) THEN 2 ELSE Cardinality(Declared(headers))

-----------------------------------------------------------------------------
ReadInit ==
  /\ wire \in Wires /\ received = 0 /\ now = 0
  /\ idle_timeout = IdleTimeout /\ buffer = <<>> /\ deadline = Never
  /\ reader_at = "handling" /\ line = <<>> /\ lines = <<>> /\ header_bytes = 0 /\ body = <<>>
  /\ since = 0 /\ first = Never /\ messages = <<>>

\* The handler reads the next message; while media runs silence is no timeout.
begin_message ==
  /\ reader_at = "handling" /\ reader_at' = "line"
  /\ idle_timeout' \in {Never, IdleTimeout}
  /\ deadline' = IF buffer # <<>> THEN now + MessageTimeout ELSE Never
  /\ since' = now /\ first' = IF buffer # <<>> THEN now ELSE Never
  /\ line' = <<>> /\ lines' = <<>> /\ header_bytes' = 0 /\ body' = <<>>
  /\ UNCHANGED <<wire, received, now, buffer, messages>>

\* When the wait for bytes is over.
Until == IF deadline # Never THEN deadline
         ELSE IF idle_timeout # Never THEN since + idle_timeout
         ELSE MaxTime + 1
Waiting == Reading /\ buffer = <<>>

\* mutant: every chunk starts the deadline anew
_receiveAnew(count) ==
  /\ Waiting /\ now < Until
  /\ buffer' = SubSeq(wire, received + 1, received + count) /\ received' = received + count
  /\ deadline' = now + MessageTimeout
  /\ first' = IF first = Never THEN now ELSE first
  /\ UNCHANGED <<wire, now, idle_timeout, reader_at, line, lines, header_bytes, body, since,
                 messages>>
_receive(count) ==
  /\ Waiting /\ now < Until
  /\ buffer' = SubSeq(wire, received + 1, received + count) /\ received' = received + count
  /\ deadline' = IF deadline = Never THEN now + MessageTimeout ELSE deadline
  /\ first' = IF first = Never THEN now ELSE first
  /\ UNCHANGED <<wire, now, idle_timeout, reader_at, line, lines, header_bytes, body, since,
                 messages>>

TimedOut ==
  /\ Waiting /\ now >= Until /\ reader_at' = "late"
  /\ UNCHANGED <<wire, received, now, idle_timeout, buffer, deadline, line, lines, header_bytes,
                 body, since, first, messages>>

\* The peer has closed: the end of the session between two messages only.
Closed ==
  /\ Waiting /\ received = Len(wire)
  /\ reader_at' = IF line = <<>> /\ lines = <<>> THEN "closed" ELSE "malformed"
  /\ UNCHANGED <<wire, received, now, idle_timeout, buffer, deadline, line, lines, header_bytes,
                 body, since, first, messages>>

Take(count) == buffer' = SubSeq(buffer, count + 1, Len(buffer))

Return(start, content) ==
  /\ reader_at' = "handling"
  /\ messages' = Append(messages, [lines |-> start, body |-> content])

\* A line is complete; an empty one ends the header, and without any line before it
\* the session.
LineRead(bytes) ==
  LET text  == SubSeq(bytes, 1, Len(bytes) - 1)
      total == header_bytes + Len(bytes)
  IN /\ header_bytes' = total /\ line' = <<>>
     /\ IF \/ Len(bytes) > MaxLine \/ total > MaxHeaderBytes
           \/ text # <<>> /\ Len(lines) > MaxHeaders
        THEN reader_at' = "malformed" /\ UNCHANGED <<lines, body, messages>>
        ELSE IF text # <<>>
        THEN reader_at' = "line" /\ lines' = Append(lines, text) /\ UNCHANGED <<body, messages>>
        ELSE /\ UNCHANGED <<lines, body>>
             /\ CASE lines = <<>> -> reader_at' = "closed" /\ UNCHANGED messages
                  [] lines # <<>> /\ BadHeader(Tail(lines)) ->
                       reader_at' = "malformed" /\ UNCHANGED messages
                  [] lines # <<>> /\ ~BadHeader(Tail(lines)) ->
                       IF ContentLength(Tail(lines)) = 0 THEN Return(lines, <<>>)
                       ELSE reader_at' = "body" /\ UNCHANGED messages

\* Up to the end of the line, of the buffer or of what a line may hold.
readline ==
  /\ reader_at = "line" /\ buffer # <<>>
  /\ LET ends  == {i \in 1..Len(buffer) : buffer[i] = "n"}
         end   == IF ends = {} THEN Len(buffer) ELSE Min(ends)
         count == Min({end, MaxLine + 1 - Len(line)})
         bytes == line \o SubSeq(buffer, 1, count)
     IN /\ Take(count)
        /\ IF Last(bytes) = "n" \/ Len(bytes) = MaxLine + 1
           THEN LineRead(bytes)
           ELSE line' = bytes /\ UNCHANGED <<reader_at, lines, header_bytes, body, messages>>
  /\ UNCHANGED <<wire, received, now, idle_timeout, deadline, since, first>>

\* mutant: the rest of the buffer goes with the body
readAll ==
  /\ reader_at = "body" /\ buffer # <<>>
  /\ buffer' = <<>> /\ body' = body \o buffer
  /\ IF Len(body') >= ContentLength(Tail(lines)) THEN Return(lines, body')
     ELSE UNCHANGED <<reader_at, messages>>
  /\ UNCHANGED <<wire, received, now, idle_timeout, deadline, line, lines, header_bytes, since,
                 first>>
read ==
  /\ reader_at = "body" /\ buffer # <<>>
  /\ LET count == Min({Len(buffer), ContentLength(Tail(lines)) - Len(body)})
     IN Take(count) /\ body' = body \o SubSeq(buffer, 1, count)
  /\ IF Len(body') = ContentLength(Tail(lines)) THEN Return(lines, body')
     ELSE UNCHANGED <<reader_at, messages>>
  /\ UNCHANGED <<wire, received, now, idle_timeout, deadline, line, lines, header_bytes, since,
                 first>>

Tick ==
  /\ now < MaxTime /\ now' = now + 1
  /\ reader_at = "handling" \/ (Waiting /\ now < Until)
  /\ UNCHANGED <<wire, received, idle_timeout, buffer, deadline, reader_at, line, lines, header_bytes,
                 body, since, first, messages>>

ReadNext ==
  \/ begin_message \/ readline \/ read \/ TimedOut \/ Closed \/ Tick
  \/ \E count \in 1..Min({MaxChunk, Len(wire) - received}) : _receive(count)
ReadSpec == ReadInit /\ [][ReadNext]_readVars

-----------------------------------------------------------------------------
(* The messages in all that the peer sends.                                 *)

\* Where the line that starts at p ends, beyond the bytes if it does not.
LineEnd(bytes, p) == Min({Len(bytes) + 1} \cup {q \in p..Len(bytes) : bytes[q] = "n"})

\* The lines of a header from each place on, and where the empty one ends it.
Headers(bytes) ==
  LET from[p \in 1..(Len(bytes) + 1)] ==
        LET end == LineEnd(bytes, p)
        IN IF end \in {p, Len(bytes) + 1} THEN [lines |-> <<>>, end |-> end]
           ELSE [lines |-> <<SubSeq(bytes, p, end - 1)>> \o from[end + 1].lines,
                 end   |-> from[end + 1].end]
  IN from
MessageEnd(bytes, p) ==
  Headers(bytes)[p].end + ContentLength(Tail(Headers(bytes)[p].lines))

\* The header that starts at p is complete and within the limits.
Within(bytes, p) ==
  LET header == Headers(bytes)[p]
  IN /\ header.end <= Len(bytes) /\ header.end - p < MaxHeaderBytes
     /\ Len(header.lines) <= MaxHeaders + 1
     /\ \A l \in ToSet(header.lines) : Len(l) < MaxLine
     /\ ~BadHeader(Tail(header.lines))

\* The messages from each place on, and how they end.
MessagesFrom(bytes) ==
  LET from[p \in 1..(Len(bytes) + 1)] ==
        IF p > Len(bytes) \/ bytes[p] = "n" THEN [messages |-> <<>>, ends |-> "closed"]
        ELSE IF ~Within(bytes, p) \/ MessageEnd(bytes, p) > Len(bytes)
        THEN [messages |-> <<>>, ends |-> "malformed"]
        ELSE LET header == Headers(bytes)[p]
                 end    == MessageEnd(bytes, p)
             IN [messages |-> <<[lines |-> header.lines,
                                 body  |-> SubSeq(bytes, header.end + 1, end)]>>
                              \o from[end + 1].messages,
                 ends     |-> from[end + 1].ends]
  IN from
Sent == MessagesFrom(wire)[1]

\* What is read is what was sent, whatever the chunks it came in, and it ends as
\* the bytes say unless time ran out.
ReadAsSent ==
  /\ IsPrefix(messages, Sent.messages)
  /\ reader_at \in {"closed", "malformed"} => messages = Sent.messages /\ reader_at = Sent.ends

\* The reader waits for no message longer than its idle timeout allows, and once
\* its first byte is in hand no longer than the time of one message, however the
\* rest trickles in and whatever came with the message before.
OneDeadline ==
  Waiting => IF first # Never THEN now - first <= MessageTimeout
             ELSE idle_timeout # Never => now - since <= idle_timeout
=============================================================================
