----------------------------- MODULE UIBCInput -----------------------------
(***************************************************************************)
(* The UIBC back channel (drivers/uibc.py): the sink's bytes are parsed    *)
(* into pointer and key events by the input thread, which writes them to   *)
(* two uinput devices; stop() runs in another thread and does not wait for *)
(* the input thread.                                                       *)
(* A byte is a number; a packet is <<type, length, body...>> (the category *)
(* and type bytes in one, the length in one byte) and a pointer is one     *)
(* coordinate.  A write to a device is one of "id", "up", "pos", "key",    *)
(* "syn" (slot, button and both axes belong to the write they go with).    *)
(***************************************************************************)
EXTENDS Integers, Sequences, SequencesExt

CONSTANTS Streams,         \* byte streams a sink may send on one connection
          MaxPacket,       \* 4096
          SinkWidth, MonitorWidth,
          MaxId,           \* 0xFFFF
          MaxConns         \* bound of the runs

ASSUME UIBCAssumption ==
  /\ Streams \subseteq Seq(Nat) /\ MaxPacket \in Nat
  /\ {SinkWidth, MonitorWidth, MaxId} \subseteq Nat \ {0}

VARIABLES setup, running, listening, server, stream, got, buffer, queue, todo, bound,
          pressed, tracking, attr, kernel, contact, stopping,
          conns, done, lastTouch, strayLate

serverVars == <<setup, running, listening, stopping>>
connVars == <<stream, got, buffer, queue, done, conns>>
deviceVars == <<attr, kernel>>
touchVars == <<pressed, tracking, contact, lastTouch, strayLate>>
vars == <<serverVars, server, connVars, todo, bound, deviceVars, touchVars>>

Devices == {"touch", "keys"}
HeaderLength == 2
\* 5 stands for the types that are ignored, 6 for a category other than GENERIC.
DOWN == 0
UP == 1
MOVE == 2
KEYDOWN == 3
KEYUP == 4

-----------------------------------------------------------------------------
(* The parser.                                                              *)

\* As many pointers as the count says and the body holds, or one key.
Events(packet) ==
  LET type == packet[1]
      body == SubSeq(packet, HeaderLength + 1, Len(packet))
  IN CASE type \in {DOWN, UP, MOVE} /\ body # <<>> ->
            [k \in 1..(IF body[1] < Len(body) - 1 THEN body[1] ELSE Len(body) - 1) |->
               [kind |-> type, at |-> body[k + 1]]]
       [] type \in {KEYDOWN, KEYUP} /\ body # <<>> -> <<[kind |-> type, at |-> body[1]]>>
       [] OTHER -> <<>>

Sane(length) == length >= HeaderLength /\ length <= MaxPacket

\* (events, consumed) from each place of a buffer on: bytes whose length field is absurd
\* are skipped one at a time, a packet that is not complete stays in the buffer.
Parser(buf) ==
  LET n == Len(buf)
      From[o \in 0..n] ==
        IF n - o < HeaderLength THEN [events |-> <<>>, consumed |-> o]
        ELSE LET length == buf[o + 2] IN
             IF ~Sane(length) THEN From[o + 1]
             ELSE IF n - o < length THEN [events |-> <<>>, consumed |-> o]
             ELSE [events |-> Events(SubSeq(buf, o + 1, o + length)) \o From[o + length].events,
                   consumed |-> From[o + length].consumed]
  IN From

parse_packets(buf) == Parser(buf)[0]

\* round() of a quotient: half to even.
Rounded(a, b) == LET q == a \div b  r == a % b
                 IN IF 2 * r < b \/ (2 * r = b /\ q % 2 = 0) THEN q ELSE q + 1
\* mutant: not kept on the monitor
to_screenAnywhere(x) == Rounded(x * MonitorWidth, SinkWidth)
to_screen(x) == LET s == Rounded(x * MonitorWidth, SinkWidth)
                IN IF s > MonitorWidth - 1 THEN MonitorWidth - 1 ELSE s

-----------------------------------------------------------------------------
Init ==
  /\ setup = "idle" /\ running = FALSE /\ listening = FALSE /\ stopping = "no"
  /\ server = "none" /\ stream = <<>> /\ got = 0 /\ buffer = <<>> /\ queue = <<>>
  /\ todo = <<>> /\ bound = "no" /\ done = <<>> /\ conns = 0
  /\ pressed = FALSE /\ tracking = 0 /\ contact = 0 /\ lastTouch = UP /\ strayLate = 0
  /\ attr = [d \in Devices |-> FALSE] /\ kernel = [d \in Devices |-> "none"]

Setup(from, to) == setup = from /\ setup' = to
Stop(from, to) == stopping = from /\ stopping' = to

\* UinputPointer.open and UinputKeyboard.open; failing is no error.
Open(d) ==
  /\ IF d = "touch" THEN Setup("idle", "touch") ELSE Setup("touch", "keys")
  /\ \/ attr' = [attr EXCEPT ![d] = TRUE] /\ kernel' = [kernel EXCEPT ![d] = "device"]
     \/ UNCHANGED deviceVars
  /\ UNCHANGED <<running, listening, stopping, server, connVars, todo, bound, touchVars>>

Listen ==
  /\ Setup("keys", "up")
  /\ running' = TRUE /\ listening' = TRUE /\ server' = "accept"
  /\ UNCHANGED <<stopping, connVars, todo, bound, deviceVars, touchVars>>

\* bind raises: start_uibc returns None, nobody closes the two devices.
BindFails ==
  /\ Setup("keys", "failed")
  /\ UNCHANGED <<running, listening, stopping, server, connVars, todo, bound, deviceVars,
                 touchVars>>

-----------------------------------------------------------------------------
(* The input thread.                                                        *)

Server(from, to) == server = from /\ server' = to

AcceptAgain == "accept"

Accept ==
  /\ Server("accept", "recv") /\ running /\ listening
  /\ conns < MaxConns /\ conns' = conns + 1
  /\ stream' \in Streams /\ got' = 0 /\ buffer' = <<>> /\ queue' = <<>> /\ done' = <<>>
  /\ UNCHANGED <<serverVars, todo, bound, deviceVars, touchVars>>

\* The loop sees the flag, or accept() the closed or cleared socket.
AcceptEnds ==
  /\ Server("accept", "done") /\ (~running \/ ~listening)
  /\ UNCHANGED <<serverVars, connVars, todo, bound, deviceVars, touchVars>>

\* What is kept of the buffer after a read.
\* mutant: what was not consumed is dropped
KeptNothing(buf, parsed) == <<>>
Kept(buf, parsed) == SubSeq(buf, parsed.consumed + 1, Len(buf))

Receive ==
  /\ Server("recv", "events") /\ running
  /\ \E n \in 1..(Len(stream) - got) :
       LET buf == buffer \o SubSeq(stream, got + 1, got + n)
           parsed == parse_packets(buf)
       IN /\ got' = got + n
          /\ queue' = parsed.events
          /\ buffer' = Kept(buf, parsed)
  /\ UNCHANGED <<serverVars, stream, done, conns, todo, bound, deviceVars, touchVars>>

\* The sink closes, the connection breaks, or the flag is seen.
ConnectionEnds ==
  /\ Server("recv", AcceptAgain)
  /\ UNCHANGED <<serverVars, connVars, todo, bound, deviceVars, touchVars>>

NextRead ==
  /\ Server("events", "recv") /\ queue = <<>> /\ todo = <<>>
  /\ UNCHANGED <<serverVars, connVars, todo, bound, deviceVars, touchVars>>

Target(op) == IF op[1] \in {"key", "keysyn"} THEN "keys" ELSE "touch"

\* Never 0, and wrapping to 1.
\* mutant: the modulus keeps 0 and loses MaxId
NextIdZero == (tracking + 1) % MaxId
NextId == (tracking % MaxId) + 1

\* The writes of one event, given what press() and release() find.
Writes(ev) ==
  CASE ev.kind = DOWN -> (IF pressed THEN <<>> ELSE <<<<"id", NextId>>>>)
                         \o <<<<"pos", to_screen(ev.at)>>, <<"syn", 0>>>>
    [] ev.kind = MOVE -> <<<<"pos", to_screen(ev.at)>>, <<"syn", 0>>>>
    [] ev.kind = UP -> (IF pressed THEN <<<<"up", 0>>>> ELSE <<>>) \o <<<<"syn", 0>>>>
    [] OTHER -> <<<<"key", ev.at>>, <<"keysyn", 0>>>>

Dispatch ==
  /\ server = "events" /\ todo = <<>> /\ queue # <<>>
  /\ queue' = Tail(queue) /\ done' = Append(done, Head(queue))
  /\ LET ev == Head(queue)
         available == attr[IF ev.kind \in {KEYDOWN, KEYUP} THEN "keys" ELSE "touch"]
     IN /\ todo' = IF available THEN Writes(ev) ELSE <<>>
        /\ lastTouch' = IF available /\ ev.kind \in {DOWN, UP} THEN ev.kind ELSE lastTouch
  /\ UNCHANGED <<serverVars, server, stream, got, buffer, conns, bound, deviceVars, pressed,
                 tracking, contact, strayLate>>

\* What press() and release() note once the write has been asked for.
Note(op) ==
  /\ pressed' = CASE op[1] = "id" -> TRUE [] op[1] = "up" -> FALSE [] OTHER -> pressed
  /\ tracking' = IF op[1] = "id" THEN op[2] ELSE tracking

\* _emit: the descriptor is tested, read again for os.write, and written to.
EmitTests ==
  /\ server = "events" /\ todo # <<>> /\ bound = "no"
  /\ \/ attr[Target(Head(todo))] /\ bound' = "tested" /\ UNCHANGED <<todo, pressed, tracking>>
     \/ /\ ~attr[Target(Head(todo))] /\ todo' = Tail(todo) /\ UNCHANGED bound
        /\ Note(Head(todo))
  /\ UNCHANGED <<serverVars, server, connVars, deviceVars, contact, lastTouch, strayLate>>

EmitReads ==
  /\ bound = "tested" /\ attr[Target(Head(todo))] /\ bound' = "bound"
  /\ UNCHANGED <<serverVars, server, connVars, todo, deviceVars, touchVars>>

\* None where a descriptor is wanted: TypeError, which drops the connection.
EmitRaises ==
  /\ bound = "tested" /\ ~attr[Target(Head(todo))]
  /\ bound' = "no" /\ todo' = <<>> /\ Server("events", AcceptAgain)
  /\ UNCHANGED <<serverVars, connVars, deviceVars, touchVars>>

\* The kernel takes the write if the device is there; an error is swallowed; a
\* number that was closed and given out again takes it as its own.
EmitWrites ==
  /\ bound = "bound" /\ bound' = "no" /\ todo' = Tail(todo)
  /\ LET op == Head(todo)
         state == kernel[Target(op)]
     IN /\ contact' = IF state # "device" THEN contact
                      ELSE CASE op[1] = "id" -> op[2] [] op[1] = "up" -> 0 [] OTHER -> contact
        /\ strayLate' = IF state = "foreign" /\ stopping = "done" THEN strayLate + 1 ELSE strayLate
        /\ Note(op)
  /\ UNCHANGED <<serverVars, server, connVars, deviceVars, lastTouch>>

Emit == EmitTests \/ EmitReads \/ EmitRaises \/ EmitWrites

Thread == \/ Accept \/ AcceptEnds \/ Receive \/ ConnectionEnds \/ NextRead \/ Dispatch \/ Emit

-----------------------------------------------------------------------------
(* stop(), in the thread that ends the session.                             *)

StopBegins ==
  /\ setup = "up" /\ Stop("no", "flag")
  /\ running' = FALSE
  /\ UNCHANGED <<setup, listening, server, connVars, todo, bound, deviceVars, touchVars>>

StopListening ==
  /\ Stop("flag", "touch")
  /\ listening' = FALSE
  /\ UNCHANGED <<setup, running, server, connVars, todo, bound, deviceVars, touchVars>>

\* Both devices, in this order.
After(d) == IF d = "touch" THEN "keys" ELSE "done"

\* mutant: only the pointer is destroyed
DestroyPointer(d) ==
  /\ stopping = d /\ kernel[d] = "device" /\ attr[d]
  /\ kernel' = IF d = "touch" THEN [kernel EXCEPT ![d] = "gone"] ELSE kernel
  /\ stopping' = IF d = "touch" THEN stopping ELSE "done"
  /\ UNCHANGED <<setup, running, listening, server, connVars, todo, bound, attr, touchVars>>
Destroy(d) ==
  /\ stopping = d /\ kernel[d] = "device" /\ attr[d]
  /\ kernel' = [kernel EXCEPT ![d] = "gone"]
  /\ UNCHANGED <<serverVars, server, connVars, todo, bound, attr, touchVars>>

CloseDescriptor(d) ==
  /\ stopping = d /\ kernel[d] = "gone"
  /\ kernel' = [kernel EXCEPT ![d] = "closed"]
  /\ UNCHANGED <<serverVars, server, connVars, todo, bound, attr, touchVars>>

Clear(d) ==
  /\ kernel[d] \in {"closed", "foreign"} /\ Stop(d, After(d))
  /\ attr' = [attr EXCEPT ![d] = FALSE]
  /\ UNCHANGED <<setup, running, listening, server, connVars, todo, bound, kernel, touchVars>>

NothingToClose(d) ==
  /\ ~attr[d] /\ Stop(d, After(d))
  /\ UNCHANGED <<setup, running, listening, server, connVars, todo, bound, deviceVars, touchVars>>

Stopper == StopListening \/ \E d \in Devices : Destroy(d) \/ CloseDescriptor(d) \/ Clear(d)
                                               \/ NothingToClose(d)

\* Another thread of the program opens a file or socket and gets the number.
Reuse(d) ==
  /\ kernel[d] = "closed" /\ kernel' = [kernel EXCEPT ![d] = "foreign"]
  /\ UNCHANGED <<serverVars, server, connVars, todo, bound, attr, touchVars>>

Next == \/ \E d \in Devices : Open(d) \/ Reuse(d)
        \/ Listen \/ BindFails \/ Thread \/ StopBegins \/ Stopper

Spec == Init /\ [][Next]_vars
FairSpec == Spec /\ WF_vars(AcceptEnds) /\ WF_vars(ConnectionEnds) /\ WF_vars(NextRead)
                 /\ WF_vars(Dispatch)
                 /\ WF_vars(Emit)
                 /\ WF_vars(Stopper)

-----------------------------------------------------------------------------
TypeOK ==
  /\ setup \in {"idle", "touch", "keys", "up", "failed"}
  /\ {running, listening, pressed} \subseteq BOOLEAN
  /\ server \in {"none", "accept", "recv", "events", "done"}
  /\ stopping \in {"no", "flag", "done"} \cup Devices
  /\ bound \in {"no", "tested", "bound"}
  /\ attr \in [Devices -> BOOLEAN]
  /\ kernel \in [Devices -> {"none", "device", "gone", "closed", "foreign"}]
  /\ tracking \in 0..MaxId /\ contact \in 0..MaxId
  /\ \A k \in DOMAIN todo : todo[k][1] = "pos" => todo[k][2] \in 0..(MonitorWidth - 1)

\* However the bytes of a connection are cut into reads, the events dispatched
\* and waiting are those of all its bytes taken at once, and the buffer holds
\* what that parse leaves over.
ChunksDoNotMatter ==
  server \in {"recv", "events"} =>
    LET whole == parse_packets(SubSeq(stream, 1, got))
    IN done \o queue = whole.events /\ Len(buffer) = got - whole.consumed

\* Between two events of a device that is there, the kernel has a finger down
\* exactly when press() thinks so and when the last of the sink's DOWN and UP
\* was DOWN - also across connections: a finger that was down when the sink
\* went away stays down.
FingerAsTold ==
  (kernel["touch"] = "device" /\ todo = <<>>) =>
    /\ pressed = (contact # 0)
    /\ pressed = (lastTouch = DOWN)

\* A finger is lifted before another is put down, and the next has another id.
OneFinger ==
  [][contact' # contact => (contact = 0 \/ contact' = 0)]_vars

\* "never let a bad packet kill the session": the input thread ends only when
\* stop() was called.
InputSurvives == server = "done" => stopping # "no"

\* stop() "tears EVERYTHING DOWN": no device is left when it returns.
StopDestroys == stopping = "done" => \A d \in Devices : kernel[d] # "device"

\* Whoever gets a descriptor's number after stop() has returned loses at most
\* the one write that was already under way.
OneStrayAtMost == strayLate <= 1

\* stop() is the only thing that ends the input thread, which is not joined, and it
\* does end it; it leaves no device, and at most one write that goes astray.
StopIsFinal ==
  /\ [](InputSurvives /\ StopDestroys /\ OneStrayAtMost)
  /\ (stopping # "no") ~> (server = "done")
=============================================================================
