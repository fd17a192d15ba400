--------------------------- MODULE ProgressiveTS ---------------------------
(***************************************************************************)
(* The growing transport stream of server.py: ProgressiveTS, the requests  *)
(* that read it (_serve_progressive_ts) and StreamServer.stop.  Each       *)
(* request has a thread of its own; a writer thread per generation appends *)
(* the capture's segments to one file.  The lock protects the counters,    *)
(* not the file: reset() removes it and a writer empties it outside.       *)
(*                                                                         *)
(* A segment is a number and counts as one unit of size; an offset, the    *)
(* sizes and the file are in these units.                                  *)
(***************************************************************************)
EXTENDS Integers, Sequences, FiniteSets, FiniteSetsExt

CONSTANTS Requests,     \* HTTP requests for progressive.ts
          MainThread,         \* the thread that calls StreamServer.stop
          Writers,      \* threads of _run; bound: as many run at once
          Window,       \* segments in the playlist
          MaxSegments   \* bound: segments the capture produces

ASSUME ProgressiveAssumption ==
  /\ MainThread \notin Requests
  /\ Window \in Nat \ {0} /\ MaxSegments \in Nat

VARIABLES
  generation, started, size, readers,  \* _generation, _started, _size, _active_readers
  known,                               \* _segments
  file,                                \* what progressive.ts holds, <<>> if it is gone
  live,                                \* the newest segment of the playlist
  request_at,                          \* where a request or the main thread is
  offset,                              \* read_start + sent of a request
  seek,                                \* is_future_seek of a request
  writer, wgen, todo                   \* a writer, its generation, what it has to append

streamVars  == <<generation, started, size, readers, known>>
requestVars == <<request_at, offset, seek>>
writerVars  == <<writer, wgen, todo>>
serverVars == <<generation, started, size, readers, known, file, live,
                request_at, offset, seek, writer, wgen, todo>>

Threads == Requests \cup {MainThread}

\* A request: not received; before start(); in size(); before and after the lock
\* of restart_at_live_edge_if_idle; in reset() before the removal; before start()
\* again; before acquire_reader; in the wait for data; writing headers; waiting for more
\* or reading; writing what it read; over; its client had left when the headers were
\* written.
Places == {"idle", "received", "sizing", "checking", "resetting", "removing",
           "restarting", "acquiring", "waiting", "headers", "streaming", "writing", "done",
           "lost", "serving", "stopped"}

\* The requests that called acquire_reader and not yet release_reader.
Holding ==
  {r \in Requests : request_at[r] \in {"waiting", "headers", "streaming", "writing", "lost"}}

WriterStates == {"free", "starting", "polling", "listed", "appending"}

\* The playlist of the capture, of which older segments are deleted.
Playlist == {s \in 1..live : s > live - Window}

Current(w) == started /\ generation = wgen[w]

\* StreamServer.start has called reset() once.
ServerInit ==
  /\ generation = 1 /\ started = FALSE /\ size = 0 /\ readers = 0 /\ known = {}
  /\ file = <<>> /\ live = 0
  /\ request_at = [p \in Threads |-> IF p = MainThread THEN "serving" ELSE "idle"]
  /\ offset = [r \in Requests |-> 0] /\ seek = [r \in Requests |-> FALSE]
  /\ writer = [w \in Writers |-> "free"]
  /\ wgen = [w \in Writers |-> 0] /\ todo = [w \in Writers |-> {}]

RequestGoes(p, from, to) ==
  request_at[p] = from /\ request_at' = [request_at EXCEPT ![p] = to]

-----------------------------------------------------------------------------
(* Requests.                                                               *)

StartTwice == \* mutant: _started is not read
  \E w \in Writers :
    /\ writer[w] = "free"
    /\ started' = TRUE
    /\ writer' = [writer EXCEPT ![w] = "starting"]
    /\ wgen' = [wgen EXCEPT ![w] = generation]

\* start(): one writer for each generation.
Start ==
  IF started
  THEN UNCHANGED <<started, writer, wgen>>
  ELSE \E w \in Writers :
         /\ writer[w] = "free"
         /\ started' = TRUE
         /\ writer' = [writer EXCEPT ![w] = "starting"]
         /\ wgen' = [wgen EXCEPT ![w] = generation]

\* The server hands requests to threads until it is shut down.
Receive(r) ==
  /\ request_at[MainThread] = "serving"
  /\ RequestGoes(r, "idle", "received")
  /\ UNCHANGED <<streamVars, file, live, offset, seek, writerVars>>

Begin(r) ==
  /\ RequestGoes(r, "received", "sizing")
  /\ Start
  /\ UNCHANGED <<generation, size, readers, known, file, live, offset, seek, todo>>

\* HEAD, or a range that is not valid: answered without a body.
WithoutBody(r) ==
  /\ RequestGoes(r, "sizing", "done")
  /\ UNCHANGED <<streamVars, file, live, offset, seek, writerVars>>

\* From the start, from far beyond the end, or from somewhere between.
Locate(r) ==
  /\ \/ /\ RequestGoes(r, "sizing", "checking")
        /\ offset' = [offset EXCEPT ![r] = 0] /\ UNCHANGED seek
     \/ /\ RequestGoes(r, "sizing", "checking")
        /\ offset' = [offset EXCEPT ![r] = size]
        /\ seek' = [seek EXCEPT ![r] = TRUE]
     \/ /\ RequestGoes(r, "sizing", "acquiring")
        /\ \E o \in 1..(size + 1) : offset' = [offset EXCEPT ![r] = o]
        /\ UNCHANGED seek
  /\ UNCHANGED <<streamVars, file, live, writerVars>>

\* restart_at_live_edge_if_idle: the test under the lock, reset() after it.
CheckIdle(r) ==
  /\ RequestGoes(r, "checking", IF size > 0 /\ readers = 0 THEN "resetting" ELSE "acquiring")
  /\ UNCHANGED <<streamVars, file, live, offset, seek, writerVars>>

ResetStream(p) ==
  /\ RequestGoes(p, "resetting", "removing")
  /\ generation' = generation + 1
  /\ started' = FALSE /\ size' = 0 /\ readers' = 0 /\ known' = {}
  /\ UNCHANGED <<file, live, offset, seek, writerVars>>

Remove(p) ==
  /\ RequestGoes(p, "removing", IF p = MainThread THEN "stopped" ELSE "restarting")
  /\ file' = <<>>
  /\ UNCHANGED <<streamVars, live, offset, seek, writerVars>>

Restart(r) ==
  /\ RequestGoes(r, "restarting", "acquiring")
  /\ Start
  /\ offset' = [offset EXCEPT ![r] = 0]
  /\ UNCHANGED <<generation, size, readers, known, file, live, seek, todo>>

\* A request that seeks sends its headers without waiting for data.
AcquireReader(r) ==
  /\ RequestGoes(r, "acquiring", IF seek[r] THEN "headers" ELSE "waiting")
  /\ readers' = readers + 1
  /\ UNCHANGED <<generation, started, size, known, file, live, offset, seek, writerVars>>

HasData(r) ==
  /\ RequestGoes(r, "waiting", "headers")
  /\ size > offset[r]
  /\ UNCHANGED <<streamVars, file, live, offset, seek, writerVars>>

ReleaseReader == readers' = IF readers > 0 THEN readers - 1 ELSE 0

NoDataKeepsReader(r) == \* mutant: the 503 path forgets release_reader
  /\ RequestGoes(r, "waiting", "done")
  /\ size <= offset[r]
  /\ UNCHANGED <<streamVars, file, live, offset, seek, writerVars>>

\* Ten seconds without data: 503.
NoData(r) ==
  /\ RequestGoes(r, "waiting", "done")
  /\ size <= offset[r]
  /\ ReleaseReader
  /\ UNCHANGED <<generation, started, size, known, file, live, offset, seek, writerVars>>

\* The headers are written before the try whose finally clause releases.  They are
\* too short to wait for the client.
SendHeaders(r) ==
  /\ RequestGoes(r, "headers", "streaming") \/ RequestGoes(r, "headers", "lost")
  /\ UNCHANGED <<streamVars, file, live, offset, seek, writerVars>>

\* read_at: the size is read under the lock, the file without it.
ReadAt(r) ==
  /\ RequestGoes(r, "streaming", "writing")
  /\ size > offset[r] /\ Len(file) > offset[r]
  /\ UNCHANGED <<streamVars, file, live, offset, seek, writerVars>>

\* The write has no timeout: it returns when the client has read enough ...
ClientReads(r) ==
  /\ RequestGoes(r, "writing", "streaming")
  /\ offset' = [offset EXCEPT ![r] = @ + 1]
  /\ UNCHANGED <<streamVars, file, live, seek, writerVars>>

\* ... and the request is over when that completes its range or the client is gone.
ClientEnds(r) ==
  /\ RequestGoes(r, "writing", "done")
  /\ ReleaseReader
  /\ UNCHANGED <<generation, started, size, known, file, live, offset, seek, writerVars>>

EndStreamOnReset(r) == \* mutant: only a reset ends the wait for more data
  /\ RequestGoes(r, "streaming", "done")
  /\ size < offset[r]
  /\ ReleaseReader
  /\ UNCHANGED <<generation, started, size, known, file, live, offset, seek, writerVars>>

\* Fifteen seconds pass without more data.
EndStream(r) ==
  /\ RequestGoes(r, "streaming", "done")
  /\ size <= offset[r]
  /\ ReleaseReader
  /\ UNCHANGED <<generation, started, size, known, file, live, offset, seek, writerVars>>

-----------------------------------------------------------------------------
(* Writers: _run and _append_segment.                                      *)

Truncate(w) ==
  /\ writer[w] = "starting"
  /\ writer' = [writer EXCEPT ![w] = "polling"]
  /\ file' = <<>>
  /\ UNCHANGED <<streamVars, live, requestVars, wgen, todo>>

\* _is_current_generation, then the playlist is read.
Poll(w) ==
  /\ writer[w] = "polling"
  /\ ~Current(w) \/ Playlist # {}
  /\ writer' = [writer EXCEPT ![w] = IF Current(w) THEN "listed" ELSE "free"]
  /\ todo' = [todo EXCEPT ![w] = IF Current(w) THEN Playlist ELSE {}]
  /\ wgen' = [wgen EXCEPT ![w] = IF Current(w) THEN @ ELSE 0]
  /\ UNCHANGED <<streamVars, file, live, requestVars>>

\* The first segment of a stream is the newest; later all unknown ones follow.
Pick(w) ==
  /\ writer[w] = "listed"
  /\ LET due == IF size = 0 THEN {Max(todo[w])} ELSE todo[w] \ known IN
       /\ todo' = [todo EXCEPT ![w] = due]
       /\ writer' = [writer EXCEPT ![w] = IF due = {} THEN "polling" ELSE "appending"]
  /\ UNCHANGED <<streamVars, file, live, requestVars, wgen>>

NextSegment(w) == Min(todo[w])

SegmentHandled(w) ==
  LET rest == todo[w] \ {NextSegment(w)} IN
    /\ todo' = [todo EXCEPT ![w] = rest]
    /\ writer' = [writer EXCEPT ![w] = IF rest = {} THEN "polling" ELSE "appending"]

FileWith(w) == Append(file, [gen |-> wgen[w], seg |-> NextSegment(w)])

AppendAnyGeneration(w) == \* mutant: _generation is not compared
  /\ writer[w] = "appending"
  /\ SegmentHandled(w)
  /\ file' = FileWith(w) /\ size' = size + 1 /\ known' = known \cup {NextSegment(w)}
  /\ UNCHANGED <<generation, started, readers, live, requestVars, wgen>>

AppendForgets(w) == \* mutant: the segment is not added to _segments
  /\ writer[w] = "appending"
  /\ SegmentHandled(w)
  /\ IF Current(w)
     THEN file' = FileWith(w) /\ size' = size + 1 /\ UNCHANGED known
     ELSE UNCHANGED <<file, size, known>>
  /\ UNCHANGED <<generation, started, readers, live, requestVars, wgen>>

AppendSegment(w) ==
  /\ writer[w] = "appending"
  /\ SegmentHandled(w)
  /\ IF Current(w)
     THEN file' = FileWith(w) /\ size' = size + 1 /\ known' = known \cup {NextSegment(w)}
     ELSE UNCHANGED <<file, size, known>>
  /\ UNCHANGED <<generation, started, readers, live, requestVars, wgen>>

\* The capture has deleted the segment meanwhile.
SkipSegment(w) ==
  /\ writer[w] = "appending" /\ NextSegment(w) \notin Playlist
  /\ SegmentHandled(w)
  /\ UNCHANGED <<streamVars, file, live, requestVars, wgen>>

\* An OSError ends the thread: when the file is emptied, or when a segment is
\* written, part of it perhaps; started stays TRUE.
WriterDies(w) ==
  /\ \/ writer[w] = "starting" /\ UNCHANGED file
     \/ writer[w] = "appending" /\ Current(w) /\ file' \in {file, FileWith(w)}
  /\ writer' = [writer EXCEPT ![w] = "free"]
  /\ wgen' = [wgen EXCEPT ![w] = 0] /\ todo' = [todo EXCEPT ![w] = {}]
  /\ UNCHANGED <<streamVars, live, requestVars>>

-----------------------------------------------------------------------------
\* The capture writes its next segment.
Capture ==
  /\ live < MaxSegments
  /\ live' = live + 1
  /\ UNCHANGED <<streamVars, file, requestVars, writerVars>>

\* StreamServer.stop: shutdown, server_close, then reset(); the threads of
\* the requests that were received go on.
StopServing ==
  /\ RequestGoes(MainThread, "serving", "resetting")
  /\ UNCHANGED <<streamVars, file, live, offset, seek, writerVars>>

RequestStep(r) == \/ Begin(r)
                  \/ WithoutBody(r)
                  \/ Locate(r)
                  \/ CheckIdle(r)
                  \/ ResetStream(r)
                  \/ Remove(r)
                  \/ Restart(r)
                  \/ AcquireReader(r)
                  \/ HasData(r)
                  \/ NoData(r)
                  \/ SendHeaders(r)
                  \/ ReadAt(r)
                  \/ EndStream(r)

ClientStep(r) == ClientReads(r) \/ ClientEnds(r)

WriterStep(w) == \/ Truncate(w)
                 \/ Poll(w)
                 \/ Pick(w)
                 \/ AppendSegment(w)
                 \/ SkipSegment(w)
                 \/ WriterDies(w)

ServerNext ==
  \/ \E r \in Requests : Receive(r) \/ RequestStep(r) \/ ClientStep(r)
  \/ \E w \in Writers : WriterStep(w)
  \/ Capture
  \/ StopServing
  \/ ResetStream(MainThread)
  \/ Remove(MainThread)

ServerSpec == ServerInit /\ [][ServerNext]_serverVars

\* Threads run; the waits for data have deadlines.  A client need not read what is
\* written to it.
ServerFairSpec ==
  /\ ServerSpec
  /\ \A r \in Requests : WF_serverVars(RequestStep(r))
  /\ \A w \in Writers : WF_serverVars(WriterStep(w))

-----------------------------------------------------------------------------
(* Properties.                                                             *)

Segments == [gen : Nat, seg : 1..MaxSegments]

\* The counters are natural numbers also when a reader is released after the
\* reset() that forgot it.
ServerTypeOK ==
  /\ generation \in Nat /\ started \in BOOLEAN /\ size \in Nat /\ readers \in Nat
  /\ known \subseteq 1..MaxSegments
  /\ file \in Seq(Segments)
  /\ live \in 0..MaxSegments
  /\ request_at \in [Threads -> Places]
  /\ offset \in [Requests -> Nat] /\ seek \in [Requests -> BOOLEAN]
  /\ writer \in [Writers -> WriterStates]
  /\ wgen \in [Writers -> Nat]
  /\ todo \in [Writers -> SUBSET (1..MaxSegments)]

\* While size lets a request read at all, the file holds nothing of an earlier
\* generation, although writers of several generations run at once and none of
\* them holds the lock when it empties the file.
ServedIsCurrent == size > 0 => \A i \in 1..Len(file) : file[i].gen = generation

\* No segment is in the file twice: it is appended by the one writer of its
\* generation, which looks at the known segments outside the append.
EachSegmentOnce == \A i, j \in 1..Len(file) : file[i] = file[j] => i = j

\* Segments are in the capture's order, except for the first: it is the newest
\* of the playlist when the stream began, and the older ones of that playlist
\* are appended after it.
OrderedAfterFirst ==
  \A i, j \in 2..Len(file) : i < j => file[i].seg < file[j].seg

\* Only a client that leaves before its headers are written keeps the stream
\* from being idle after it has gone: the count of readers has no other excess.
ReadersExplained == readers <= Cardinality(Holding)

-----------------------------------------------------------------------------
(* The inductive invariant.                                                *)

At(w, places) == writer[w] \in places

\* No writer is ahead of the stream, and each generation that has started has
\* at most one; nothing is in a stream that has not started.
WritersInv ==
  /\ ~started => size = 0
  /\ size = 0 => known = {}
  /\ \A w \in Writers : ~At(w, {"free"}) =>
       wgen[w] <= generation /\ (wgen[w] = generation => started)
  /\ \A v, w \in Writers :
       ~At(v, {"free"}) /\ ~At(w, {"free"}) /\ wgen[v] = generation /\ wgen[w] = generation
         => v = w
  /\ \A w \in Writers : At(w, {"listed", "appending"}) => todo[w] # {}

\* Once the writer of the current generation has emptied the file, the file is
\* its own; what it is about to append is not there.
FileInv ==
  /\ \A w \in Writers : Current(w) =>
       /\ At(w, {"starting"}) => size = 0
       /\ At(w, {"polling", "listed", "appending"}) =>
            \A i \in 1..Len(file) : file[i].gen = generation /\ file[i].seg \in known
       /\ At(w, {"appending"}) => todo[w] \cap known = {}
  /\ ServedIsCurrent
  /\ EachSegmentOnce

\* A segment a writer may still append.
Ahead(w) == (Playlist \cup todo[w]) \ known

\* The writer of the current generation appends in order: what is listed or has
\* yet to be listed lies beyond what it has appended, the first segment apart,
\* and a segment that comes later to the playlist beyond those it has taken.
AppendsInOrder(w) ==
  /\ At(w, {"polling", "listed", "appending"}) =>
       IF size = 0 THEN file = <<>>
       ELSE \A i \in 2..Len(file) : \A s \in Ahead(w) : file[i].seg < s
  /\ \A s \in todo[w] : s <= live
  /\ At(w, {"listed"}) \/ (At(w, {"appending"}) /\ size > 0) =>
       \A s \in todo[w] : \A t \in Ahead(w) \ todo[w] : s < t
  /\ At(w, {"appending"}) /\ size = 0 => \A s, t \in todo[w] : s = t

OrderInv ==
  /\ OrderedAfterFirst
  /\ \A i \in 1..Len(file) : file[i].seg <= live
  /\ \A w \in Writers : ~At(w, {"listed", "appending"}) => todo[w] = {}
  /\ \A w \in Writers : Current(w) => AppendsInOrder(w)

ReadersInv == IsFiniteSet(Holding) /\ ReadersExplained

IInv == ServerTypeOK /\ WritersInv /\ FileInv /\ OrderInv /\ ReadersInv

-----------------------------------------------------------------------------
\* A request that reads beyond what an emptied file still holds.
Starved(r) == request_at[r] = "streaming" /\ size > offset[r] /\ Len(file) <= offset[r]

\* A request whose client keeps the connection and does not read.
Unread(r) == request_at[r] = "writing"

\* Every request that was received ends when the capture has; only one whose file was
\* emptied under it, or whose client reads no more, stays for ever.
RequestsEnd ==
  \A r \in Requests :
    []<>(request_at[r] \in {"idle", "done", "lost"} \/ Starved(r) \/ Unread(r))
=============================================================================
