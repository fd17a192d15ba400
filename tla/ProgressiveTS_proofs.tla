----------------------- MODULE ProgressiveTS_proofs -----------------------
(* Theorems about ProgressiveTS, for any requests, any writers, any window *)
(* of the playlist and any number of segments.                             *)
EXTENDS ProgressiveTS, FiniteSetTheorems, WellFoundedInduction, TLAPS

-----------------------------------------------------------------------------
(* The segments a writer takes.                                            *)

\* A set of natural numbers has a least element.
LEMMA LeastExists ==
  ASSUME NEW T, T \subseteq Nat, T # {}
  PROVE  \E x \in T : \A y \in T : x <= y
<1> DEFINE R == {ss \in Nat \X Nat : ss[1] < ss[2]}
<1>1. IsWellFoundedOn(R, Nat)
  BY NatLessThanWellFounded, Zenon DEF OpToRel
<1> HIDE DEF R
<1>2. PICK x \in T : \A y \in T : <<y, x>> \notin R
  BY <1>1, WFMin, Zenon
<1>3. ASSUME NEW y \in T PROVE x <= y
  <2>1. y \in Nat /\ x \in Nat /\ <<y, x>> \notin R
    BY <1>2
  <2> QED
    BY <2>1 DEF R
<1> QED
  BY <1>3

\* The next segment of a writer is one it has to append.
LEMMA NextIsDue ==
  ASSUME NEW T, T \subseteq 1..MaxSegments, T # {}
  PROVE  Min(T) \in T
<1>1. T \subseteq Nat
  BY ProgressiveAssumption DEF ProgressiveAssumption
<1>2. \E x \in T : \A y \in T : x <= y
  BY <1>1, LeastExists
<1> QED
  BY <1>2 DEF Min

\* The newest segment of a playlist is in it.
LEMMA NewestIsListed ==
  ASSUME NEW T, T \subseteq 1..MaxSegments, T # {}
  PROVE  Max(T) \in T
<1> USE ProgressiveAssumption DEF ProgressiveAssumption
<1> DEFINE D == {MaxSegments - x : x \in T}
<1>1. D \subseteq Nat /\ D # {}
  <2>1. ASSUME NEW x \in T PROVE MaxSegments - x \in Nat
    <3>1. x \in 1..MaxSegments
      OBVIOUS
    <3> QED
      BY <3>1
  <2> QED
    BY <2>1
<1>2. PICK d \in D : \A e \in D : d <= e
  BY <1>1, LeastExists
<1>3. PICK x \in T : d = MaxSegments - x
  OBVIOUS
<1>4. \A y \in T : MaxSegments - y \in D
  OBVIOUS
<1>5. ASSUME NEW y \in T PROVE x >= y
  <2>1. MaxSegments - x <= MaxSegments - y
    BY <1>2, <1>3, <1>4
  <2> QED
    BY <2>1
<1> QED
  BY <1>5 DEF Max

-----------------------------------------------------------------------------
(* Types.                                                                  *)

\* The entry a writer would append is a segment of its generation.
LEMMA EntryType ==
  ASSUME ServerTypeOK, NEW w \in Writers, todo[w] # {}
  PROVE  /\ NextSegment(w) \in todo[w] /\ NextSegment(w) \in 1..MaxSegments
         /\ FileWith(w) \in Seq(Segments)
         /\ FileWith(w) = Append(file, [gen |-> wgen[w], seg |-> NextSegment(w)])
<1>1. todo[w] \subseteq 1..MaxSegments /\ wgen[w] \in Nat /\ file \in Seq(Segments)
  BY DEF ServerTypeOK
<1>2. NextSegment(w) \in todo[w]
  BY <1>1, NextIsDue DEF NextSegment
<1>3. [gen |-> wgen[w], seg |-> NextSegment(w)] \in Segments
  BY <1>1, <1>2 DEF Segments
<1> QED
  BY <1>1, <1>2, <1>3 DEF FileWith

LEMMA StartType ==
  ASSUME ServerTypeOK, Start
  PROVE  /\ started' \in BOOLEAN
         /\ writer' \in [Writers -> WriterStates] /\ wgen' \in [Writers -> Nat]
<1>1. CASE started
  BY <1>1 DEF Start, ServerTypeOK
<1>2. CASE ~started
  <2>1. PICK w \in Writers :
          /\ started' = TRUE
          /\ writer' = [writer EXCEPT ![w] = "starting"]
          /\ wgen' = [wgen EXCEPT ![w] = generation]
    BY <1>2 DEF Start
  <2>2. /\ writer \in [Writers -> WriterStates] /\ wgen \in [Writers -> Nat]
        /\ generation \in Nat
    BY DEF ServerTypeOK
  <2> QED
    BY <2>1, <2>2 DEF WriterStates
<1> QED
  BY <1>1, <1>2

\* A writer that has handled a segment has one less to append.
LEMMA HandledType ==
  ASSUME ServerTypeOK, NEW w \in Writers, SegmentHandled(w)
  PROVE  /\ writer' \in [Writers -> WriterStates]
         /\ todo' \in [Writers -> SUBSET (1..MaxSegments)]
<1>1. /\ writer \in [Writers -> WriterStates]
      /\ todo \in [Writers -> SUBSET (1..MaxSegments)]
  BY DEF ServerTypeOK
<1>2. todo[w] \ {NextSegment(w)} \in SUBSET (1..MaxSegments)
  BY <1>1
<1>3. todo' = [todo EXCEPT ![w] = todo[w] \ {NextSegment(w)}]
  BY DEF SegmentHandled
<1>4. writer' = [writer EXCEPT ![w] = IF todo[w] \ {NextSegment(w)} = {}
                                      THEN "polling" ELSE "appending"]
  BY DEF SegmentHandled
<1>5. todo' \in [Writers -> SUBSET (1..MaxSegments)]
  BY <1>1, <1>2, <1>3
<1>6. writer' \in [Writers -> WriterStates]
  BY <1>1, <1>4 DEF WriterStates
<1> QED
  BY <1>5, <1>6

LEMMA ResetType ==
  ASSUME ServerTypeOK, NEW p \in Threads, ResetStream(p) \/ Remove(p)
  PROVE  ServerTypeOK'
<1>1. request_at' \in [Threads -> Places]
  BY DEF ResetStream, Remove, RequestGoes, Places, ServerTypeOK
<1>2. CASE ResetStream(p)
  <2>1. generation' \in Nat /\ size' \in Nat /\ readers' \in Nat
    BY <1>2 DEF ResetStream, ServerTypeOK
  <2>2. started' \in BOOLEAN
    BY <1>2 DEF ResetStream
  <2>3. known' \subseteq 1..MaxSegments
    BY <1>2 DEF ResetStream
  <2>4. UNCHANGED <<file, live, offset, seek, writer, wgen, todo>>
    BY <1>2 DEF ResetStream, writerVars
  <2> QED
    BY <1>1, <2>1, <2>2, <2>3, <2>4 DEF ServerTypeOK
<1>3. CASE Remove(p)
  <2>1. file' \in Seq(Segments)
    BY <1>3 DEF Remove
  <2>2. UNCHANGED <<generation, started, size, readers, known, live, offset, seek, writer,
                    wgen, todo>>
    BY <1>3 DEF Remove, streamVars, writerVars
  <2> QED
    BY <1>1, <2>1, <2>2 DEF ServerTypeOK
<1> QED
  BY <1>2, <1>3

\* What a request changes is well-typed.
LEMMA RequestType ==
  ASSUME ServerTypeOK, NEW r \in Requests, Receive(r) \/ RequestStep(r) \/ ClientStep(r)
  PROVE  ServerTypeOK'
<1> USE DEF ServerTypeOK, streamVars, requestVars, writerVars
<1>1. r \in Threads /\ request_at \in [Threads -> Places]
  BY DEF Threads
<1>2. ASSUME NEW q \in Places, request_at' = [request_at EXCEPT ![r] = q]
      PROVE  request_at' \in [Threads -> Places]
  BY <1>1, <1>2
<1>3. CASE Receive(r)
  BY <1>2, <1>3 DEF Receive, RequestGoes, Places
<1>4. CASE Begin(r)
  <2>1. request_at' \in [Threads -> Places]
    BY <1>2, <1>4 DEF Begin, RequestGoes, Places
  <2> QED
    BY <1>4, <2>1, StartType DEF Begin
<1>5. CASE WithoutBody(r)
  BY <1>2, <1>5 DEF WithoutBody, RequestGoes, Places
<1>6. CASE Locate(r)
  <2>1. request_at' \in [Threads -> Places]
    BY <1>2, <1>6 DEF Locate, RequestGoes, Places
  <2>2. offset' \in [Requests -> Nat] /\ seek' \in [Requests -> BOOLEAN]
    <3>1. /\ \E o \in Nat : offset' = [offset EXCEPT ![r] = o]
          /\ seek' = seek \/ seek' = [seek EXCEPT ![r] = TRUE]
      BY <1>6 DEF Locate
    <3> QED
      BY <3>1
  <2> QED
    BY <1>6, <2>1, <2>2 DEF Locate
<1>7. CASE CheckIdle(r)
  BY <1>2, <1>7 DEF CheckIdle, RequestGoes, Places
<1>8. CASE ResetStream(r) \/ Remove(r)
  BY <1>1, <1>8, ResetType
<1>10. CASE Restart(r)
  <2>1. request_at' \in [Threads -> Places]
    BY <1>2, <1>10 DEF Restart, RequestGoes, Places
  <2>2. offset' \in [Requests -> Nat]
    BY <1>10 DEF Restart
  <2> QED
    BY <1>10, <2>1, <2>2, StartType DEF Restart
<1>11. CASE AcquireReader(r)
  <2>1. request_at' \in [Threads -> Places]
    BY <1>2, <1>11 DEF AcquireReader, RequestGoes, Places
  <2> QED
    BY <1>11, <2>1 DEF AcquireReader
<1>12. CASE HasData(r)
  BY <1>2, <1>12 DEF HasData, RequestGoes, Places
<1>13. CASE NoData(r)
  <2>1. request_at' \in [Threads -> Places]
    BY <1>2, <1>13 DEF NoData, RequestGoes, Places
  <2> QED
    BY <1>13, <2>1 DEF NoData, ReleaseReader
<1>14. CASE SendHeaders(r)
  BY <1>2, <1>14 DEF SendHeaders, RequestGoes, Places
<1>15. CASE ReadAt(r)
  BY <1>2, <1>15 DEF ReadAt, RequestGoes, Places
<1>16. CASE ClientReads(r)
  <2>1. request_at' \in [Threads -> Places]
    BY <1>2, <1>16 DEF ClientReads, RequestGoes, Places
  <2>2. offset' \in [Requests -> Nat]
    BY <1>16 DEF ClientReads
  <2> QED
    BY <1>16, <2>1, <2>2 DEF ClientReads
<1>17. CASE ClientEnds(r)
  <2>1. request_at' \in [Threads -> Places]
    BY <1>2, <1>17 DEF ClientEnds, RequestGoes, Places
  <2> QED
    BY <1>17, <2>1 DEF ClientEnds, ReleaseReader
<1>18. CASE EndStream(r)
  <2>1. request_at' \in [Threads -> Places]
    BY <1>2, <1>18 DEF EndStream, RequestGoes, Places
  <2> QED
    BY <1>18, <2>1 DEF EndStream, ReleaseReader
<1> QED
  BY <1>3, <1>4, <1>5, <1>6, <1>7, <1>8, <1>10, <1>11, <1>12, <1>13, <1>14,
     <1>15, <1>16, <1>17, <1>18 DEF RequestStep, ClientStep

\* What a writer changes is well-typed.
LEMMA WriterType ==
  ASSUME ServerTypeOK, WritersInv, NEW w \in Writers, WriterStep(w)
  PROVE  ServerTypeOK'
<1>0. /\ writer \in [Writers -> WriterStates] /\ wgen \in [Writers -> Nat]
      /\ todo \in [Writers -> SUBSET (1..MaxSegments)]
      /\ file \in Seq(Segments) /\ generation \in Nat /\ size \in Nat
      /\ known \subseteq 1..MaxSegments
  BY DEF ServerTypeOK
<1>u. UNCHANGED <<generation, started, readers, live, request_at, offset, seek>>
  BY DEF WriterStep, Truncate, Poll, Pick, AppendSegment, SkipSegment, WriterDies,
         streamVars, requestVars
<1>t. ASSUME /\ writer' \in [Writers -> WriterStates] /\ wgen' \in [Writers -> Nat]
             /\ todo' \in [Writers -> SUBSET (1..MaxSegments)]
             /\ file' \in Seq(Segments) /\ size' \in Nat
             /\ known' \subseteq 1..MaxSegments
      PROVE  ServerTypeOK'
  BY <1>u, <1>t DEF ServerTypeOK
<1>1. CASE Truncate(w)
  <2>1. writer' \in [Writers -> WriterStates] /\ file' \in Seq(Segments)
    BY <1>0, <1>1 DEF Truncate, WriterStates
  <2> QED
    BY <1>0, <1>1, <1>t, <2>1 DEF Truncate, streamVars
<1>2. CASE Poll(w)
  <2>1. Playlist \in SUBSET (1..MaxSegments)
    <3>1. live \in 0..MaxSegments
      BY DEF ServerTypeOK
    <3> QED
      BY <3>1, ProgressiveAssumption DEF ProgressiveAssumption, Playlist
  <2>2. /\ writer' \in [Writers -> WriterStates]
        /\ todo' \in [Writers -> SUBSET (1..MaxSegments)]
    BY <1>0, <1>2, <2>1 DEF Poll, WriterStates
  <2>3. wgen' \in [Writers -> Nat]
    BY <1>0, <1>2 DEF Poll
  <2> QED
    BY <1>0, <1>2, <1>t, <2>2, <2>3 DEF Poll, streamVars
<1>3. CASE Pick(w)
  <2> DEFINE due == IF size = 0 THEN {Max(todo[w])} ELSE todo[w] \ known
  <2>1. due \in SUBSET (1..MaxSegments)
    <3>1. todo[w] # {}
      BY <1>3 DEF WritersInv, At, Pick
    <3>2. Max(todo[w]) \in todo[w]
      BY <1>0, <3>1, NewestIsListed
    <3> QED
      BY <1>0, <3>2
  <2>2. /\ todo' = [todo EXCEPT ![w] = due]
        /\ writer' = [writer EXCEPT ![w] = IF due = {} THEN "polling" ELSE "appending"]
    BY <1>3 DEF Pick
  <2> HIDE DEF due
  <2>3. /\ todo' \in [Writers -> SUBSET (1..MaxSegments)]
        /\ writer' \in [Writers -> WriterStates]
    BY <1>0, <2>1, <2>2 DEF WriterStates
  <2> QED
    BY <1>0, <1>3, <1>t, <2>3 DEF Pick, streamVars
<1>4. CASE AppendSegment(w)
  <2>1. todo[w] # {}
    BY <1>4 DEF WritersInv, At, AppendSegment
  <2>2. FileWith(w) \in Seq(Segments) /\ NextSegment(w) \in 1..MaxSegments
    BY <2>1, EntryType
  <2>3. file' \in Seq(Segments) /\ size' \in Nat /\ known' \subseteq 1..MaxSegments
    <3>1. CASE Current(w)
      <4>1. /\ file' = FileWith(w) /\ size' = size + 1
            /\ known' = known \cup {NextSegment(w)}
        BY <1>4, <3>1 DEF AppendSegment
      <4>2. known' \subseteq 1..MaxSegments
        BY <1>0, <2>2, <4>1
      <4> QED
        BY <1>0, <2>2, <4>1, <4>2
    <3>2. CASE ~Current(w)
      BY <1>0, <1>4, <3>2 DEF AppendSegment
    <3> QED
      BY <3>1, <3>2
  <2>4. SegmentHandled(w) /\ wgen' = wgen
    BY <1>4 DEF AppendSegment
  <2> QED
    BY <1>0, <1>t, <2>3, <2>4, HandledType
<1>5. CASE SkipSegment(w)
  BY <1>0, <1>5, <1>t, HandledType DEF SkipSegment, streamVars
<1>6. CASE WriterDies(w)
  <2>1. /\ writer' \in [Writers -> WriterStates] /\ wgen' \in [Writers -> Nat]
        /\ todo' \in [Writers -> SUBSET (1..MaxSegments)]
    BY <1>0, <1>6 DEF WriterDies, WriterStates
  <2>2. file' \in Seq(Segments)
    <3>1. CASE writer[w] = "starting" /\ UNCHANGED file
      BY <1>0, <3>1
    <3>2. CASE writer[w] = "appending" /\ file' \in {file, FileWith(w)}
      BY <1>0, <3>2, EntryType DEF WritersInv, At
    <3> QED
      BY <1>6, <3>1, <3>2 DEF WriterDies
  <2> QED
    BY <1>0, <1>6, <1>t, <2>1, <2>2 DEF WriterDies, streamVars
<1> QED
  BY <1>1, <1>2, <1>3, <1>4, <1>5, <1>6 DEF WriterStep

LEMMA TypeStep ==
  ASSUME ServerTypeOK, WritersInv, [ServerNext]_serverVars
  PROVE  ServerTypeOK'
<1>1. CASE \E r \in Requests : Receive(r) \/ RequestStep(r) \/ ClientStep(r)
  BY <1>1, RequestType
<1>2. CASE \E w \in Writers : WriterStep(w)
  BY <1>2, WriterType
<1>3. CASE Capture
  <2>1. live' \in 0..MaxSegments
    BY <1>3, ProgressiveAssumption DEF Capture, ServerTypeOK, ProgressiveAssumption
  <2>2. UNCHANGED <<generation, started, size, readers, known, file, request_at, offset, seek,
                    writer, wgen, todo>>
    BY <1>3 DEF Capture, streamVars, requestVars, writerVars
  <2> QED
    BY <2>1, <2>2 DEF ServerTypeOK
<1>4. CASE StopServing
  <2>1. request_at' \in [Threads -> Places]
    BY <1>4 DEF StopServing, RequestGoes, Places, Threads, ServerTypeOK
  <2> QED
    BY <1>4, <2>1 DEF StopServing, streamVars, writerVars, ServerTypeOK
<1>5. CASE ResetStream(MainThread) \/ Remove(MainThread)
  BY <1>5, ResetType DEF Threads
<1>6. CASE UNCHANGED serverVars
  BY <1>6 DEF serverVars, ServerTypeOK
<1> QED
  BY <1>1, <1>2, <1>3, <1>4, <1>5, <1>6 DEF ServerNext
-----------------------------------------------------------------------------
(* Preservation: the steps that leave writers and file alone.              *)

LEMMA QuietStep ==
  ASSUME WritersInv, FileInv,
         UNCHANGED <<generation, started, size, known, file, writer, wgen, todo>>
  PROVE  WritersInv' /\ FileInv'
BY DEF WritersInv, FileInv, At, Current, ServedIsCurrent, EachSegmentOnce

\* The writer that start() creates is the first of its generation.
LEMMA StartStep ==
  ASSUME ServerTypeOK, WritersInv, FileInv, Start,
         UNCHANGED <<generation, size, known, file, todo>>
  PROVE  WritersInv' /\ FileInv'
<1>1. CASE started
  BY <1>1, QuietStep DEF Start
<1>2. CASE ~started
  <2>1. PICK w \in Writers :
          /\ writer[w] = "free"
          /\ started' = TRUE
          /\ writer' = [writer EXCEPT ![w] = "starting"]
          /\ wgen' = [wgen EXCEPT ![w] = generation]
    BY <1>2 DEF Start
  <2>2. /\ writer \in [Writers -> WriterStates] /\ wgen \in [Writers -> Nat]
        /\ generation \in Nat
    BY DEF ServerTypeOK
  <2>3. /\ writer'[w] = "starting" /\ wgen'[w] = generation
        /\ \A v \in Writers \ {w} : writer'[v] = writer[v] /\ wgen'[v] = wgen[v]
    BY <2>1, <2>2
  <2>4. size = 0 /\ known = {}
    BY <1>2 DEF WritersInv
  <2>5. \A v \in Writers \ {w} : writer'[v] # "free" =>
          wgen'[v] <= generation /\ wgen'[v] # generation
    BY <1>2, <2>3 DEF WritersInv, At
  <2>6. WritersInv'
    <3>1. \A v \in Writers : ~At(v, {"free"})' =>
            wgen'[v] <= generation' /\ (wgen'[v] = generation' => started')
      BY <2>1, <2>2, <2>3, <2>5 DEF At
    <3>2. \A u, v \in Writers :
            ~At(u, {"free"})' /\ ~At(v, {"free"})' /\ wgen'[u] = generation'
              /\ wgen'[v] = generation' => u = v
      BY <2>3, <2>5 DEF At
    <3>3. \A v \in Writers : At(v, {"listed", "appending"})' => todo'[v] # {}
      BY <2>3 DEF WritersInv, At
    <3> QED
      BY <2>1, <2>4, <3>1, <3>2, <3>3 DEF WritersInv, At
  <2>7. FileInv'
    <3>1. ASSUME NEW v \in Writers, writer'[v] # "free", wgen'[v] = generation
          PROVE  v = w
      BY <2>3, <2>5, <3>1
    <3>2. ASSUME NEW v \in Writers, Current(v)', writer'[v] # "free"
          PROVE  writer'[v] = "starting"
      BY <2>3, <3>1, <3>2 DEF Current
    <3> QED
      BY <2>4, <3>2 DEF FileInv, At, ServedIsCurrent, EachSegmentOnce
  <2> QED
    BY <2>6, <2>7
<1> QED
  BY <1>1, <1>2

\* reset() leaves every writer behind.
LEMMA ResetStep ==
  ASSUME ServerTypeOK, WritersInv, FileInv, NEW p \in Threads, ResetStream(p)
  PROVE  WritersInv' /\ FileInv'
<1>1. /\ generation' = generation + 1 /\ started' = FALSE /\ size' = 0 /\ known' = {}
      /\ UNCHANGED <<file, writer, wgen, todo>>
  BY DEF ResetStream, writerVars
<1>2. generation \in Nat /\ wgen \in [Writers -> Nat]
  BY DEF ServerTypeOK
<1>3. \A w \in Writers : writer'[w] # "free" => wgen'[w] < generation'
  BY <1>1, <1>2 DEF WritersInv, At
<1>4. \A w \in Writers : writer'[w] # "free" =>
        wgen'[w] <= generation' /\ wgen'[w] # generation'
  BY <1>1, <1>2, <1>3
<1>5. WritersInv'
  BY <1>1, <1>4 DEF WritersInv, At
<1>6. FileInv'
  BY <1>1 DEF FileInv, Current, ServedIsCurrent, EachSegmentOnce
<1> QED
  BY <1>5, <1>6

\* An empty file has nothing of another generation and nothing twice.
LEMMA RemoveStep ==
  ASSUME WritersInv, FileInv, NEW p \in Threads, Remove(p)
  PROVE  WritersInv' /\ FileInv'
<1>1. UNCHANGED <<generation, started, size, known, writer, wgen, todo>> /\ file' = <<>>
  BY DEF Remove, streamVars, writerVars
<1>2. 1..Len(file') = {}
  BY <1>1
<1>3. WritersInv'
  BY <1>1 DEF WritersInv, At
<1>4. FileInv'
  BY <1>1, <1>2 DEF FileInv, At, Current, ServedIsCurrent, EachSegmentOnce
<1> QED
  BY <1>3, <1>4

LEMMA RequestKeepsFile ==
  ASSUME ServerTypeOK, WritersInv, FileInv, NEW r \in Requests, Receive(r) \/ RequestStep(r) \/ ClientStep(r)
  PROVE  WritersInv' /\ FileInv'
<1>1. CASE Begin(r) \/ Restart(r)
  BY <1>1, StartStep DEF Begin, Restart
<1>2. CASE ResetStream(r) \/ Remove(r)
  BY <1>2, ResetStep, RemoveStep DEF Threads
<1>3. CASE \/ Receive(r) \/ WithoutBody(r) \/ Locate(r) \/ CheckIdle(r)
           \/ AcquireReader(r) \/ HasData(r) \/ NoData(r) \/ SendHeaders(r)
           \/ ReadAt(r) \/ EndStream(r) \/ ClientReads(r) \/ ClientEnds(r)
  <2>1. UNCHANGED <<generation, started, size, known, file, writer, wgen, todo>>
    BY <1>3 DEF Receive, WithoutBody, Locate, CheckIdle, AcquireReader, HasData, NoData,
                SendHeaders, ReadAt, EndStream, ClientReads, ClientEnds, streamVars,
                writerVars
  <2> QED
    BY <2>1, QuietStep
<1> QED
  BY <1>1, <1>2, <1>3 DEF RequestStep, ClientStep

-----------------------------------------------------------------------------
(* Preservation: the steps of writers.                                     *)

\* The file after an append by the writer of the current generation.
LEMMA AppendedFile ==
  ASSUME ServerTypeOK, WritersInv, FileInv, NEW w \in Writers,
         writer[w] = "appending", Current(w)
  PROVE  /\ \A i \in 1..Len(FileWith(w)) :
              /\ FileWith(w)[i].gen = generation
              /\ FileWith(w)[i].seg \in known \cup {NextSegment(w)}
         /\ \A i, j \in 1..Len(FileWith(w)) : FileWith(w)[i] = FileWith(w)[j] => i = j
<1> DEFINE n == NextSegment(w)
           e == [gen |-> wgen[w], seg |-> n]
           f == FileWith(w)
<1>1. todo[w] # {} /\ todo[w] \cap known = {}
  BY DEF WritersInv, FileInv, At
<1>2. n \in todo[w] /\ f = Append(file, e)
  BY <1>1, EntryType
<1>3. file \in Seq(Segments)
  BY DEF ServerTypeOK
<1>4. e.gen = generation /\ e.seg = n /\ n \notin known
  BY <1>1, <1>2 DEF Current
<1>5. \A i \in 1..Len(file) : file[i].gen = generation /\ file[i].seg \in known
  BY DEF FileInv, At
<1>6. \A i, j \in 1..Len(file) : file[i] = file[j] => i = j
  BY DEF FileInv, EachSegmentOnce
<1> HIDE DEF n, e, f
<1>7. /\ Len(f) = Len(file) + 1 /\ Len(file) \in Nat
      /\ \A i \in 1..Len(file) : f[i] = file[i]
      /\ f[Len(file) + 1] = e
  BY <1>2, <1>3
<1>8. ASSUME NEW i \in 1..Len(f)
      PROVE  i \in 1..Len(file) \/ i = Len(file) + 1
  BY <1>7
<1>9. ASSUME NEW i \in 1..Len(f)
      PROVE  f[i].gen = generation /\ f[i].seg \in known \cup {n}
  BY <1>4, <1>5, <1>7, <1>8
<1>10. ASSUME NEW i \in 1..Len(file) PROVE file[i] # e
  BY <1>4, <1>5
<1>11. ASSUME NEW i \in 1..Len(f), NEW j \in 1..Len(f), f[i] = f[j] PROVE i = j
  BY <1>6, <1>7, <1>8, <1>10, <1>11
<1> QED
  BY <1>9, <1>11 DEF n, f

\* Of the writers that run, only one is of the current generation.
LEMMA OneWriter ==
  ASSUME WritersInv, NEW w \in Writers, writer[w] # "free", Current(w),
         NEW v \in Writers, writer[v] # "free", Current(v)
  PROVE  v = w
BY DEF WritersInv, At, Current

LEMMA TruncateStep ==
  ASSUME ServerTypeOK, WritersInv, FileInv, NEW w \in Writers, Truncate(w)
  PROVE  WritersInv' /\ FileInv'
<1>1. /\ writer[w] = "starting" /\ file' = <<>>
      /\ UNCHANGED <<generation, started, size, known, wgen, todo>>
  BY DEF Truncate, streamVars
<1>2. /\ writer'[w] = "polling"
      /\ \A v \in Writers \ {w} : writer'[v] = writer[v]
  BY DEF Truncate, ServerTypeOK
<1>3. 1..Len(file') = {}
  BY <1>1
<1>4. \A v \in Writers : writer'[v] # "free" => writer[v] # "free"
  BY <1>1, <1>2
<1>5. \A v \in Writers :
        writer'[v] \in {"starting", "listed", "appending"} => writer'[v] = writer[v]
  BY <1>2
<1>6. WritersInv'
  BY <1>1, <1>4, <1>5 DEF WritersInv, At
<1>7. FileInv'
  <2>1. ASSUME NEW v \in Writers, Current(v)'
        PROVE  /\ At(v, {"starting"})' => size' = 0
               /\ At(v, {"appending"})' => todo'[v] \cap known' = {}
    BY <1>1, <1>5, <2>1 DEF FileInv, At, Current
  <2> QED
    BY <1>3, <2>1 DEF FileInv, At, ServedIsCurrent, EachSegmentOnce
<1> QED
  BY <1>6, <1>7

\* A writer that ends, or that only moves on, takes nothing from the file.
LEMMA PollStep ==
  ASSUME ServerTypeOK, WritersInv, FileInv, NEW w \in Writers, Poll(w)
  PROVE  WritersInv' /\ FileInv'
<1>1. /\ writer[w] = "polling"
      /\ UNCHANGED <<generation, started, size, known, file>>
  BY DEF Poll, streamVars
<1>2. \A v \in Writers \ {w} :
        writer'[v] = writer[v] /\ wgen'[v] = wgen[v] /\ todo'[v] = todo[v]
  BY DEF Poll, ServerTypeOK
<1>3. CASE Current(w)
  <2>1. writer'[w] = "listed" /\ todo'[w] = Playlist /\ Playlist # {} /\ wgen'[w] = wgen[w]
    BY <1>3 DEF Poll, ServerTypeOK
  <2>2. \A v \in Writers : wgen'[v] = wgen[v] /\ (Current(v)' <=> Current(v))
    BY <1>1, <1>2, <2>1 DEF Current
  <2>3. \A v \in Writers : writer'[v] # "free" => writer[v] # "free"
    BY <1>1, <1>2
  <2>4. WritersInv'
    <3>1. \A v \in Writers : At(v, {"listed", "appending"})' => todo'[v] # {}
      BY <1>2, <2>1 DEF WritersInv, At
    <3> QED
      BY <1>1, <2>2, <2>3, <3>1 DEF WritersInv, At
  <2>5. FileInv'
    <3>1. ASSUME NEW v \in Writers, Current(v)'
          PROVE  /\ At(v, {"starting"})' => size' = 0
                 /\ At(v, {"polling", "listed", "appending"})' =>
                      \A i \in 1..Len(file') :
                        file'[i].gen = generation' /\ file'[i].seg \in known'
                 /\ At(v, {"appending"})' => todo'[v] \cap known' = {}
      <4>1. CASE v = w
        BY <1>1, <1>3, <2>1, <4>1 DEF FileInv, At
      <4>2. CASE v # w
        BY <1>1, <1>2, <2>2, <3>1, <4>2 DEF FileInv, At
      <4> QED
        BY <4>1, <4>2
    <3> QED
      BY <1>1, <3>1 DEF FileInv, ServedIsCurrent, EachSegmentOnce
  <2> QED
    BY <2>4, <2>5
<1>4. CASE ~Current(w)
  <2>1. writer'[w] = "free"
    BY <1>4 DEF Poll, ServerTypeOK
  <2> QED
    BY <1>1, <1>2, <2>1 DEF WritersInv, FileInv, At, Current, ServedIsCurrent, EachSegmentOnce
<1> QED
  BY <1>3, <1>4

\* What a writer picks is not in the file yet.
LEMMA PickStep ==
  ASSUME ServerTypeOK, WritersInv, FileInv, NEW w \in Writers, Pick(w)
  PROVE  WritersInv' /\ FileInv'
<1> DEFINE due == IF size = 0 THEN {Max(todo[w])} ELSE todo[w] \ known
<1>1. /\ writer[w] = "listed"
      /\ UNCHANGED <<generation, started, size, known, file, wgen>>
  BY DEF Pick, streamVars
<1>2. due \cap known = {}
  BY DEF WritersInv
<1>3. /\ todo' = [todo EXCEPT ![w] = due]
      /\ writer' = [writer EXCEPT ![w] = IF due = {} THEN "polling" ELSE "appending"]
  BY DEF Pick
<1> HIDE DEF due
<1>4. /\ todo'[w] = due
      /\ writer'[w] \in {"polling", "appending"}
      /\ writer'[w] = "appending" => due # {}
      /\ \A v \in Writers \ {w} : writer'[v] = writer[v] /\ todo'[v] = todo[v]
  BY <1>3 DEF ServerTypeOK
<1>5. \A v \in Writers : writer'[v] # "free" => writer[v] # "free"
  BY <1>1, <1>4
<1>6. WritersInv'
  <2>1. \A v \in Writers : At(v, {"listed", "appending"})' => todo'[v] # {}
    BY <1>4 DEF WritersInv, At
  <2> QED
    BY <1>1, <1>5, <2>1 DEF WritersInv, At
<1>7. FileInv'
  <2>1. ASSUME NEW v \in Writers, Current(v)'
        PROVE  /\ At(v, {"starting"})' => size' = 0
               /\ At(v, {"polling", "listed", "appending"})' =>
                    \A i \in 1..Len(file') :
                      file'[i].gen = generation' /\ file'[i].seg \in known'
               /\ At(v, {"appending"})' => todo'[v] \cap known' = {}
    <3>1. Current(v)
      BY <1>1, <2>1 DEF Current
    <3>2. CASE v = w
      BY <1>1, <1>2, <1>4, <3>1, <3>2 DEF FileInv, At
    <3>3. CASE v # w
      BY <1>1, <1>4, <3>1, <3>3 DEF FileInv, At
    <3> QED
      BY <3>2, <3>3
  <2> QED
    BY <1>1, <2>1 DEF FileInv, ServedIsCurrent, EachSegmentOnce
<1> QED
  BY <1>6, <1>7

\* Where a writer goes when it has appended or skipped a segment.
LEMMA HandledMoves ==
  ASSUME ServerTypeOK, NEW w \in Writers, SegmentHandled(w), writer[w] = "appending"
  PROVE  /\ todo'[w] = todo[w] \ {NextSegment(w)}
         /\ writer'[w] \in {"polling", "appending"}
         /\ writer'[w] = "appending" => todo'[w] # {}
         /\ \A v \in Writers \ {w} : writer'[v] = writer[v] /\ todo'[v] = todo[v]
         /\ \A v \in Writers : writer'[v] # "free" => writer[v] # "free"
BY DEF SegmentHandled, ServerTypeOK

\* A segment that is not appended: that of an older generation, or a deleted one.
LEMMA LeaveSegment ==
  ASSUME ServerTypeOK, WritersInv, FileInv, NEW w \in Writers, writer[w] = "appending",
         SegmentHandled(w), UNCHANGED <<generation, started, size, known, file, wgen>>
  PROVE  WritersInv' /\ FileInv'
<1>1. /\ todo'[w] \subseteq todo[w]
      /\ writer'[w] \in {"polling", "appending"}
      /\ writer'[w] = "appending" => todo'[w] # {}
      /\ \A v \in Writers \ {w} : writer'[v] = writer[v] /\ todo'[v] = todo[v]
      /\ \A v \in Writers : writer'[v] # "free" => writer[v] # "free"
  BY HandledMoves
<1>2. WritersInv'
  <2>1. \A v \in Writers : At(v, {"listed", "appending"})' => todo'[v] # {}
    BY <1>1 DEF WritersInv, At
  <2> QED
    BY <1>1, <2>1 DEF WritersInv, At
<1>3. FileInv'
  <2>1. ASSUME NEW v \in Writers, Current(v)'
        PROVE  /\ At(v, {"starting"})' => size' = 0
               /\ At(v, {"polling", "listed", "appending"})' =>
                    \A i \in 1..Len(file') :
                      file'[i].gen = generation' /\ file'[i].seg \in known'
               /\ At(v, {"appending"})' => todo'[v] \cap known' = {}
    <3>1. Current(v)
      BY <2>1 DEF Current
    <3>2. CASE v = w
      BY <1>1, <3>1, <3>2 DEF FileInv, At
    <3>3. CASE v # w
      BY <1>1, <3>1, <3>3 DEF FileInv, At
    <3> QED
      BY <3>2, <3>3
  <2> QED
    BY <2>1 DEF FileInv, ServedIsCurrent, EachSegmentOnce
<1> QED
  BY <1>2, <1>3

LEMMA AppendStep ==
  ASSUME ServerTypeOK, WritersInv, FileInv, NEW w \in Writers, AppendSegment(w)
  PROVE  WritersInv' /\ FileInv'
<1>1. /\ writer[w] = "appending" /\ SegmentHandled(w)
      /\ UNCHANGED <<generation, started, wgen>>
  BY DEF AppendSegment
<1>2. CASE ~Current(w)
  BY <1>1, <1>2, LeaveSegment DEF AppendSegment
<1>3. CASE Current(w)
  <2>1. file' = FileWith(w) /\ size' = size + 1 /\ known' = known \cup {NextSegment(w)}
    BY <1>3 DEF AppendSegment
  <2>2. /\ \A i \in 1..Len(file') : file'[i].gen = generation' /\ file'[i].seg \in known'
        /\ \A i, j \in 1..Len(file') : file'[i] = file'[j] => i = j
    BY <1>1, <1>3, <2>1, AppendedFile
  <2>3. started' /\ size' # 0
    BY <1>1, <1>3, <2>1 DEF Current, ServerTypeOK
  <2>4. /\ todo'[w] = todo[w] \ {NextSegment(w)}
        /\ writer'[w] \in {"polling", "appending"}
        /\ writer'[w] = "appending" => todo'[w] # {}
        /\ \A v \in Writers \ {w} : writer'[v] = writer[v] /\ todo'[v] = todo[v]
        /\ \A v \in Writers : writer'[v] # "free" => writer[v] # "free"
    BY <1>1, HandledMoves
  <2>5. WritersInv'
    <3>1. \A v \in Writers : At(v, {"listed", "appending"})' => todo'[v] # {}
      BY <2>4 DEF WritersInv, At
    <3> QED
      BY <1>1, <2>3, <2>4, <3>1 DEF WritersInv, At
  <2>6. todo'[w] \cap known' = {}
    BY <1>1, <1>3, <2>1, <2>4 DEF FileInv, At
  <2>7. ASSUME NEW v \in Writers, Current(v)', writer'[v] # "free" PROVE v = w
    BY <1>1, <1>3, <2>4, <2>7, OneWriter DEF Current
  <2>8. FileInv'
    <3>1. ServedIsCurrent' /\ EachSegmentOnce'
      BY <2>2 DEF ServedIsCurrent, EachSegmentOnce
    <3>2. ASSUME NEW v \in Writers, Current(v)'
          PROVE  /\ At(v, {"starting"})' => size' = 0
                 /\ At(v, {"appending"})' => todo'[v] \cap known' = {}
      BY <2>4, <2>6, <2>7, <3>2 DEF At
    <3> QED
      BY <2>2, <3>1, <3>2 DEF FileInv
  <2> QED
    BY <2>5, <2>8
<1> QED
  BY <1>2, <1>3

\* A writer that dies is the last of its generation.
LEMMA WriterDiesStep ==
  ASSUME ServerTypeOK, WritersInv, FileInv, NEW w \in Writers, WriterDies(w)
  PROVE  WritersInv' /\ FileInv'
<1>1. UNCHANGED <<generation, started, size, known>>
  BY DEF WriterDies, streamVars
<1>2. /\ writer'[w] = "free"
      /\ \A v \in Writers \ {w} :
           writer'[v] = writer[v] /\ wgen'[v] = wgen[v] /\ todo'[v] = todo[v]
  BY DEF WriterDies, ServerTypeOK
<1>3. WritersInv'
  BY <1>1, <1>2 DEF WritersInv, At
<1>4. CASE file' = file
  <2>1. ServedIsCurrent' /\ EachSegmentOnce'
    BY <1>1, <1>4 DEF FileInv, ServedIsCurrent, EachSegmentOnce
  <2>2. ASSUME NEW v \in Writers, Current(v)', writer'[v] # "free"
        PROVE  /\ v # w /\ Current(v)
               /\ writer'[v] = writer[v] /\ todo'[v] = todo[v]
    BY <1>1, <1>2, <2>2 DEF Current
  <2> QED
    BY <1>1, <1>3, <1>4, <2>1, <2>2 DEF FileInv, At
<1>5. CASE writer[w] = "appending" /\ Current(w) /\ file' = FileWith(w)
  <2>1. /\ \A i \in 1..Len(file') : file'[i].gen = generation'
        /\ \A i, j \in 1..Len(file') : file'[i] = file'[j] => i = j
    BY <1>1, <1>5, AppendedFile
  <2>2. ASSUME NEW v \in Writers, Current(v)' PROVE writer'[v] = "free"
    <3>1. CASE v = w
      BY <1>2, <3>1
    <3>2. CASE v # w
      BY <1>1, <1>2, <1>5, <2>2, <3>2, OneWriter DEF Current
    <3> QED
      BY <3>1, <3>2
  <2> QED
    BY <1>3, <2>1, <2>2 DEF FileInv, At, ServedIsCurrent, EachSegmentOnce
<1> QED
  BY <1>3, <1>4, <1>5 DEF WriterDies

LEMMA WriterKeepsFile ==
  ASSUME ServerTypeOK, WritersInv, FileInv, NEW w \in Writers, WriterStep(w)
  PROVE  WritersInv' /\ FileInv'
<1>1. CASE SkipSegment(w)
  BY <1>1, LeaveSegment DEF SkipSegment, streamVars
<1> QED
  BY <1>1, TruncateStep, PollStep, PickStep, AppendStep, WriterDiesStep DEF WriterStep

-----------------------------------------------------------------------------
(* Preservation: the readers.                                              *)

\* The requests that hold a reader, when one more does, and when a request
\* only goes on.
LEMMA HoldingGrows ==
  ASSUME ServerTypeOK, NEW r \in Requests,
         NEW q \in {"waiting", "headers", "streaming", "writing", "lost"},
         request_at' = [request_at EXCEPT ![r] = q]
  PROVE  Holding' = Holding \cup {r}
<1>1. /\ request_at'[r] = q
      /\ \A p \in Requests \ {r} : request_at'[p] = request_at[p]
  BY DEF ServerTypeOK, Threads
<1> QED
  BY <1>1 DEF Holding

LEMMA HoldingSize ==
  ASSUME IsFiniteSet(Holding), NEW r \in Requests
  PROVE  /\ Cardinality(Holding) \in Nat
         /\ IsFiniteSet(Holding \cup {r}) /\ IsFiniteSet(Holding \ {r})
         /\ r \notin Holding => Cardinality(Holding \cup {r}) = Cardinality(Holding) + 1
         /\ r \in Holding => /\ Holding \cup {r} = Holding
                             /\ Cardinality(Holding \ {r}) = Cardinality(Holding) - 1
         /\ r \notin Holding => Holding \ {r} = Holding
<1> DEFINE S == Holding
<1> HIDE DEF S
<1>1. IsFiniteSet(S)
  BY DEF S
<1>2. Cardinality(S) \in Nat
  BY <1>1, FS_CardinalityType
<1>3. /\ IsFiniteSet(S \cup {r})
      /\ Cardinality(S \cup {r}) = IF r \in S THEN Cardinality(S) ELSE Cardinality(S) + 1
  BY <1>1, FS_AddElement
<1>4. /\ IsFiniteSet(S \ {r})
      /\ Cardinality(S \ {r}) = IF r \in S THEN Cardinality(S) - 1 ELSE Cardinality(S)
  BY <1>1, FS_RemoveElement
<1>5. (r \in S => S \cup {r} = S) /\ (r \notin S => S \ {r} = S)
  OBVIOUS
<1> QED
  BY <1>2, <1>3, <1>4, <1>5 DEF S

LEMMA HoldingStays ==
  ASSUME ServerTypeOK, NEW r \in Requests, NEW from, NEW to, RequestGoes(r, from, to),
         from \in {"waiting", "headers", "streaming", "writing", "lost"}
           <=> to \in {"waiting", "headers", "streaming", "writing", "lost"}
  PROVE  Holding' = Holding
<1>1. /\ request_at'[r] = to /\ request_at[r] = from
      /\ \A p \in Requests \ {r} : request_at'[p] = request_at[p]
  BY DEF ServerTypeOK, Threads, RequestGoes
<1> QED
  BY <1>1 DEF Holding

LEMMA RequestKeepsReaders ==
  ASSUME ServerTypeOK, ReadersInv, NEW r \in Requests, Receive(r) \/ RequestStep(r) \/ ClientStep(r)
  PROVE  ReadersInv'
<1>0. /\ readers \in Nat /\ IsFiniteSet(Holding) /\ readers <= Cardinality(Holding)
      /\ Cardinality(Holding) \in Nat
  BY HoldingSize DEF ReadersInv, ReadersExplained, ServerTypeOK
\* No request gets or gives back a reader.
<1>1. ASSUME Holding' = Holding, readers' = readers \/ readers' = 0
      PROVE  ReadersInv'
  BY <1>0, <1>1 DEF ReadersInv, ReadersExplained
<1>2. CASE Receive(r)
  BY <1>1, <1>2, HoldingStays DEF Receive, streamVars
<1>3. CASE Begin(r)
  BY <1>1, <1>3, HoldingStays DEF Begin
<1>4. CASE WithoutBody(r)
  BY <1>1, <1>4, HoldingStays DEF WithoutBody, streamVars
<1>5. CASE Locate(r)
  <2>1. CASE RequestGoes(r, "sizing", "checking")
    BY <1>1, <1>5, <2>1, HoldingStays DEF Locate, streamVars
  <2>2. CASE RequestGoes(r, "sizing", "acquiring")
    BY <1>1, <1>5, <2>2, HoldingStays DEF Locate, streamVars
  <2> QED
    BY <1>5, <2>1, <2>2 DEF Locate
<1>6. CASE CheckIdle(r)
  <2>1. CASE RequestGoes(r, "checking", "resetting")
    BY <1>1, <1>6, <2>1, HoldingStays DEF CheckIdle, streamVars
  <2>2. CASE RequestGoes(r, "checking", "acquiring")
    BY <1>1, <1>6, <2>2, HoldingStays DEF CheckIdle, streamVars
  <2> QED
    BY <1>6, <2>1, <2>2 DEF CheckIdle
<1>7. CASE ResetStream(r)
  BY <1>1, <1>7, HoldingStays DEF ResetStream
<1>8. CASE Remove(r)
  <2>1. CASE RequestGoes(r, "removing", "stopped")
    BY <1>1, <1>8, <2>1, HoldingStays DEF Remove, streamVars
  <2>2. CASE RequestGoes(r, "removing", "restarting")
    BY <1>1, <1>8, <2>2, HoldingStays DEF Remove, streamVars
  <2> QED
    BY <1>8, <2>1, <2>2 DEF Remove
<1>9. CASE Restart(r)
  BY <1>1, <1>9, HoldingStays DEF Restart
<1>10. CASE AcquireReader(r)
  <2>1. /\ Holding' = Holding \cup {r} /\ r \notin Holding
        /\ readers' = readers + 1
    <3>1. CASE RequestGoes(r, "acquiring", "headers")
      BY <1>10, <3>1, HoldingGrows DEF AcquireReader, RequestGoes, Holding
    <3>2. CASE RequestGoes(r, "acquiring", "waiting")
      BY <1>10, <3>2, HoldingGrows DEF AcquireReader, RequestGoes, Holding
    <3> QED
      BY <1>10, <3>1, <3>2 DEF AcquireReader
  <2>2. IsFiniteSet(Holding') /\ Cardinality(Holding') = Cardinality(Holding) + 1
    BY <1>0, <2>1, HoldingSize
  <2> QED
    BY <1>0, <2>1, <2>2 DEF ReadersInv, ReadersExplained
<1>11. CASE HasData(r)
  BY <1>1, <1>11, HoldingStays DEF HasData, streamVars
<1>12. CASE NoData(r) \/ EndStream(r) \/ ClientEnds(r)
  <2>1. /\ request_at' = [request_at EXCEPT ![r] = "done"]
        /\ request_at[r] \in {"waiting", "streaming", "writing"}
        /\ readers' = IF readers > 0 THEN readers - 1 ELSE 0
    BY <1>12 DEF NoData, EndStream, ClientEnds, RequestGoes, ReleaseReader
  <2>2. Holding' = Holding \ {r} /\ r \in Holding
    <3>1. request_at'[r] = "done" /\ \A p \in Requests \ {r} : request_at'[p] = request_at[p]
      BY <2>1 DEF ServerTypeOK, Threads
    <3> QED
      BY <2>1, <3>1 DEF Holding
  <2>3. IsFiniteSet(Holding') /\ Cardinality(Holding') = Cardinality(Holding) - 1
    BY <1>0, <2>2, HoldingSize
  <2>4. Cardinality(Holding') \in Nat
    BY <2>3, FS_CardinalityType
  <2> QED
    BY <1>0, <2>1, <2>3, <2>4 DEF ReadersInv, ReadersExplained
<1>13. CASE SendHeaders(r)
  <2>1. CASE RequestGoes(r, "headers", "streaming")
    BY <1>1, <1>13, <2>1, HoldingStays DEF SendHeaders, streamVars
  <2>2. CASE RequestGoes(r, "headers", "lost")
    BY <1>1, <1>13, <2>2, HoldingStays DEF SendHeaders, streamVars
  <2> QED
    BY <1>13, <2>1, <2>2 DEF SendHeaders
<1>14. CASE ReadAt(r)
  BY <1>1, <1>14, HoldingStays DEF ReadAt, streamVars
<1>15. CASE ClientReads(r)
  BY <1>1, <1>15, HoldingStays DEF ClientReads, streamVars
<1> QED
  BY <1>2, <1>3, <1>4, <1>5, <1>6, <1>7, <1>8, <1>9, <1>10, <1>11, <1>12, <1>13, <1>14,
     <1>15 DEF RequestStep, ClientStep

-----------------------------------------------------------------------------
(* Preservation: the order of the segments.                                *)

\* A writer that does not move keeps its order while the stream stays as it is.
LEMMA OrderOfOthers ==
  ASSUME NEW v \in Writers, Current(v) => AppendsInOrder(v), Current(v)',
         writer'[v] = writer[v], todo'[v] = todo[v], wgen'[v] = wgen[v],
         UNCHANGED <<generation, started, size, known, file, live>>
  PROVE  AppendsInOrder(v)'
BY DEF Current, AppendsInOrder, Ahead, Playlist, At

LEMMA QuietOrder ==
  ASSUME OrderInv,
         UNCHANGED <<generation, started, size, known, file, live, writer, wgen, todo>>
  PROVE  OrderInv'
BY DEF OrderInv, Current, AppendsInOrder, Ahead, Playlist, At, OrderedAfterFirst

\* The writer that start() creates has taken no segment.
LEMMA StartOrder ==
  ASSUME ServerTypeOK, WritersInv, OrderInv, Start,
         UNCHANGED <<generation, size, known, file, live, todo>>
  PROVE  OrderInv'
<1>1. CASE started
  BY <1>1, QuietOrder DEF Start
<1>2. CASE ~started
  <2>1. PICK w \in Writers :
          /\ writer[w] = "free"
          /\ started' = TRUE
          /\ writer' = [writer EXCEPT ![w] = "starting"]
          /\ wgen' = [wgen EXCEPT ![w] = generation]
    BY <1>2 DEF Start
  <2>2. /\ writer'[w] = "starting" /\ todo[w] = {}
        /\ \A v \in Writers \ {w} : writer'[v] = writer[v] /\ wgen'[v] = wgen[v]
    BY <2>1 DEF ServerTypeOK, OrderInv, At
  <2>3. ASSUME NEW v \in Writers, Current(v)' PROVE AppendsInOrder(v)'
    <3>1. CASE v = w
      BY <2>2, <3>1 DEF AppendsInOrder, At
    <3>2. CASE v # w
      <4>1. writer[v] # "free" => wgen[v] <= generation /\ wgen[v] # generation
        BY <1>2 DEF WritersInv, At
      <4>2. writer'[v] = "free" /\ todo[v] = {}
        BY <2>2, <2>3, <3>2, <4>1 DEF Current, OrderInv, At
      <4> QED
        BY <4>2 DEF AppendsInOrder, At
    <3> QED
      BY <3>1, <3>2
  <2>4. \A v \in Writers : ~At(v, {"listed", "appending"})' => todo'[v] = {}
    BY <2>2 DEF OrderInv, At
  <2> QED
    BY <2>3, <2>4 DEF OrderInv, OrderedAfterFirst
<1> QED
  BY <1>1, <1>2

LEMMA ResetOrder ==
  ASSUME OrderInv, NEW p \in Threads, ResetStream(p)
  PROVE  OrderInv'
<1>1. started' = FALSE /\ UNCHANGED <<file, live, writer, todo>>
  BY DEF ResetStream, writerVars
<1> QED
  BY <1>1 DEF OrderInv, Current, At, OrderedAfterFirst

\* In an empty file everything is in order.
LEMMA EmptyOrder ==
  ASSUME OrderInv, file' = <<>>,
         UNCHANGED <<generation, started, size, known, live, wgen, todo>>,
         \A v \in Writers : \/ writer'[v] = writer[v]
                            \/ writer[v] = "starting" /\ writer'[v] = "polling"
  PROVE  OrderInv'
<1>1. 1..Len(file') = {} /\ 2..Len(file') = {}
  BY SMT
<1>2. \A v \in Writers : ~At(v, {"listed", "appending"})' => todo'[v] = {}
  BY DEF OrderInv, At
<1>3. ASSUME NEW v \in Writers, Current(v)' PROVE AppendsInOrder(v)'
  <2>1. AppendsInOrder(v)
    BY <1>3 DEF OrderInv, Current
  <2>2. /\ At(v, {"listed"})' => At(v, {"listed"})
        /\ At(v, {"appending"})' => At(v, {"appending"})
        /\ Ahead(v)' = Ahead(v)
    BY DEF At, Ahead, Playlist
  <2>3. /\ \A s \in todo'[v] : s <= live'
        /\ At(v, {"listed"})' \/ (At(v, {"appending"})' /\ size' > 0) =>
             \A s \in todo'[v] : \A t \in Ahead(v)' \ todo'[v] : s < t
        /\ At(v, {"appending"})' /\ size' = 0 => \A s, t \in todo'[v] : s = t
    BY <2>1, <2>2 DEF AppendsInOrder
  <2> QED
    BY <1>1, <2>3 DEF AppendsInOrder
<1> QED
  BY <1>1, <1>2, <1>3 DEF OrderInv, OrderedAfterFirst

\* The capture's next segment is beyond all earlier ones.
LEMMA CaptureOrder ==
  ASSUME ServerTypeOK, OrderInv, Capture
  PROVE  OrderInv'
<1>1. /\ live' = live + 1 /\ live \in Nat
      /\ UNCHANGED <<generation, started, size, known, file, writer, wgen, todo>>
  BY ProgressiveAssumption DEF Capture, streamVars, writerVars, ServerTypeOK, ProgressiveAssumption
<1>2. ASSUME NEW v \in Writers PROVE Ahead(v)' \subseteq Ahead(v) \cup {live + 1}
  <2>1. Playlist' \subseteq Playlist \cup {live + 1}
    BY <1>1, ProgressiveAssumption DEF Playlist, ProgressiveAssumption
  <2> QED
    BY <1>1, <2>1 DEF Ahead
<1>3. ASSUME NEW i \in 1..Len(file) PROVE file[i].seg \in Nat /\ file[i].seg <= live
  <2>1. file \in Seq(Segments) /\ file[i].seg <= live
    BY DEF ServerTypeOK, OrderInv
  <2>2. file[i] \in Segments
    BY <2>1
  <2> QED
    BY <2>1, <2>2 DEF Segments
<1>4. Len(file) \in Nat
  BY DEF ServerTypeOK
<1>5. ASSUME NEW v \in Writers, Current(v)' PROVE AppendsInOrder(v)'
  <2>1. AppendsInOrder(v) /\ (\A s \in todo[v] : s \in Nat)
    BY <1>1, <1>5 DEF OrderInv, Current, ServerTypeOK
  <2>2. ASSUME At(v, {"polling", "listed", "appending"}), size # 0,
               NEW i \in 2..Len(file), NEW s \in Ahead(v)'
        PROVE  file[i].seg < s
    <3>1. file[i].seg \in Nat /\ file[i].seg <= live
      BY <1>3, <1>4
    <3>2. CASE s = live + 1
      BY <1>1, <3>1, <3>2
    <3>3. CASE s \in Ahead(v)
      BY <2>1, <2>2, <3>3 DEF AppendsInOrder
    <3> QED
      BY <1>2, <3>2, <3>3
  <2>3. ASSUME At(v, {"listed"}) \/ (At(v, {"appending"}) /\ size > 0),
               NEW s \in todo[v], NEW t \in Ahead(v)' \ todo[v]
        PROVE  s < t
    <3>1. s \in Nat /\ s <= live
      BY <2>1 DEF AppendsInOrder
    <3>2. CASE t = live + 1
      BY <1>1, <3>1, <3>2
    <3>3. CASE t \in Ahead(v)
      BY <2>1, <2>3, <3>3 DEF AppendsInOrder
    <3> QED
      BY <1>2, <3>2, <3>3
  <2>4. \A s \in todo[v] : s <= live + 1
    BY <1>1, <2>1 DEF AppendsInOrder
  <2> QED
    BY <1>1, <2>1, <2>2, <2>3, <2>4 DEF AppendsInOrder, At
<1>6. \A i \in 1..Len(file) : file[i].seg <= live + 1
  BY <1>1, <1>3
<1>7. \A v \in Writers : ~At(v, {"listed", "appending"})' => todo'[v] = {}
  BY <1>1 DEF OrderInv, At
<1> QED
  BY <1>1, <1>5, <1>6, <1>7 DEF OrderInv, OrderedAfterFirst

\* What is listed is what the capture has produced.
LEMMA PollOrder ==
  ASSUME ServerTypeOK, OrderInv, NEW w \in Writers, Poll(w)
  PROVE  OrderInv'
<1>1. /\ writer[w] = "polling" /\ UNCHANGED <<generation, started, size, known, file, live>>
  BY DEF Poll, streamVars
<1>2. \A v \in Writers \ {w} :
        writer'[v] = writer[v] /\ wgen'[v] = wgen[v] /\ todo'[v] = todo[v]
  BY DEF Poll, ServerTypeOK
<1>3. CASE Current(w)
  <2>1. writer'[w] = "listed" /\ todo'[w] = Playlist /\ wgen'[w] = wgen[w]
    BY <1>3 DEF Poll, ServerTypeOK
  <2>2. AppendsInOrder(w)
    BY <1>3 DEF OrderInv
  <2>3. Ahead(w)' \subseteq Ahead(w) /\ Ahead(w)' \ todo'[w] = {}
    BY <1>1, <2>1 DEF Ahead, Playlist
  <2>4. \A s \in todo'[w] : s <= live'
    BY <1>1, <2>1 DEF Playlist, ServerTypeOK
  <2>5. AppendsInOrder(w)'
    BY <1>1, <2>1, <2>2, <2>3, <2>4 DEF AppendsInOrder, At
  <2>6. ASSUME NEW v \in Writers, Current(v)' PROVE AppendsInOrder(v)'
    BY <1>1, <1>2, <2>5, <2>6, OrderOfOthers DEF OrderInv
  <2>7. \A v \in Writers : ~At(v, {"listed", "appending"})' => todo'[v] = {}
    BY <1>2, <2>1 DEF OrderInv, At
  <2> QED
    BY <1>1, <2>6, <2>7 DEF OrderInv, OrderedAfterFirst
<1>4. CASE ~Current(w)
  <2>1. writer'[w] = "free" /\ todo'[w] = {}
    BY <1>4 DEF Poll, ServerTypeOK
  <2>2. AppendsInOrder(w)'
    BY <2>1 DEF AppendsInOrder, At
  <2>3. ASSUME NEW v \in Writers, Current(v)' PROVE AppendsInOrder(v)'
    BY <1>1, <1>2, <2>2, <2>3, OrderOfOthers DEF OrderInv
  <2>4. \A v \in Writers : ~At(v, {"listed", "appending"})' => todo'[v] = {}
    BY <1>2, <2>1 DEF OrderInv, At
  <2> QED
    BY <1>1, <2>3, <2>4 DEF OrderInv, OrderedAfterFirst
<1> QED
  BY <1>3, <1>4

\* A stream begins with one segment; later every unknown one is taken.
LEMMA PickOrder ==
  ASSUME ServerTypeOK, WritersInv, OrderInv, NEW w \in Writers, Pick(w)
  PROVE  OrderInv'
<1> DEFINE due == IF size = 0 THEN {Max(todo[w])} ELSE todo[w] \ known
<1>1. /\ writer[w] = "listed"
      /\ UNCHANGED <<generation, started, size, known, file, live, wgen>>
  BY DEF Pick, streamVars
<1>2. due \subseteq todo[w] /\ (size # 0 => due = todo[w] \ known)
      /\ (size = 0 => due # {} /\ \A s, t \in due : s = t)
  <2>1. todo[w] \subseteq 1..MaxSegments /\ todo[w] # {}
    BY <1>1 DEF ServerTypeOK, WritersInv, At
  <2>2. Max(todo[w]) \in todo[w]
    BY <2>1, NewestIsListed
  <2> QED
    BY <2>2
<1>3. /\ todo' = [todo EXCEPT ![w] = due]
      /\ writer' = [writer EXCEPT ![w] = IF due = {} THEN "polling" ELSE "appending"]
  BY DEF Pick
<1> HIDE DEF due
<1>4. /\ todo'[w] = due
      /\ writer'[w] = IF due = {} THEN "polling" ELSE "appending"
      /\ \A v \in Writers \ {w} : writer'[v] = writer[v] /\ todo'[v] = todo[v]
  BY <1>3 DEF ServerTypeOK
<1>5. ASSUME Current(w) PROVE AppendsInOrder(w)'
  <2>1. AppendsInOrder(w) /\ At(w, {"listed"}) /\ At(w, {"polling", "listed", "appending"})
    BY <1>1, <1>5 DEF OrderInv, At
  <2>2. \A s \in todo'[w] : s <= live'
    BY <1>1, <1>2, <1>4, <2>1 DEF AppendsInOrder
  <2>3. CASE size = 0
    <3>1. file' = <<>> /\ writer'[w] = "appending" /\ size' = 0
      BY <1>1, <1>2, <1>4, <2>1, <2>3 DEF AppendsInOrder
    <3>2. \A s, t \in todo'[w] : s = t
      BY <1>2, <1>4, <2>3
    <3>3. ~At(w, {"listed"})' /\ ~(size' > 0)
      BY <3>1 DEF At
    <3> QED
      BY <2>2, <3>1, <3>2, <3>3 DEF AppendsInOrder
  <2>4. CASE size # 0
    <3>1. Ahead(w)' = Ahead(w) /\ Ahead(w)' \ todo'[w] \subseteq Ahead(w) \ todo[w]
      BY <1>1, <1>2, <1>4, <2>4 DEF Ahead, Playlist
    <3>2. \A i \in 2..Len(file') : \A s \in Ahead(w)' : file'[i].seg < s
      BY <1>1, <2>1, <2>4, <3>1 DEF AppendsInOrder
    <3>3. \A s \in todo'[w] : \A t \in Ahead(w)' \ todo'[w] : s < t
      <4>1. \A s \in todo[w] : \A t \in Ahead(w) \ todo[w] : s < t
        BY <2>1 DEF AppendsInOrder
      <4>2. \A s \in todo'[w] : s \in todo[w]
        BY <1>2, <1>4
      <4> QED
        BY <3>1, <4>1, <4>2
    <3> QED
      BY <1>1, <2>2, <2>4, <3>2, <3>3 DEF AppendsInOrder, At
  <2> QED
    BY <2>3, <2>4
<1>6. ASSUME NEW v \in Writers, Current(v)' PROVE AppendsInOrder(v)'
  <2>1. Current(v)
    BY <1>1, <1>6 DEF Current
  <2> QED
    BY <1>1, <1>4, <1>5, <1>6, <2>1, OrderOfOthers DEF OrderInv
<1>7. \A v \in Writers : ~At(v, {"listed", "appending"})' => todo'[v] = {}
  BY <1>4 DEF OrderInv, At
<1> QED
  BY <1>1, <1>6, <1>7 DEF OrderInv, OrderedAfterFirst

\* The next segment is the oldest that is due.
LEMMA NextIsOldest ==
  ASSUME ServerTypeOK, NEW w \in Writers, todo[w] # {}
  PROVE  /\ NextSegment(w) \in todo[w]
         /\ \A s \in todo[w] : s \in Nat /\ NextSegment(w) <= s
<1>1. todo[w] \subseteq Nat
  BY ProgressiveAssumption DEF ServerTypeOK, ProgressiveAssumption
<1>2. \E x \in todo[w] : \A y \in todo[w] : x <= y
  BY <1>1, LeastExists
<1> QED
  BY <1>1, <1>2 DEF NextSegment, Min

\* The file after an append by the writer of the current generation.
LEMMA AppendedOrder ==
  ASSUME ServerTypeOK, WritersInv, FileInv, OrderInv, NEW w \in Writers,
         writer[w] = "appending", Current(w)
  PROVE  /\ \A i, j \in 2..Len(FileWith(w)) :
              i < j => FileWith(w)[i].seg < FileWith(w)[j].seg
         /\ \A i \in 1..Len(FileWith(w)) : FileWith(w)[i].seg <= live
         /\ size = 0 => 2..Len(FileWith(w)) = {}
         /\ size # 0 => \A i \in 2..Len(FileWith(w)) : \A s \in Ahead(w) \ {NextSegment(w)} :
                          FileWith(w)[i].seg < s
<1> DEFINE n == NextSegment(w)
           e == [gen |-> wgen[w], seg |-> n]
           f == FileWith(w)
<1>1. todo[w] # {} /\ todo[w] \cap known = {} /\ AppendsInOrder(w)
  BY DEF WritersInv, FileInv, OrderInv, At
<1>2. n \in todo[w] /\ f = Append(file, e) /\ (\A s \in todo[w] : s \in Nat /\ n <= s)
  BY <1>1, EntryType, NextIsOldest
<1>3. file \in Seq(Segments) /\ size \in Nat
  BY DEF ServerTypeOK
<1>4. e.seg = n /\ n \in Ahead(w) /\ n <= live /\ n \in Nat
  BY <1>1, <1>2 DEF AppendsInOrder, Ahead
<1>5. \A s \in Ahead(w) : s \in Nat
  <2>1. \A s \in Playlist : s \in Nat
    BY DEF Playlist, ServerTypeOK
  <2> QED
    BY <1>2, <2>1 DEF Ahead
<1>6. ASSUME size # 0, NEW s \in Ahead(w), s # n PROVE n < s
  <2>1. CASE s \in todo[w]
    BY <1>2, <1>4, <1>6, <2>1
  <2>2. CASE s \notin todo[w]
    BY <1>1, <1>2, <1>3, <1>6, <2>2 DEF AppendsInOrder, At
  <2> QED
    BY <2>1, <2>2
<1>7. (size = 0 => file = <<>>)
      /\ (size # 0 => \A i \in 2..Len(file) : \A s \in Ahead(w) : file[i].seg < s)
  BY <1>1 DEF AppendsInOrder, At
<1>8. /\ \A i, j \in 2..Len(file) : i < j => file[i].seg < file[j].seg
      /\ \A i \in 1..Len(file) : file[i].seg <= live
  BY DEF OrderInv, OrderedAfterFirst
<1> HIDE DEF n, e, f
<1>9. /\ Len(f) = Len(file) + 1 /\ Len(file) \in Nat
      /\ \A i \in 1..Len(file) : f[i] = file[i]
      /\ f[Len(file) + 1] = e
  BY <1>2, <1>3
<1>10. \A i \in 1..Len(f) : i \in 1..Len(file) \/ i = Len(file) + 1
  BY <1>9
<1>11. \A i \in 2..Len(f) : /\ i \in 2..Len(file) \/ (i = Len(file) + 1 /\ 2..Len(f) # {})
                            /\ i \in 2..Len(file) => i \in 1..Len(file)
  BY <1>9
<1>12. size = 0 => 2..Len(f) = {}
  BY <1>7, <1>9
<1>13. \A i \in 1..Len(f) : f[i].seg <= live
  BY <1>4, <1>8, <1>9, <1>10
<1>14. ASSUME NEW i \in 2..Len(f), NEW j \in 2..Len(f), i < j PROVE f[i].seg < f[j].seg
  <2>1. i \in 2..Len(file)
    BY <1>9, <1>14
  <2>2. size # 0 /\ f[i] = file[i]
    BY <1>9, <1>11, <1>12, <2>1
  <2>3. CASE j \in 2..Len(file)
    BY <1>8, <1>9, <1>11, <1>14, <2>1, <2>2, <2>3
  <2>4. CASE j = Len(file) + 1
    BY <1>4, <1>7, <1>9, <2>1, <2>2, <2>4
  <2> QED
    BY <1>11, <2>3, <2>4
<1>15. ASSUME size # 0, NEW i \in 2..Len(f), NEW s \in Ahead(w) \ {n} PROVE f[i].seg < s
  <2>1. CASE i \in 2..Len(file)
    BY <1>7, <1>9, <1>11, <1>15, <2>1
  <2>2. CASE i = Len(file) + 1
    BY <1>4, <1>6, <1>9, <1>15, <2>2
  <2> QED
    BY <1>11, <2>1, <2>2
<1> QED
  BY <1>12, <1>13, <1>14, <1>15 DEF n, f

\* A segment that is not appended is gone from the playlist, or the writer is
\* that of an older generation.
LEMMA LeaveOrder ==
  ASSUME ServerTypeOK, WritersInv, OrderInv, NEW w \in Writers, writer[w] = "appending",
         SegmentHandled(w), ~Current(w) \/ NextSegment(w) \notin Playlist,
         UNCHANGED <<generation, started, size, known, file, live, wgen>>
  PROVE  OrderInv'
<1>1. /\ todo'[w] = todo[w] \ {NextSegment(w)}
      /\ writer'[w] \in {"polling", "appending"}
      /\ writer'[w] = "appending" => todo'[w] # {}
      /\ \A v \in Writers \ {w} : writer'[v] = writer[v] /\ todo'[v] = todo[v]
  BY HandledMoves
<1>2. writer'[w] = "polling" => todo'[w] = {}
  BY DEF SegmentHandled, ServerTypeOK
<1>3. ASSUME Current(w) PROVE AppendsInOrder(w)'
  <2>1. AppendsInOrder(w) /\ At(w, {"appending"}) /\ At(w, {"polling", "listed", "appending"})
        /\ ~At(w, {"listed"})'
    BY <1>1, <1>3 DEF OrderInv, At
  <2>2. NextSegment(w) \notin Playlist /\ Playlist' = Playlist
    BY <1>3 DEF Playlist
  <2>3. Ahead(w)' \subseteq Ahead(w) /\ Ahead(w)' \ todo'[w] \subseteq Ahead(w) \ todo[w]
    BY <1>1, <2>2 DEF Ahead
  <2>4. \A s \in todo'[w] : s \in todo[w]
    BY <1>1
  <2>5. At(w, {"appending"})' /\ size' > 0 =>
          \A s \in todo'[w] : \A t \in Ahead(w)' \ todo'[w] : s < t
    BY <2>1, <2>3, <2>4 DEF AppendsInOrder
  <2>6. IF size' = 0 THEN file' = <<>>
        ELSE \A i \in 2..Len(file') : \A s \in Ahead(w)' : file'[i].seg < s
    BY <2>1, <2>3 DEF AppendsInOrder
  <2>7. /\ \A s \in todo'[w] : s <= live'
        /\ size' = 0 => \A s, t \in todo'[w] : s = t
    BY <2>1, <2>4 DEF AppendsInOrder
  <2> QED
    BY <2>1, <2>5, <2>6, <2>7 DEF AppendsInOrder
<1>4. ASSUME NEW v \in Writers, Current(v)' PROVE AppendsInOrder(v)'
  <2>1. Current(v)
    BY <1>4 DEF Current
  <2> QED
    BY <1>1, <1>3, <1>4, <2>1, OrderOfOthers DEF OrderInv
<1>5. \A v \in Writers : ~At(v, {"listed", "appending"})' => todo'[v] = {}
  BY <1>1, <1>2 DEF OrderInv, At
<1> QED
  BY <1>4, <1>5 DEF OrderInv, OrderedAfterFirst

LEMMA AppendOrder ==
  ASSUME ServerTypeOK, WritersInv, FileInv, OrderInv, NEW w \in Writers, AppendSegment(w)
  PROVE  OrderInv'
<1>1. /\ writer[w] = "appending" /\ SegmentHandled(w)
      /\ UNCHANGED <<generation, started, wgen, live>>
  BY DEF AppendSegment
<1>2. CASE ~Current(w)
  BY <1>1, <1>2, LeaveOrder DEF AppendSegment
<1>3. CASE Current(w)
  <2>1. file' = FileWith(w) /\ size' = size + 1 /\ known' = known \cup {NextSegment(w)}
    BY <1>3 DEF AppendSegment
  <2>2. /\ \A i, j \in 2..Len(file') : i < j => file'[i].seg < file'[j].seg
        /\ \A i \in 1..Len(file') : file'[i].seg <= live
        /\ size = 0 => 2..Len(file') = {}
        /\ size # 0 => \A i \in 2..Len(file') : \A s \in Ahead(w) \ {NextSegment(w)} :
                         file'[i].seg < s
    BY <1>1, <1>3, <2>1, AppendedOrder
  <2>3. /\ todo'[w] = todo[w] \ {NextSegment(w)}
        /\ writer'[w] \in {"polling", "appending"}
        /\ \A v \in Writers \ {w} : writer'[v] = writer[v] /\ todo'[v] = todo[v]
        /\ \A v \in Writers : writer'[v] # "free" => writer[v] # "free"
    BY <1>1, HandledMoves
  <2>4. /\ writer'[w] = "polling" => todo'[w] = {}
        /\ writer'[w] = "appending" => todo'[w] # {}
    BY <1>1 DEF SegmentHandled, ServerTypeOK
  <2>5. AppendsInOrder(w) /\ At(w, {"appending"}) /\ todo[w] # {} /\ NextSegment(w) \in todo[w]
        /\ size \in Nat
    <3>1. AppendsInOrder(w) /\ At(w, {"appending"}) /\ todo[w] # {} /\ size \in Nat
      BY <1>1, <1>3 DEF OrderInv, WritersInv, At, ServerTypeOK
    <3> QED
      BY <3>1, NextIsOldest
  <2>6. Ahead(w)' \subseteq Ahead(w) \ {NextSegment(w)}
        /\ Ahead(w)' \ todo'[w] \subseteq Ahead(w) \ todo[w]
    BY <1>1, <2>1, <2>3 DEF Ahead, Playlist
  <2>7. AppendsInOrder(w)'
    <3>1. \A i \in 2..Len(file') : \A s \in Ahead(w)' : file'[i].seg < s
      BY <2>2, <2>6
    <3>2. \A s \in todo'[w] : s <= live'
      BY <1>1, <2>3, <2>5 DEF AppendsInOrder
    <3>3. ASSUME At(w, {"appending"})'
          PROVE  \A s \in todo'[w] : \A t \in Ahead(w)' \ todo'[w] : s < t
      <4>1. size # 0
        BY <2>3, <2>4, <2>5, <3>3 DEF AppendsInOrder, At
      <4> QED
        BY <2>3, <2>5, <2>6, <4>1 DEF AppendsInOrder
    <3>4. ~At(w, {"listed"})' /\ size' # 0
      BY <2>1, <2>3, <2>5 DEF At
    <3> QED
      BY <3>1, <3>2, <3>3, <3>4 DEF AppendsInOrder
  <2>8. ASSUME NEW v \in Writers, Current(v)' PROVE AppendsInOrder(v)'
    <3>1. CASE v = w
      BY <2>7, <3>1
    <3>2. CASE v # w
      <4>1. writer'[v] = "free"
        BY <1>1, <1>3, <2>3, <2>8, <3>2, OneWriter DEF Current
      <4>2. todo'[v] = {}
        BY <2>3, <3>2, <4>1 DEF OrderInv, At
      <4> QED
        BY <4>1, <4>2 DEF AppendsInOrder, At
    <3> QED
      BY <3>1, <3>2
  <2>9. \A v \in Writers : ~At(v, {"listed", "appending"})' => todo'[v] = {}
    BY <2>3, <2>4 DEF OrderInv, At
  <2> QED
    BY <1>1, <2>2, <2>8, <2>9 DEF OrderInv, OrderedAfterFirst
<1> QED
  BY <1>2, <1>3

\* What a dying writer leaves of a segment is beyond what it has appended.
LEMMA WriterDiesOrder ==
  ASSUME ServerTypeOK, WritersInv, FileInv, OrderInv, NEW w \in Writers, WriterDies(w)
  PROVE  OrderInv'
<1>1. UNCHANGED <<generation, started, size, known, live>>
  BY DEF WriterDies, streamVars
<1>2. /\ writer'[w] = "free" /\ todo'[w] = {}
      /\ \A v \in Writers \ {w} :
           writer'[v] = writer[v] /\ wgen'[v] = wgen[v] /\ todo'[v] = todo[v]
  BY DEF WriterDies, ServerTypeOK
<1>3. \A v \in Writers : ~At(v, {"listed", "appending"})' => todo'[v] = {}
  BY <1>2 DEF OrderInv, At
<1>4. AppendsInOrder(w)'
  BY <1>2 DEF AppendsInOrder, At
<1>5. CASE file' = file
  <2>1. ASSUME NEW v \in Writers, Current(v)' PROVE AppendsInOrder(v)'
    BY <1>1, <1>2, <1>4, <1>5, <2>1, OrderOfOthers DEF OrderInv
  <2> QED
    BY <1>1, <1>3, <1>5, <2>1 DEF OrderInv, OrderedAfterFirst
<1>6. CASE writer[w] = "appending" /\ Current(w) /\ file' = FileWith(w)
  <2>1. /\ \A i, j \in 2..Len(file') : i < j => file'[i].seg < file'[j].seg
        /\ \A i \in 1..Len(file') : file'[i].seg <= live
    BY <1>6, AppendedOrder
  <2>2. ASSUME NEW v \in Writers, Current(v)' PROVE AppendsInOrder(v)'
    <3>1. CASE v = w
      BY <1>4, <3>1
    <3>2. CASE v # w
      <4>1. writer'[v] = "free"
        BY <1>1, <1>2, <1>6, <2>2, <3>2, OneWriter DEF Current
      <4> QED
        BY <1>3, <4>1 DEF AppendsInOrder, At
    <3> QED
      BY <3>1, <3>2
  <2> QED
    BY <1>1, <1>3, <2>1, <2>2 DEF OrderInv, OrderedAfterFirst
<1> QED
  BY <1>5, <1>6 DEF WriterDies

LEMMA OrderStep ==
  ASSUME ServerTypeOK, WritersInv, FileInv, OrderInv, [ServerNext]_serverVars
  PROVE  OrderInv'
<1>1. ASSUME NEW p \in Threads, ResetStream(p) \/ Remove(p) PROVE OrderInv'
  <2>1. CASE Remove(p)
    BY <2>1, EmptyOrder DEF Remove, streamVars, writerVars
  <2> QED
    BY <1>1, <2>1, ResetOrder
<1>2. ASSUME NEW r \in Requests, Receive(r) \/ RequestStep(r) \/ ClientStep(r) PROVE OrderInv'
  <2>1. CASE Begin(r) \/ Restart(r)
    BY <2>1, StartOrder DEF Begin, Restart
  <2>2. CASE ResetStream(r) \/ Remove(r)
    BY <1>1, <2>2 DEF Threads
  <2>3. CASE \/ Receive(r) \/ WithoutBody(r) \/ Locate(r) \/ CheckIdle(r)
             \/ AcquireReader(r) \/ HasData(r) \/ NoData(r) \/ SendHeaders(r)
             \/ ReadAt(r) \/ EndStream(r) \/ ClientReads(r) \/ ClientEnds(r)
    <3>1. UNCHANGED <<generation, started, size, known, file, live, writer, wgen, todo>>
      BY <2>3 DEF Receive, WithoutBody, Locate, CheckIdle, AcquireReader, HasData, NoData,
                  SendHeaders, ReadAt, EndStream, ClientReads, ClientEnds, streamVars,
                writerVars
    <3> QED
      BY <3>1, QuietOrder
  <2> QED
    BY <1>2, <2>1, <2>2, <2>3 DEF RequestStep, ClientStep
<1>3. ASSUME NEW w \in Writers, WriterStep(w) PROVE OrderInv'
  <2>1. CASE Truncate(w)
    <3>1. \A v \in Writers : \/ writer'[v] = writer[v]
                             \/ writer[v] = "starting" /\ writer'[v] = "polling"
      BY <2>1 DEF Truncate, ServerTypeOK
    <3> QED
      BY <2>1, <3>1, EmptyOrder DEF Truncate, streamVars
  <2>2. CASE SkipSegment(w)
    BY <2>2, LeaveOrder DEF SkipSegment, streamVars
  <2> QED
    BY <1>3, <2>1, <2>2, PollOrder, PickOrder, AppendOrder, WriterDiesOrder DEF WriterStep
<1>4. CASE StopServing \/ UNCHANGED serverVars
  BY <1>4, QuietOrder DEF StopServing, serverVars, streamVars, writerVars
<1> QED
  BY <1>1, <1>2, <1>3, <1>4, CaptureOrder DEF ServerNext, Threads

-----------------------------------------------------------------------------
(* The theorems.                                                           *)

LEMMA InitHolds ==
  ASSUME ServerInit
  PROVE  IInv
<1>1. ServerTypeOK
  <2>1. request_at \in [Threads -> Places]
    BY DEF ServerInit, Places
  <2>2. /\ generation \in Nat /\ size \in Nat /\ readers \in Nat
        /\ live \in 0..MaxSegments
    BY ProgressiveAssumption DEF ServerInit, ProgressiveAssumption
  <2>3. started \in BOOLEAN /\ seek \in [Requests -> BOOLEAN]
    BY DEF ServerInit
  <2>4. known \subseteq 1..MaxSegments /\ file \in Seq(Segments)
    BY DEF ServerInit
  <2>5. /\ offset \in [Requests -> Nat]
        /\ writer \in [Writers -> WriterStates]
        /\ wgen \in [Writers -> Nat]
        /\ todo \in [Writers -> SUBSET (1..MaxSegments)]
    BY DEF ServerInit, WriterStates
  <2> QED
    BY <2>1, <2>2, <2>3, <2>4, <2>5 DEF ServerTypeOK
<1>2. WritersInv
  BY DEF ServerInit, WritersInv, At
<1>3. FileInv
  <2>1. 1..Len(file) = {} /\ size = 0 /\ started = FALSE
    BY DEF ServerInit
  <2> QED
    BY <2>1 DEF FileInv, Current, ServedIsCurrent, EachSegmentOnce
<1>4. ReadersInv
  <2>1. Holding = {}
    <3>1. \A r \in Requests : request_at[r] = "idle"
      BY ProgressiveAssumption DEF ServerInit, Threads, ProgressiveAssumption
    <3> QED
      BY <3>1 DEF Holding
  <2>2. IsFiniteSet({}) /\ Cardinality({}) = 0
    BY FS_EmptySet
  <2>3. readers = 0
    BY DEF ServerInit
  <2> QED
    BY <2>1, <2>2, <2>3 DEF ReadersInv, ReadersExplained
<1>5. OrderInv
  <2>1. /\ 1..Len(file) = {} /\ 2..Len(file) = {} /\ started = FALSE
        /\ \A w \in Writers : todo[w] = {}
    BY DEF ServerInit
  <2> QED
    BY <2>1 DEF OrderInv, OrderedAfterFirst, Current
<1> QED
  BY <1>1, <1>2, <1>3, <1>4, <1>5 DEF IInv

LEMMA StepHolds ==
  ASSUME IInv, [ServerNext]_serverVars
  PROVE  IInv'
<1> USE DEF IInv
<1>1. ServerTypeOK' /\ OrderInv'
  BY TypeStep, OrderStep
<1>2. CASE \E r \in Requests : Receive(r) \/ RequestStep(r) \/ ClientStep(r)
  <2>1. PICK r \in Requests : Receive(r) \/ RequestStep(r) \/ ClientStep(r)
    BY <1>2
  <2> QED
    BY <1>1, <2>1, RequestKeepsFile, RequestKeepsReaders
<1>3. CASE \E w \in Writers : WriterStep(w)
  <2>1. PICK w \in Writers : WriterStep(w)
    BY <1>3
  <2>2. UNCHANGED <<request_at, readers>>
    BY <2>1 DEF WriterStep, Truncate, Poll, Pick, AppendSegment, SkipSegment, WriterDies,
                streamVars, requestVars
  <2>3. ReadersInv'
    BY <2>2 DEF ReadersInv, ReadersExplained, Holding
  <2> QED
    BY <1>1, <2>1, <2>3, WriterKeepsFile
<1>4. CASE ResetStream(MainThread) \/ Remove(MainThread)
  <2>1. WritersInv' /\ FileInv'
    BY <1>4, ResetStep, RemoveStep DEF Threads
  <2>2. Holding' = Holding
    <3>1. \A r \in Requests : request_at'[r] = request_at[r]
      BY <1>4, ProgressiveAssumption
         DEF ResetStream, Remove, RequestGoes, ServerTypeOK, Threads, ProgressiveAssumption
    <3> QED
      BY <3>1 DEF Holding
  <2>3. readers' = readers \/ readers' = 0
    BY <1>4 DEF ResetStream, Remove, streamVars
  <2>4. ReadersInv'
    BY <2>2, <2>3, HoldingSize, FS_CardinalityType DEF ReadersInv, ReadersExplained
  <2> QED
    BY <1>1, <2>1, <2>4
<1>5. CASE Capture \/ StopServing \/ UNCHANGED serverVars
  <2>1. UNCHANGED <<generation, started, size, readers, known, file, writer, wgen, todo>>
    BY <1>5 DEF Capture, StopServing, serverVars, streamVars, writerVars
  <2>2. \A r \in Requests : request_at'[r] = request_at[r]
    <3>1. CASE StopServing
      BY <3>1, ProgressiveAssumption
         DEF StopServing, RequestGoes, ServerTypeOK, Threads, ProgressiveAssumption
    <3> QED
      BY <1>5, <3>1 DEF Capture, serverVars, requestVars
  <2>3. ReadersInv'
    BY <2>1, <2>2 DEF ReadersInv, ReadersExplained, Holding
  <2> QED
    BY <1>1, <2>1, <2>3, QuietStep
<1> QED
  BY <1>2, <1>3, <1>4, <1>5 DEF ServerNext

\* Every step of the requests, of the writers of all generations, of the
\* capture and of the server's stop preserves the inductive invariant.
THEOREM InductiveInvariant == ServerSpec => []IInv
<1>1. ServerInit => IInv
  BY InitHolds
<1>2. IInv /\ [ServerNext]_serverVars => IInv'
  BY StepHolds
<1> QED
  BY <1>1, <1>2, PTL DEF ServerSpec

\* The counters stay natural numbers although requests release readers that a
\* reset() has forgotten, and the file holds segments of the capture only.
THEOREM TypeCorrect == ServerSpec => []ServerTypeOK
<1>1. IInv => ServerTypeOK
  BY DEF IInv
<1> QED
  BY <1>1, InductiveInvariant, PTL

\* A request is given bytes of the current generation only, however many
\* writers of earlier generations are still running.
THEOREM OnlyCurrentServed == ServerSpec => []ServedIsCurrent
<1>1. IInv => ServedIsCurrent
  BY DEF IInv, FileInv
<1> QED
  BY <1>1, InductiveInvariant, PTL

\* The file never holds a segment twice.
THEOREM NoSegmentTwice == ServerSpec => []EachSegmentOnce
<1>1. IInv => EachSegmentOnce
  BY DEF IInv, FileInv
<1> QED
  BY <1>1, InductiveInvariant, PTL

\* Segments are in the capture's order, the first apart: the writer polls,
\* picks and appends while the capture writes and deletes segments, and other
\* threads empty the file.
THEOREM OrderKept == ServerSpec => []OrderedAfterFirst
<1>1. IInv => OrderedAfterFirst
  BY DEF IInv, OrderInv
<1> QED
  BY <1>1, InductiveInvariant, PTL

\* The count of readers never exceeds the requests that hold one.
THEOREM ReadersBounded == ServerSpec => []ReadersExplained
<1>1. IInv => ReadersExplained
  BY DEF IInv, ReadersInv
<1> QED
  BY <1>1, InductiveInvariant, PTL
=============================================================================
