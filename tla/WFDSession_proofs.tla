------------------------- MODULE WFDSession_proofs -------------------------
(***************************************************************************)
(* Theorems about WFDSession, for any number of Ctrl+C and whichever       *)
(* releases fail.                                                          *)
(***************************************************************************)
EXTENDS WFDSession, SequenceTheorems, TLAPS

\* The steps due for what is written down, as a set.
Due ==
  {"media", "dump", "rtsp", "disconnect"}
  \cup (IF "rtsp" \in opened THEN {"closeRTSP"} ELSE {})
  \cup (IF "uibc" \in opened THEN {"closeUIBC"} ELSE {})
  \cup (IF active_path THEN {"deactivate"} ELSE {})
  \cup (IF wpas_data_iface THEN {"wpas"} ELSE {})
  \cup (IF previous_go_intent THEN {"intent"} ELSE {})

TearingDown == pc \in {"between", "step", "done"}

\* The teardown works through the steps that are due and forgets none of them.
ControlInv ==
  /\ ToSet(todo) \subseteq Due
  /\ pc = "step" => todo # <<>> /\ Head(todo) \in attempted
  /\ pc = "done" => todo = <<>>
  /\ TearingDown => Due \subseteq attempted \cup ToSet(todo)
  /\ pc \in Setup \cup {"raised"} => todo = <<>>

\* A port is only written down as opened when it was not the user's.
PortsInv == \A p \in opened : fw[p] # "user"

\* What connect_via_wpa_supplicant took it gives back before it raises, or tried to;
\* when it returns, its DHCP server is one that the lease file leads to.
WpasInv ==
  /\ pc \in {"clear", "listen", "intent", "connect", "activate", "wFind", "wIntent"}
       => ~previous_intent
  /\ pc \in {"clear", "listen", "intent", "connect", "activate", "wFind", "wIntent",
             "wConnect", "wGroup", "wIP"} => ~dnsmasq
  /\ previous_intent /\ intent = "lowered" =>
       \/ pc \in {"wConnect", "wGroup", "wIP", "wRelease", "wRestore", "wRestoreRaise"}
       \/ "intent" \in lost
  /\ pc \in Setup \ {"wRestoreRaise"} => (dnsmasq => lease_file)
  /\ wpas_data_iface => (dnsmasq => lease_file) \/ "wpas" \in lost
  /\ wpas_data_iface => pc \in {"openRTSP", "openUIBC", "probe", "serve"} \cup (PCs \ Setup)

\* What is left is owed to a step that did not complete or has yet to come.
LeftInv ==
  TearingDown =>
    /\ link = "up" => "disconnect" \in lost \cup ToSet(todo)
    /\ intent = "lowered" /\ (previous_go_intent \/ previous_intent)
         => "intent" \in lost \cup ToSet(todo)
    /\ "rtsp" \in opened /\ fw["rtsp"] = "session" => "closeRTSP" \in lost \cup ToSet(todo)
    /\ "uibc" \in opened /\ fw["uibc"] = "session" => "closeUIBC" \in lost \cup ToSet(todo)
    /\ wpas_data_iface /\ (group \/ dnsmasq) => "wpas" \in lost \cup ToSet(todo)

\* The type invariant in parts.
ArgsOK ==
  /\ backend \in Backends
  /\ iwd \in BOOLEAN /\ firewall \in BOOLEAN /\ uibc \in BOOLEAN /\ go \in BOOLEAN
  /\ interrupts \in 0..MaxInterrupts
HostOK ==
  /\ link \in {"down", "up"}
  /\ group \in BOOLEAN /\ dnsmasq \in BOOLEAN /\ listening \in BOOLEAN
  /\ intent \in {"own", "lowered"}
  /\ lease_file \in BOOLEAN
FwOK == fw \in [Ports -> {"closed", "user", "session"}]
NotesOK ==
  /\ active_path \in BOOLEAN /\ previous_go_intent \in BOOLEAN
  /\ previous_intent \in BOOLEAN /\ wpas_data_iface \in BOOLEAN
  /\ opened \subseteq Ports
ControlOK ==
  /\ pc \in PCs
  /\ todo \in Seq(Steps)
  /\ attempted \subseteq Steps /\ lost \subseteq Steps

IInv == TypeOK /\ ControlInv /\ PortsInv /\ WpasInv /\ LeftInv

-----------------------------------------------------------------------------
(* Sequences of steps.                                                      *)

\* The range of a sequence is what its positions hold.
LEMMA InRange ==
  ASSUME NEW S, NEW s \in Seq(S)
  PROVE  /\ \A i \in 1..Len(s) : s[i] \in ToSet(s)
         /\ \A x \in ToSet(s) : \E i \in 1..Len(s) : x = s[i]
BY DEF ToSet

\* The range of two sequences put together.
LEMMA RangeOfConcat ==
  ASSUME NEW S, NEW s \in Seq(S), NEW t \in Seq(S)
  PROVE  s \o t \in Seq(S) /\ ToSet(s \o t) = ToSet(s) \cup ToSet(t)
<1>1. /\ s \o t \in Seq(S) /\ Len(s \o t) = Len(s) + Len(t)
      /\ \A i \in 1..(Len(s) + Len(t)) :
           (s \o t)[i] = IF i <= Len(s) THEN s[i] ELSE t[i - Len(s)]
  BY ConcatProperties
<1> DEFINE w == s \o t
<1> HIDE DEF w
<1>2. /\ w \in Seq(S) /\ Len(w) = Len(s) + Len(t)
      /\ \A i \in 1..(Len(s) + Len(t)) : w[i] = IF i <= Len(s) THEN s[i] ELSE t[i - Len(s)]
  BY <1>1 DEF w
<1>3. ToSet(w) \subseteq ToSet(s) \cup ToSet(t)
  <2>1. ASSUME NEW i \in 1..Len(w) PROVE w[i] \in ToSet(s) \cup ToSet(t)
    <3>1. CASE i <= Len(s)
      BY <1>2, <2>1, <3>1 DEF ToSet
    <3>2. CASE i > Len(s)
      <4>1. i - Len(s) \in 1..Len(t) /\ w[i] = t[i - Len(s)]
        BY <1>2, <2>1, <3>2
      <4> QED  BY <4>1 DEF ToSet
    <3> QED  BY <3>1, <3>2, <1>2
  <2> QED  BY <2>1, <1>2 DEF ToSet
<1>4. ToSet(s) \subseteq ToSet(w)
  <2>1. ASSUME NEW i \in 1..Len(s) PROVE i \in 1..Len(w) /\ w[i] = s[i]
    BY <1>2
  <2> QED  BY <2>1, <1>2 DEF ToSet
<1>5. ToSet(t) \subseteq ToSet(w)
  <2>1. ASSUME NEW i \in 1..Len(t) PROVE i + Len(s) \in 1..Len(w) /\ w[i + Len(s)] = t[i]
    <3>1. Len(s) \in Nat /\ Len(t) \in Nat
      OBVIOUS
    <3>2. i + Len(s) \in 1..(Len(s) + Len(t)) /\ ~(i + Len(s) <= Len(s))
      BY <3>1
    <3>3. (i + Len(s)) - Len(s) = i
      BY <3>1
    <3> QED  BY <1>2, <3>2, <3>3
  <2>2. ASSUME NEW x \in ToSet(t) PROVE x \in ToSet(w)
    <3>1. PICK i \in 1..Len(t) : x = t[i]
      BY InRange
    <3>2. w[i + Len(s)] \in ToSet(w)
      BY <2>1, <3>1, <1>2, InRange
    <3> QED  BY <2>1, <3>1, <3>2
  <2> QED  BY <2>2
<1> QED  BY <1>1, <1>3, <1>4, <1>5 DEF w

\* A step that is due on a condition.
LEMMA RangeOfIf ==
  ASSUME NEW c \in BOOLEAN, NEW s \in Steps
  PROVE  If(c, s) \in Seq(Steps) /\ ToSet(If(c, s)) = IF c THEN {s} ELSE {}
BY DEF If, ToSet

\* The step at hand and those after it.
LEMMA RangeOfTail ==
  ASSUME todo \in Seq(Steps), todo # <<>>
  PROVE  /\ Tail(todo) \in Seq(Steps) /\ Head(todo) \in Steps
         /\ ToSet(todo) = {Head(todo)} \cup ToSet(Tail(todo))
<1>1. /\ Tail(todo) \in Seq(Steps) /\ Head(todo) = todo[1] /\ todo[1] \in Steps
      /\ Len(todo) \in Nat \ {0}
      /\ Len(Tail(todo)) = Len(todo) - 1
      /\ \A k \in 1..Len(Tail(todo)) : Tail(todo)[k] = todo[k + 1]
  OBVIOUS
<1>2. ToSet(todo) \subseteq {todo[1]} \cup ToSet(Tail(todo))
  <2>1. ASSUME NEW i \in 1..Len(todo), i # 1
        PROVE  i - 1 \in 1..Len(Tail(todo)) /\ Tail(todo)[i - 1] = todo[i]
    BY <1>1, <2>1
  <2>2. ASSUME NEW x \in ToSet(todo) PROVE x \in {todo[1]} \cup ToSet(Tail(todo))
    <3>1. PICK i \in 1..Len(todo) : x = todo[i]
      BY InRange
    <3>2. CASE i # 1
      <4>1. Tail(todo)[i - 1] \in ToSet(Tail(todo))
        BY <2>1, <3>2, <1>1, InRange
      <4> QED  BY <2>1, <3>1, <3>2, <4>1
    <3> QED  BY <3>1, <3>2
  <2> QED  BY <2>2
<1>3. ToSet(Tail(todo)) \subseteq ToSet(todo)
  <2>1. ASSUME NEW i \in 1..Len(Tail(todo)) PROVE i + 1 \in 1..Len(todo)
    BY <1>1
  <2> QED  BY <2>1, <1>1 DEF ToSet
<1>4. todo[1] \in ToSet(todo)
  BY <1>1 DEF ToSet
<1> QED  BY <1>1, <1>2, <1>3, <1>4

\* Cleanup lists the steps that are due.
LEMMA RangeOfCleanup ==
  ASSUME TypeOK
  PROVE  Cleanup \in Seq(Steps) /\ ToSet(Cleanup) = Due
<1> DEFINE a == If("rtsp" \in opened, "closeRTSP")
           b == If("uibc" \in opened, "closeUIBC")
           c == If(active_path, "deactivate")
           d == If(wpas_data_iface, "wpas")
           e == If(previous_go_intent, "intent")
           m == <<"media", "dump", "rtsp">>
           n == <<"disconnect">>
<1>1. /\ a \in Seq(Steps) /\ ToSet(a) = (IF "rtsp" \in opened THEN {"closeRTSP"} ELSE {})
      /\ b \in Seq(Steps) /\ ToSet(b) = (IF "uibc" \in opened THEN {"closeUIBC"} ELSE {})
      /\ c \in Seq(Steps) /\ ToSet(c) = (IF active_path THEN {"deactivate"} ELSE {})
      /\ d \in Seq(Steps) /\ ToSet(d) = (IF wpas_data_iface THEN {"wpas"} ELSE {})
      /\ e \in Seq(Steps) /\ ToSet(e) = (IF previous_go_intent THEN {"intent"} ELSE {})
  <2>1. \A x \in {"closeRTSP", "closeUIBC", "deactivate", "wpas", "intent"} : x \in Steps
    BY DEF Steps
  <2>2. active_path \in BOOLEAN /\ wpas_data_iface \in BOOLEAN /\ previous_go_intent \in BOOLEAN
    BY DEF TypeOK
  <2>3. /\ "closeRTSP" \in Steps /\ "closeUIBC" \in Steps /\ "deactivate" \in Steps
        /\ "wpas" \in Steps /\ "intent" \in Steps
    BY <2>1
  <2>4. \A f \in BOOLEAN, x \in Steps :
          If(f, x) \in Seq(Steps) /\ ToSet(If(f, x)) = IF f THEN {x} ELSE {}
    BY RangeOfIf
  <2>5. ("rtsp" \in opened) \in BOOLEAN /\ ("uibc" \in opened) \in BOOLEAN
    OBVIOUS
  <2>6. a \in Seq(Steps) /\ ToSet(a) = (IF "rtsp" \in opened THEN {"closeRTSP"} ELSE {})
    BY <2>3, <2>4, <2>5
  <2>7. b \in Seq(Steps) /\ ToSet(b) = (IF "uibc" \in opened THEN {"closeUIBC"} ELSE {})
    BY <2>3, <2>4, <2>5
  <2>8. c \in Seq(Steps) /\ ToSet(c) = (IF active_path THEN {"deactivate"} ELSE {})
    BY <2>2, <2>3, <2>4
  <2>9. d \in Seq(Steps) /\ ToSet(d) = (IF wpas_data_iface THEN {"wpas"} ELSE {})
    BY <2>2, <2>3, <2>4
  <2>10. e \in Seq(Steps) /\ ToSet(e) = (IF previous_go_intent THEN {"intent"} ELSE {})
    BY <2>2, <2>3, <2>4
  <2> QED  BY <2>6, <2>7, <2>8, <2>9, <2>10
<1>2. /\ m \in Seq(Steps) /\ n \in Seq(Steps)
      /\ ToSet(n) = {"disconnect"}
  BY DEF Steps, ToSet
<1>3. ToSet(m) = {"media", "dump", "rtsp"}
  <2>1. DOMAIN m = 1..3 /\ m[1] = "media" /\ m[2] = "dump" /\ m[3] = "rtsp"
    OBVIOUS
  <2>2. \A i \in 1..3 : i = 1 \/ i = 2 \/ i = 3
    OBVIOUS
  <2> HIDE DEF m
  <2> QED  BY <2>1, <2>2 DEF ToSet
<1> DEFINE p == m \o a
           q == p \o b
           r == q \o c
           s == r \o d
           u == s \o n
<1>4. Cleanup = u \o e
  BY DEF Cleanup
<1> HIDE DEF a, b, c, d, e, m, n
<1>5. p \in Seq(Steps) /\ ToSet(p) = ToSet(m) \cup ToSet(a)
  BY <1>1, <1>2, RangeOfConcat
<1> HIDE DEF p
<1>6. q \in Seq(Steps) /\ ToSet(q) = ToSet(p) \cup ToSet(b)
  BY <1>1, <1>5, RangeOfConcat
<1> HIDE DEF q
<1>7. r \in Seq(Steps) /\ ToSet(r) = ToSet(q) \cup ToSet(c)
  BY <1>1, <1>6, RangeOfConcat
<1> HIDE DEF r
<1>8. s \in Seq(Steps) /\ ToSet(s) = ToSet(r) \cup ToSet(d)
  BY <1>1, <1>7, RangeOfConcat
<1> HIDE DEF s
<1>9. u \in Seq(Steps) /\ ToSet(u) = ToSet(s) \cup ToSet(n)
  BY <1>2, <1>8, RangeOfConcat
<1> HIDE DEF u
<1>10. u \o e \in Seq(Steps) /\ ToSet(u \o e) = ToSet(u) \cup ToSet(e)
  BY <1>1, <1>9, RangeOfConcat
<1>11. ToSet(Cleanup) = ToSet(m) \cup ToSet(a) \cup ToSet(b) \cup ToSet(c) \cup ToSet(d)
                        \cup ToSet(n) \cup ToSet(e)
  BY <1>4, <1>5, <1>6, <1>7, <1>8, <1>9, <1>10
<1> QED  BY <1>1, <1>2, <1>3, <1>4, <1>10, <1>11 DEF Due

-----------------------------------------------------------------------------
(* The steps preserve the invariant.                                        *)

\* The arguments stay what they are; Ctrl+C is counted up to its bound.
LEMMA TypeArgs == IInv /\ [Next]_vars => ArgsOK'
<1> SUFFICES ASSUME IInv, [Next]_vars PROVE ArgsOK'
  OBVIOUS
<1> USE SessionAssumption DEF IInv, TypeOK, ArgsOK, args, host, notes, record, Quietly,
            Ports, Setup, PCs, HandlerOf, AfterP2P
<1>1. CASE Clear \/ Listen \/ SetIntent \/ Connect \/ Activated
  BY <1>1 DEF Clear, Listen, SetIntent, Connect, Activated
<1>2. CASE PeerFound \/ SetWpasIntent \/ WpasConnect \/ GroupFormed
  BY <1>2 DEF PeerFound, SetWpasIntent, WpasConnect, GroupFormed
<1>3. CASE ConfigureIP \/ ReleaseIP
  BY <1>3 DEF ConfigureIP, ReleaseIP
<1>4. CASE RestoreIntent \/ WpasReturns
  BY <1>4 DEF RestoreIntent, WpasReturns
<1>5. CASE OpenPort("rtsp", "openRTSP", IF uibc THEN "openUIBC" ELSE "probe")
           \/ OpenPort("uibc", "openUIBC", "probe")
  BY <1>5 DEF OpenPort
<1>6. CASE StartProbe
  BY <1>6 DEF StartProbe
<1>7. CASE Fails
  BY <1>7 DEF Fails, MayHaveHappened, Raising
<1>8. CASE Interrupted
  BY <1>8 DEF Interrupted, MayHaveHappened
<1>9. CASE BeginTeardown
  BY <1>9 DEF BeginTeardown
<1>10. CASE BeginStep
  BY <1>10 DEF BeginStep
<1>11. CASE StepReturns
  BY <1>11 DEF StepReturns, EndStep, Released
<1>12. CASE StepFails
  BY <1>12 DEF StepFails, EndStep, PartlyReleased, Released
<1>13. CASE StepInterrupted
  BY <1>13 DEF StepInterrupted, EndStep, PartlyReleased, Released
<1>14. CASE TeardownInterrupted \/ Exit
  BY <1>14 DEF TeardownInterrupted, Exit
<1>15. CASE UNCHANGED vars
  BY <1>15 DEF vars
<1> QED  BY <1>1, <1>2, <1>3, <1>4, <1>5, <1>6, <1>7, <1>8, <1>9, <1>10, <1>11, <1>12,
            <1>13, <1>14, <1>15 DEF Next, SetupStep, Teardown

\* The state of the host keeps its type.
LEMMA TypeHost == IInv /\ [Next]_vars => HostOK'
<1> SUFFICES ASSUME IInv, [Next]_vars PROVE HostOK'
  OBVIOUS
<1> USE DEF IInv, TypeOK, HostOK, args, host, notes, record, Quietly, Ports, Setup, PCs,
            HandlerOf, AfterP2P
<1>1. CASE Clear \/ Listen \/ SetIntent \/ Connect \/ Activated
  BY <1>1 DEF Clear, Listen, SetIntent, Connect, Activated
<1>2. CASE PeerFound \/ SetWpasIntent \/ WpasConnect \/ GroupFormed
  BY <1>2 DEF PeerFound, SetWpasIntent, WpasConnect, GroupFormed
<1>3. CASE ConfigureIP \/ ReleaseIP
  BY <1>3 DEF ConfigureIP, ReleaseIP
<1>4. CASE RestoreIntent \/ WpasReturns
  BY <1>4 DEF RestoreIntent, WpasReturns
<1>5. CASE OpenPort("rtsp", "openRTSP", IF uibc THEN "openUIBC" ELSE "probe")
           \/ OpenPort("uibc", "openUIBC", "probe")
  BY <1>5 DEF OpenPort
<1>6. CASE StartProbe
  BY <1>6 DEF StartProbe
<1>7. CASE Fails
  BY <1>7 DEF Fails, MayHaveHappened, Raising
<1>8. CASE Interrupted
  BY <1>8 DEF Interrupted, MayHaveHappened
<1>9. CASE BeginTeardown
  BY <1>9 DEF BeginTeardown
<1>10. CASE BeginStep
  BY <1>10 DEF BeginStep
<1>11. CASE StepReturns
  BY <1>11 DEF StepReturns, EndStep, Released
<1>12. CASE StepFails
  BY <1>12 DEF StepFails, EndStep, PartlyReleased, Released
<1>13. CASE StepInterrupted
  BY <1>13 DEF StepInterrupted, EndStep, PartlyReleased, Released
<1>14. CASE TeardownInterrupted \/ Exit
  BY <1>14 DEF TeardownInterrupted, Exit
<1>15. CASE UNCHANGED vars
  BY <1>15 DEF vars
<1> QED  BY <1>1, <1>2, <1>3, <1>4, <1>5, <1>6, <1>7, <1>8, <1>9, <1>10, <1>11, <1>12,
            <1>13, <1>14, <1>15 DEF Next, SetupStep, Teardown

\* A port is closed, the user's or the session's.
LEMMA TypeFw == IInv /\ [Next]_vars => FwOK'
<1> SUFFICES ASSUME IInv, [Next]_vars PROVE FwOK'
  OBVIOUS
<1> USE DEF IInv, TypeOK, FwOK, args, host, notes, record, Quietly, Ports, Setup, PCs,
            HandlerOf, AfterP2P
<1>1. CASE Clear \/ Listen \/ SetIntent \/ Connect \/ Activated
  BY <1>1 DEF Clear, Listen, SetIntent, Connect, Activated
<1>2. CASE PeerFound \/ SetWpasIntent \/ WpasConnect \/ GroupFormed
  BY <1>2 DEF PeerFound, SetWpasIntent, WpasConnect, GroupFormed
<1>3. CASE ConfigureIP \/ ReleaseIP
  BY <1>3 DEF ConfigureIP, ReleaseIP
<1>4. CASE RestoreIntent \/ WpasReturns
  BY <1>4 DEF RestoreIntent, WpasReturns
<1>5. CASE OpenPort("rtsp", "openRTSP", IF uibc THEN "openUIBC" ELSE "probe")
           \/ OpenPort("uibc", "openUIBC", "probe")
  BY <1>5 DEF OpenPort
<1>6. CASE StartProbe
  BY <1>6 DEF StartProbe
<1>7. CASE Fails \/ Interrupted
  BY <1>7 DEF Fails, MayHaveHappened, Raising, Interrupted
<1>8. CASE BeginTeardown
  BY <1>8 DEF BeginTeardown
<1>9. CASE BeginStep
  BY <1>9 DEF BeginStep
<1>10. CASE StepReturns
  BY <1>10 DEF StepReturns, EndStep, Released
<1>11. CASE StepFails
  BY <1>11 DEF StepFails, EndStep, PartlyReleased, Released
<1>12. CASE StepInterrupted
  BY <1>12 DEF StepInterrupted, EndStep, PartlyReleased, Released
<1>13. CASE TeardownInterrupted \/ Exit
  BY <1>13 DEF TeardownInterrupted, Exit
<1>14. CASE UNCHANGED vars
  BY <1>14 DEF vars
<1> QED  BY <1>1, <1>2, <1>3, <1>4, <1>5, <1>6, <1>7, <1>8, <1>9, <1>10, <1>11, <1>12,
            <1>13, <1>14 DEF Next, SetupStep, Teardown

\* What is written down keeps its type.
LEMMA TypeNotes == IInv /\ [Next]_vars => NotesOK'
<1> SUFFICES ASSUME IInv, [Next]_vars PROVE NotesOK'
  OBVIOUS
<1> USE DEF IInv, TypeOK, NotesOK, args, host, notes, record, Quietly, Ports, Setup, PCs,
            HandlerOf, AfterP2P
<1>1. CASE Clear \/ Listen \/ SetIntent \/ Connect \/ Activated
  BY <1>1 DEF Clear, Listen, SetIntent, Connect, Activated
<1>2. CASE PeerFound \/ SetWpasIntent \/ WpasConnect \/ GroupFormed
  BY <1>2 DEF PeerFound, SetWpasIntent, WpasConnect, GroupFormed
<1>3. CASE ConfigureIP \/ ReleaseIP
  BY <1>3 DEF ConfigureIP, ReleaseIP
<1>4. CASE RestoreIntent \/ WpasReturns
  BY <1>4 DEF RestoreIntent, WpasReturns
<1>5. CASE OpenPort("rtsp", "openRTSP", IF uibc THEN "openUIBC" ELSE "probe")
           \/ OpenPort("uibc", "openUIBC", "probe")
  BY <1>5 DEF OpenPort
<1>6. CASE StartProbe
  BY <1>6 DEF StartProbe
<1>7. CASE Fails \/ Interrupted
  BY <1>7 DEF Fails, MayHaveHappened, Raising, Interrupted
<1>8. CASE BeginTeardown
  BY <1>8 DEF BeginTeardown
<1>9. CASE BeginStep
  BY <1>9 DEF BeginStep
<1>10. CASE StepReturns
  BY <1>10 DEF StepReturns, EndStep, Released
<1>11. CASE StepFails
  BY <1>11 DEF StepFails, EndStep, PartlyReleased, Released
<1>12. CASE StepInterrupted
  BY <1>12 DEF StepInterrupted, EndStep, PartlyReleased, Released
<1>13. CASE TeardownInterrupted \/ Exit
  BY <1>13 DEF TeardownInterrupted, Exit
<1>14. CASE UNCHANGED vars
  BY <1>14 DEF vars
<1> QED  BY <1>1, <1>2, <1>3, <1>4, <1>5, <1>6, <1>7, <1>8, <1>9, <1>10, <1>11, <1>12,
            <1>13, <1>14 DEF Next, SetupStep, Teardown

\* The program counter and the steps left keep their type.
LEMMA TypeControl == IInv /\ [Next]_vars => ControlOK'
<1> SUFFICES ASSUME IInv, [Next]_vars PROVE ControlOK'
  OBVIOUS
<1> USE DEF IInv, ControlInv, ControlOK, Steps, args, host, notes, record, Quietly, Ports,
            Setup, PCs, HandlerOf, AfterP2P
<1>a. /\ todo \in Seq(Steps) /\ opened \subseteq Ports
      /\ fw \in [Ports -> {"closed", "user", "session"}]
  BY DEF TypeOK
<1> USE <1>a
<1>b. ControlOK
  BY DEF TypeOK, ControlOK
<1> USE <1>b
<1>1. CASE Clear \/ Listen \/ SetIntent \/ Connect \/ Activated
  BY <1>1 DEF Clear, Listen, SetIntent, Connect, Activated
<1>2. CASE PeerFound \/ SetWpasIntent \/ WpasConnect \/ GroupFormed
  BY <1>2 DEF PeerFound, SetWpasIntent, WpasConnect, GroupFormed
<1>3. CASE ConfigureIP \/ ReleaseIP
  BY <1>3 DEF ConfigureIP, ReleaseIP
<1>4. CASE RestoreIntent \/ WpasReturns
  BY <1>4 DEF RestoreIntent, WpasReturns
<1>5. CASE OpenPort("rtsp", "openRTSP", IF uibc THEN "openUIBC" ELSE "probe")
           \/ OpenPort("uibc", "openUIBC", "probe")
  BY <1>5 DEF OpenPort
<1>6. CASE StartProbe
  BY <1>6 DEF StartProbe
<1>7. CASE Fails \/ Interrupted
  BY <1>7 DEF Fails, MayHaveHappened, Raising, Interrupted
<1>8. CASE BeginTeardown
  BY <1>8, RangeOfCleanup DEF BeginTeardown
<1>9. CASE BeginStep
  BY <1>9, RangeOfTail DEF BeginStep
<1>10. CASE StepReturns
  BY <1>10, RangeOfTail DEF StepReturns, EndStep, Released
<1>11. CASE StepFails
  BY <1>11, RangeOfTail DEF StepFails, EndStep, PartlyReleased, Released
<1>12. CASE StepInterrupted
  BY <1>12, RangeOfTail DEF StepInterrupted, EndStep, PartlyReleased, Released
<1>13. CASE TeardownInterrupted \/ Exit
  BY <1>13 DEF TeardownInterrupted, Exit
<1>14. CASE UNCHANGED vars
  BY <1>14 DEF vars
<1> QED  BY <1>1, <1>2, <1>3, <1>4, <1>5, <1>6, <1>7, <1>8, <1>9, <1>10, <1>11, <1>12,
            <1>13, <1>14 DEF Next, SetupStep, Teardown

\* The teardown begins every step that is due.
LEMMA ControlStep == IInv /\ [Next]_vars => ControlInv'
<1> SUFFICES ASSUME IInv, [Next]_vars PROVE ControlInv'
  OBVIOUS
<1> USE DEF IInv, ControlInv, TearingDown, Due, args, host, notes, record, Quietly, Ports,
            Setup, PCs, HandlerOf, AfterP2P
<1>a. /\ todo \in Seq(Steps) /\ opened \subseteq Ports
      /\ fw \in [Ports -> {"closed", "user", "session"}]
  BY DEF TypeOK
<1> USE <1>a
<1>1. CASE Clear \/ Listen \/ Connect \/ Activated
  BY <1>1 DEF Clear, Listen, Connect, Activated
<1>2. CASE SetIntent
  <2>1. ToSet(todo) = {} /\ UNCHANGED todo /\ pc' = "connect"
    BY <1>2 DEF SetIntent, ToSet
  <2>2. ToSet(todo') = {} /\ todo' = <<>>
    BY <1>2, <2>1 DEF SetIntent
  <2> HIDE DEF Due
  <2> QED  BY <2>1, <2>2
<1>3. CASE PeerFound
  BY <1>3 DEF PeerFound
<1>4. CASE SetWpasIntent
  BY <1>4 DEF SetWpasIntent
<1>5. CASE WpasConnect
  BY <1>5 DEF WpasConnect
<1>6. CASE GroupFormed
  BY <1>6 DEF GroupFormed
<1>7. CASE ConfigureIP
  BY <1>7 DEF ConfigureIP
<1>8. CASE ReleaseIP
  BY <1>8 DEF ReleaseIP
<1>9. CASE RestoreIntent \/ WpasReturns
  BY <1>9 DEF RestoreIntent, WpasReturns
<1>10. CASE OpenPort("rtsp", "openRTSP", IF uibc THEN "openUIBC" ELSE "probe")
            \/ OpenPort("uibc", "openUIBC", "probe")
  BY <1>10 DEF OpenPort
<1>11. CASE StartProbe
  BY <1>11 DEF StartProbe
<1>12. CASE Fails
  BY <1>12 DEF Fails, MayHaveHappened, Raising
<1>13. CASE Interrupted
  BY <1>13 DEF Interrupted, MayHaveHappened
<1>14. CASE BeginTeardown
  BY <1>14, RangeOfCleanup DEF BeginTeardown
<1>15. CASE BeginStep
  BY <1>15, RangeOfTail DEF BeginStep
<1>16. CASE StepReturns
  BY <1>16, RangeOfTail DEF StepReturns, EndStep, Released
<1>17. CASE StepFails
  BY <1>17, RangeOfTail DEF StepFails, EndStep, PartlyReleased, Released
<1>18. CASE StepInterrupted
  BY <1>18, RangeOfTail DEF StepInterrupted, EndStep, PartlyReleased, Released
<1>19. CASE TeardownInterrupted \/ Exit
  BY <1>19 DEF TeardownInterrupted, Exit
<1>20. CASE UNCHANGED vars
  BY <1>20 DEF vars
<1> QED  BY <1>1, <1>2, <1>3, <1>4, <1>5, <1>6, <1>7, <1>8, <1>9, <1>10, <1>11, <1>12,
            <1>13, <1>14, <1>15, <1>16, <1>17, <1>18, <1>19, <1>20 DEF Next, SetupStep,
            Teardown

\* A port is closed only by its step, which is due only if the session opened it.
LEMMA PortsStep == IInv /\ [Next]_vars => PortsInv'
<1> SUFFICES ASSUME IInv, [Next]_vars PROVE PortsInv'
  OBVIOUS
<1> USE DEF IInv, PortsInv, ControlInv, Due, args, host, notes, record, Quietly, Ports,
            Setup, PCs, HandlerOf, AfterP2P
<1>a. /\ todo \in Seq(Steps) /\ opened \subseteq Ports
      /\ fw \in [Ports -> {"closed", "user", "session"}]
  BY DEF TypeOK
<1> USE <1>a
<1>1. CASE Clear \/ Listen \/ SetIntent \/ Connect \/ Activated
  BY <1>1 DEF Clear, Listen, SetIntent, Connect, Activated
<1>2. CASE PeerFound \/ SetWpasIntent \/ WpasConnect \/ GroupFormed
  BY <1>2 DEF PeerFound, SetWpasIntent, WpasConnect, GroupFormed
<1>3. CASE ConfigureIP \/ ReleaseIP
  BY <1>3 DEF ConfigureIP, ReleaseIP
<1>4. CASE RestoreIntent \/ WpasReturns
  BY <1>4 DEF RestoreIntent, WpasReturns
<1>5. CASE OpenPort("rtsp", "openRTSP", IF uibc THEN "openUIBC" ELSE "probe")
           \/ OpenPort("uibc", "openUIBC", "probe")
  BY <1>5 DEF OpenPort
<1>6. CASE StartProbe
  BY <1>6 DEF StartProbe
<1>7. CASE Fails \/ Interrupted
  BY <1>7 DEF Fails, MayHaveHappened, Raising, Interrupted
<1>8. CASE BeginTeardown
  BY <1>8, RangeOfCleanup DEF BeginTeardown
<1>9. CASE BeginStep
  BY <1>9, RangeOfTail DEF BeginStep
<1>10. CASE StepReturns
  BY <1>10, RangeOfTail DEF StepReturns, EndStep, Released
<1>11. CASE StepFails
  <2>1. /\ Head(todo) \in Steps /\ ToSet(todo) = {Head(todo)} \cup ToSet(todo')
        /\ lost' = lost \cup {Head(todo)}
    BY <1>11, RangeOfTail DEF StepFails, EndStep
  <2>2. CASE Released(Head(todo))
    BY <1>11, <2>1, <2>2 DEF StepFails, EndStep, Released
  <2>3. CASE UNCHANGED <<host, lease_file>>
    BY <1>11, <2>1, <2>3 DEF StepFails, EndStep
  <2>4. CASE /\ Head(todo) = "wpas" /\ lease_file
              /\ dnsmasq' \in {FALSE, dnsmasq} /\ lease_file' = FALSE
              /\ UNCHANGED <<link, group, intent, fw, listening>>
    BY <1>11, <2>1, <2>4 DEF StepFails, EndStep
  <2> QED  BY <1>11, <2>2, <2>3, <2>4 DEF StepFails, PartlyReleased
<1>12. CASE StepInterrupted
  <2>1. /\ Head(todo) \in Steps /\ ToSet(todo) = {Head(todo)} \cup ToSet(todo')
        /\ lost' = lost \cup {Head(todo)}
    BY <1>12, RangeOfTail DEF StepInterrupted, EndStep
  <2>2. CASE Released(Head(todo))
    BY <1>12, <2>1, <2>2 DEF StepInterrupted, EndStep, Released
  <2>3. CASE UNCHANGED <<host, lease_file>>
    BY <1>12, <2>1, <2>3 DEF StepInterrupted, EndStep
  <2>4. CASE /\ Head(todo) = "wpas" /\ lease_file
              /\ dnsmasq' \in {FALSE, dnsmasq} /\ lease_file' = FALSE
              /\ UNCHANGED <<link, group, intent, fw, listening>>
    BY <1>12, <2>1, <2>4 DEF StepInterrupted, EndStep
  <2> QED  BY <1>12, <2>2, <2>3, <2>4 DEF StepInterrupted, PartlyReleased
<1>13. CASE TeardownInterrupted \/ Exit
  BY <1>13 DEF TeardownInterrupted, Exit
<1>14. CASE UNCHANGED vars
  BY <1>14 DEF vars
<1> QED  BY <1>1, <1>2, <1>3, <1>4, <1>5, <1>6, <1>7, <1>8, <1>9, <1>10, <1>11, <1>12,
            <1>13, <1>14 DEF Next, SetupStep, Teardown

\* connect_via_wpa_supplicant restores the GO intent on every way out.
LEMMA WpasStep == IInv /\ [Next]_vars => WpasInv'
<1> SUFFICES ASSUME IInv, [Next]_vars PROVE WpasInv'
  OBVIOUS
<1> USE DEF IInv, WpasInv, ControlInv, args, host, notes, record, Quietly, Ports, Setup,
            PCs, HandlerOf, AfterP2P
<1>a. /\ todo \in Seq(Steps) /\ opened \subseteq Ports
      /\ fw \in [Ports -> {"closed", "user", "session"}]
  BY DEF TypeOK
<1> USE <1>a
<1>1. CASE Clear
  BY <1>1 DEF Clear
<1>2. CASE Listen
  BY <1>2 DEF Listen
<1>3. CASE SetIntent
  BY <1>3 DEF SetIntent
<1>4. CASE Connect
  BY <1>4 DEF Connect
<1>5. CASE Activated
  BY <1>5 DEF Activated
<1>6. CASE PeerFound
  BY <1>6 DEF PeerFound
<1>7. CASE SetWpasIntent
  BY <1>7 DEF SetWpasIntent
<1>8. CASE WpasConnect
  BY <1>8 DEF WpasConnect
<1>9. CASE GroupFormed
  BY <1>9 DEF GroupFormed
<1>10. CASE ConfigureIP
  BY <1>10 DEF ConfigureIP
<1>11. CASE ReleaseIP
  BY <1>11 DEF ReleaseIP
<1>12. CASE RestoreIntent \/ WpasReturns
  BY <1>12 DEF RestoreIntent, WpasReturns
<1>13. CASE OpenPort("rtsp", "openRTSP", IF uibc THEN "openUIBC" ELSE "probe")
            \/ OpenPort("uibc", "openUIBC", "probe")
  BY <1>13 DEF OpenPort
<1>14. CASE StartProbe
  BY <1>14 DEF StartProbe
<1>15. CASE Fails
  <2>1. /\ UNCHANGED <<previous_intent, wpas_data_iface, lost>>
        /\ intent' = intent \/ pc \in {"intent", "wIntent", "wRestore", "wRestoreRaise"}
    BY <1>15 DEF Fails, MayHaveHappened
  <2>2. CASE pc = "wIP"
    BY <1>15, <2>1, <2>2 DEF Fails, MayHaveHappened
  <2>3. CASE pc \in {"wConnect", "wGroup"}
    BY <1>15, <2>1, <2>3 DEF Fails, MayHaveHappened
  <2>4. CASE pc \in {"listen", "connect", "activate", "wFind"}
    BY <1>15, <2>1, <2>4 DEF Fails, MayHaveHappened
  <2> QED  BY <1>15, <2>2, <2>3, <2>4 DEF Fails, Raising
<1>16. CASE Interrupted
  BY <1>16 DEF Interrupted, MayHaveHappened
<1>17. CASE BeginTeardown
  BY <1>17, RangeOfCleanup DEF BeginTeardown
<1>18. CASE BeginStep
  BY <1>18, RangeOfTail DEF BeginStep
<1>19. CASE StepReturns
  BY <1>19, RangeOfTail DEF StepReturns, EndStep, Released
<1>20. CASE StepFails
  <2>1. /\ Head(todo) \in Steps /\ ToSet(todo) = {Head(todo)} \cup ToSet(todo')
        /\ lost' = lost \cup {Head(todo)}
    BY <1>20, RangeOfTail DEF StepFails, EndStep
  <2>2. CASE Released(Head(todo))
    BY <1>20, <2>1, <2>2 DEF StepFails, EndStep, Released
  <2>3. CASE UNCHANGED <<host, lease_file>>
    BY <1>20, <2>1, <2>3 DEF StepFails, EndStep
  <2>4. CASE /\ Head(todo) = "wpas" /\ lease_file
              /\ dnsmasq' \in {FALSE, dnsmasq} /\ lease_file' = FALSE
              /\ UNCHANGED <<link, group, intent, fw, listening>>
    BY <1>20, <2>1, <2>4 DEF StepFails, EndStep
  <2> QED  BY <1>20, <2>2, <2>3, <2>4 DEF StepFails, PartlyReleased
<1>21. CASE StepInterrupted
  <2>1. /\ Head(todo) \in Steps /\ ToSet(todo) = {Head(todo)} \cup ToSet(todo')
        /\ lost' = lost \cup {Head(todo)}
    BY <1>21, RangeOfTail DEF StepInterrupted, EndStep
  <2>2. CASE Released(Head(todo))
    BY <1>21, <2>1, <2>2 DEF StepInterrupted, EndStep, Released
  <2>3. CASE UNCHANGED <<host, lease_file>>
    BY <1>21, <2>1, <2>3 DEF StepInterrupted, EndStep
  <2>4. CASE /\ Head(todo) = "wpas" /\ lease_file
              /\ dnsmasq' \in {FALSE, dnsmasq} /\ lease_file' = FALSE
              /\ UNCHANGED <<link, group, intent, fw, listening>>
    BY <1>21, <2>1, <2>4 DEF StepInterrupted, EndStep
  <2> QED  BY <1>21, <2>2, <2>3, <2>4 DEF StepInterrupted, PartlyReleased
<1>22. CASE TeardownInterrupted \/ Exit
  BY <1>22 DEF TeardownInterrupted, Exit
<1>23. CASE UNCHANGED vars
  BY <1>23 DEF vars
<1> QED  BY <1>1, <1>2, <1>3, <1>4, <1>5, <1>6, <1>7, <1>8, <1>9, <1>10, <1>11, <1>12,
            <1>13, <1>14, <1>15, <1>16, <1>17, <1>18, <1>19, <1>20, <1>21, <1>22, <1>23
            DEF Next, SetupStep, Teardown

\* A step takes back what it is for, or is noted as lost.
LEMMA LeftStep == IInv /\ [Next]_vars => LeftInv'
<1> SUFFICES ASSUME IInv, [Next]_vars PROVE LeftInv'
  OBVIOUS
<1> USE DEF IInv, WpasInv, ControlInv, LeftInv, TearingDown, Due, args, host, notes,
            record, Quietly, Ports, Setup, PCs, HandlerOf, AfterP2P
<1>a. /\ todo \in Seq(Steps) /\ opened \subseteq Ports
      /\ fw \in [Ports -> {"closed", "user", "session"}]
  BY DEF TypeOK
<1> USE <1>a
<1>1. CASE Clear \/ Listen \/ SetIntent \/ Connect \/ Activated
  BY <1>1 DEF Clear, Listen, SetIntent, Connect, Activated
<1>2. CASE PeerFound \/ SetWpasIntent \/ WpasConnect \/ GroupFormed
  BY <1>2 DEF PeerFound, SetWpasIntent, WpasConnect, GroupFormed
<1>3. CASE ConfigureIP \/ ReleaseIP
  BY <1>3 DEF ConfigureIP, ReleaseIP
<1>4. CASE RestoreIntent \/ WpasReturns
  BY <1>4 DEF RestoreIntent, WpasReturns
<1>5. CASE OpenPort("rtsp", "openRTSP", IF uibc THEN "openUIBC" ELSE "probe")
           \/ OpenPort("uibc", "openUIBC", "probe")
  BY <1>5 DEF OpenPort
<1>6. CASE StartProbe
  BY <1>6 DEF StartProbe
<1>7. CASE Fails \/ Interrupted
  BY <1>7 DEF Fails, MayHaveHappened, Raising, Interrupted
<1>8. CASE BeginTeardown
  BY <1>8, RangeOfCleanup DEF BeginTeardown
<1>9. CASE BeginStep
  BY <1>9, RangeOfTail DEF BeginStep
<1>10. CASE StepReturns
  <2>1. /\ Head(todo) \in Steps /\ ToSet(todo) = {Head(todo)} \cup ToSet(todo')
        /\ UNCHANGED <<lost, active_path, previous_go_intent, previous_intent, wpas_data_iface,
                       opened>>
    BY <1>10, RangeOfTail DEF StepReturns, EndStep
  <2>2. (link = "up" => "disconnect" \in lost \cup ToSet(todo))'
    BY <1>10, <2>1 DEF StepReturns, EndStep, Released
  <2>3. (intent = "lowered" /\ (previous_go_intent \/ previous_intent)
           => "intent" \in lost \cup ToSet(todo))'
    BY <1>10, <2>1 DEF StepReturns, EndStep, Released
  <2>4. ("rtsp" \in opened /\ fw["rtsp"] = "session"
           => "closeRTSP" \in lost \cup ToSet(todo))'
    BY <1>10, <2>1 DEF StepReturns, EndStep, Released
  <2>5. ("uibc" \in opened /\ fw["uibc"] = "session"
           => "closeUIBC" \in lost \cup ToSet(todo))'
    BY <1>10, <2>1 DEF StepReturns, EndStep, Released
  <2>6. (wpas_data_iface /\ (group \/ dnsmasq) => "wpas" \in lost \cup ToSet(todo))'
    <3>1. CASE Head(todo) = "wpas"
      <4>1. ~group' /\ (dnsmasq' => dnsmasq /\ ~lease_file)
        BY <1>10, <3>1 DEF StepReturns, Released
      <4> QED  BY <2>1, <4>1
    <3>2. CASE Head(todo) # "wpas"
      <4>1. (group' => group) /\ (dnsmasq' => dnsmasq)
        BY <1>10 DEF StepReturns, Released
      <4> QED  BY <2>1, <3>2, <4>1, <1>10 DEF StepReturns, EndStep
    <3> QED  BY <3>1, <3>2
  <2> QED  BY <2>2, <2>3, <2>4, <2>5, <2>6
<1>11. CASE StepFails
  <2>1. /\ Head(todo) \in Steps /\ ToSet(todo) = {Head(todo)} \cup ToSet(todo')
        /\ lost' = lost \cup {Head(todo)}
    BY <1>11, RangeOfTail DEF StepFails, EndStep
  <2>2. CASE Released(Head(todo))
    BY <1>11, <2>1, <2>2 DEF StepFails, EndStep, Released
  <2>3. CASE UNCHANGED <<host, lease_file>>
    BY <1>11, <2>1, <2>3 DEF StepFails, EndStep
  <2>4. CASE /\ Head(todo) = "wpas" /\ lease_file
              /\ dnsmasq' \in {FALSE, dnsmasq} /\ lease_file' = FALSE
              /\ UNCHANGED <<link, group, intent, fw, listening>>
    BY <1>11, <2>1, <2>4 DEF StepFails, EndStep
  <2> QED  BY <1>11, <2>2, <2>3, <2>4 DEF StepFails, PartlyReleased
<1>12. CASE StepInterrupted
  <2>1. /\ Head(todo) \in Steps /\ ToSet(todo) = {Head(todo)} \cup ToSet(todo')
        /\ lost' = lost \cup {Head(todo)}
    BY <1>12, RangeOfTail DEF StepInterrupted, EndStep
  <2>2. CASE Released(Head(todo))
    BY <1>12, <2>1, <2>2 DEF StepInterrupted, EndStep, Released
  <2>3. CASE UNCHANGED <<host, lease_file>>
    BY <1>12, <2>1, <2>3 DEF StepInterrupted, EndStep
  <2>4. CASE /\ Head(todo) = "wpas" /\ lease_file
              /\ dnsmasq' \in {FALSE, dnsmasq} /\ lease_file' = FALSE
              /\ UNCHANGED <<link, group, intent, fw, listening>>
    BY <1>12, <2>1, <2>4 DEF StepInterrupted, EndStep
  <2> QED  BY <1>12, <2>2, <2>3, <2>4 DEF StepInterrupted, PartlyReleased
<1>13. CASE TeardownInterrupted \/ Exit
  BY <1>13 DEF TeardownInterrupted, Exit
<1>14. CASE UNCHANGED vars
  BY <1>14 DEF vars
<1> QED  BY <1>1, <1>2, <1>3, <1>4, <1>5, <1>6, <1>7, <1>8, <1>9, <1>10, <1>11, <1>12,
            <1>13, <1>14 DEF Next, SetupStep, Teardown

\* The parts of the type invariant together.
LEMMA TypeStep == IInv /\ [Next]_vars => TypeOK'
BY TypeArgs, TypeHost, TypeFw, TypeNotes, TypeControl
   DEF TypeOK, ArgsOK, HostOK, FwOK, NotesOK, ControlOK

-----------------------------------------------------------------------------
\* Nothing is due before anything has happened.
LEMMA InitInv == Init => IInv
<1> SUFFICES ASSUME Init PROVE IInv
  OBVIOUS
<1> USE DEF Init
<1>1. TypeOK
  <2>1. interrupts \in 0..MaxInterrupts
    BY SessionAssumption
  <2>2. todo \in Seq(Steps)
    OBVIOUS
  <2> QED  BY <2>1, <2>2 DEF TypeOK, PCs, Setup, Ports
<1>2. ControlInv
  BY DEF ControlInv, TearingDown, ToSet
<1>3. PortsInv /\ WpasInv /\ LeftInv
  BY DEF PortsInv, WpasInv, LeftInv, TearingDown, PCs, Setup
<1> QED  BY <1>1, <1>2, <1>3 DEF IInv

\* The invariant is inductive.
LEMMA IInvAlways == Spec => []IInv
<1>1. IInv /\ [Next]_vars => IInv'
  BY TypeStep, ControlStep, PortsStep, WpasStep, LeftStep DEF IInv
<1> QED  BY <1>1, InitInv, PTL DEF Spec

-----------------------------------------------------------------------------
\* Every variable keeps its type, for any number of Ctrl+C.
THEOREM TypeOKHolds == Spec => []TypeOK
<1>1. IInv => TypeOK
  BY DEF IInv
<1> QED  BY <1>1, IInvAlways, PTL

\* A teardown that reaches its end has begun every step that was due, whichever of
\* them failed or were interrupted (_cleanup_step).
THEOREM StepsAllBegunHolds == Spec => []StepsAllBegun
<1>1. IInv => StepsAllBegun
  <2> SUFFICES ASSUME IInv, pc = "done" PROVE ToSet(Cleanup) \subseteq attempted
    BY DEF StepsAllBegun
  <2>1. ToSet(Cleanup) = Due
    BY RangeOfCleanup DEF IInv
  <2>2. ToSet(todo) = {}
    BY DEF IInv, ControlInv, ToSet
  <2> QED  BY <2>1, <2>2 DEF IInv, ControlInv, TearingDown
<1> QED  BY <1>1, IInvAlways, PTL

\* What such a teardown leaves on the host is owed to the step that should have taken
\* it back and did not complete, or was never written down.
THEOREM LeftoversExplainedHolds == Spec => []LeftoversExplained
<1>1. IInv => LeftoversExplained
  <2> SUFFICES ASSUME IInv, pc = "done" PROVE LeftoversExplained
    BY DEF LeftoversExplained
  <2>1. ToSet(todo) = {}
    BY DEF IInv, ControlInv, ToSet
  <2> QED  BY <2>1 DEF IInv, LeftInv, TearingDown, LeftoversExplained
<1> QED  BY <1>1, IInvAlways, PTL

\* A firewall port the user had open is never closed (_open_wfd_firewall_port).
THEOREM UserPortsKeptHolds == Spec => UserPortsKept
<1>1. IInv /\ [Next]_vars => [\A p \in Ports : fw[p] = "user" => fw'[p] = "user"]_vars
  <2> SUFFICES ASSUME IInv, Next, NEW p \in Ports, fw[p] = "user" PROVE fw'[p] = "user"
    OBVIOUS
  <2>1. /\ fw \in [Ports -> {"closed", "user", "session"}] /\ todo \in Seq(Steps)
        /\ p \notin opened
    BY DEF IInv, TypeOK, PortsInv
  <2>2. CASE fw' = fw
    BY <2>2
  <2>3. ASSUME NEW q \in Ports, fw[q] = "closed", NEW to,
               fw' = [fw EXCEPT ![q] = to]
        PROVE  fw'[p] = "user"
    BY <2>1, <2>3
  <2>4. CASE Fails \/ Interrupted
    BY <2>2, <2>3, <2>4 DEF Fails, Interrupted, MayHaveHappened
  <2>5. CASE OpenPort("rtsp", "openRTSP", IF uibc THEN "openUIBC" ELSE "probe")
             \/ OpenPort("uibc", "openUIBC", "probe")
    BY <2>2, <2>3, <2>5 DEF OpenPort, Ports
  <2>6. CASE StepReturns \/ StepFails \/ StepInterrupted
    <3>1. todo # <<>> /\ Head(todo) \in Due
      BY <2>1, <2>6, RangeOfTail
         DEF IInv, ControlInv, StepReturns, StepFails, StepInterrupted, EndStep
    <3>2. (fw' = fw) \/ Released(Head(todo))
      BY <2>6 DEF StepReturns, StepFails, StepInterrupted, PartlyReleased, host
    <3>3. CASE Released(Head(todo))
      BY <2>1, <3>1, <3>3 DEF Released, Due, Ports
    <3> QED  BY <2>2, <3>2, <3>3
  <2>7. fw' = fw \/ Fails \/ Interrupted \/ StepReturns \/ StepFails \/ StepInterrupted
        \/ OpenPort("rtsp", "openRTSP", IF uibc THEN "openUIBC" ELSE "probe")
        \/ OpenPort("uibc", "openUIBC", "probe")
    BY DEF Next, SetupStep, Teardown, Clear, Listen, SetIntent, Connect, Activated, PeerFound,
           SetWpasIntent, WpasConnect, GroupFormed, ConfigureIP, ReleaseIP, RestoreIntent,
           WpasReturns, StartProbe, BeginTeardown, BeginStep, TeardownInterrupted, Exit, host
  <2> QED  BY <2>2, <2>4, <2>5, <2>6, <2>7
<1> QED  BY <1>1, IInvAlways, PTL DEF Spec, UserPortsKept

\* A teardown that reaches its end is complete, and the user's ports stay open.
THEOREM TeardownCompleteHolds == Spec => TeardownComplete
<1> QED
  BY StepsAllBegunHolds, LeftoversExplainedHolds, UserPortsKeptHolds, PTL DEF TeardownComplete
=============================================================================
