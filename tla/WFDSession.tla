----------------------------- MODULE WFDSession -----------------------------
(***************************************************************************)
(* What a session leaves on the machine.  start_experimental_backend       *)
(* (wfd/session.py, from its try statement on) changes the host in steps:  *)
(* it lowers wpa_supplicant's GO intent, activates a Wi-Fi Direct link or  *)
(* forms a group (wfd/p2p/nm.py, wpas.py, wpas_ip.py, device.py), opens    *)
(* firewall ports (wfd/firewall.py), and takes all of it back in ordered   *)
(* cleanup steps.  Every call can fail, with or without having taken       *)
(* effect, and Ctrl+C (also sent by the tray and by a revoked portal       *)
(* capture) can arrive anywhere, more than once.                           *)
(***************************************************************************)
EXTENDS Integers, Sequences, SequencesExt

CONSTANTS Backends,       \* the P2P backends in use: "nm", "wpas"
          MaxInterrupts,  \* bound: how often Ctrl+C is pressed
          ReleasesFail    \* whether a call that takes something back may fail

Ports == {"rtsp", "uibc"}

ASSUME SessionAssumption ==
  /\ Backends \subseteq {"nm", "wpas"}
  /\ MaxInterrupts \in Nat
  /\ ReleasesFail \in BOOLEAN

VARIABLES
  \* the session's arguments
  backend, iwd, firewall, uibc, go,
  \* the host: the NetworkManager link, the wpa_supplicant group, the DHCP
  \* server, the GO intent, the firewall, the RTSP listener
  link, group, dnsmasq, intent, fw, listening,
  \* what the program has written down
  active_path, previous_go_intent, previous_intent, wpas_data_iface,
  lease_file, opened,
  \* control: program counter, cleanup steps left, Ctrl+C so far; and, for
  \* the properties, the steps begun and those that did not complete
  pc, todo, interrupts, attempted, lost

args   == <<backend, iwd, firewall, uibc, go>>
host   == <<link, group, dnsmasq, intent, fw, listening>>
notes  == <<active_path, previous_go_intent, previous_intent, wpas_data_iface,
            lease_file, opened>>
record == <<todo, attempted, lost>>
vars == <<backend, iwd, firewall, uibc, go, link, group, dnsmasq, intent, fw, listening,
          active_path, previous_go_intent, previous_intent, wpas_data_iface, lease_file,
          opened, pc, todo, interrupts, attempted, lost>>

\* Calls before the session serves, in the order of the code.  Those with a
\* w belong to connect_via_wpa_supplicant.
Setup == {"clear", "listen", "intent", "connect", "activate",
          "wFind", "wIntent", "wConnect", "wGroup", "wIP", "wRelease",
          "wRestore", "wRestoreRaise", "wReturn",
          "openRTSP", "openUIBC", "probe", "serve"}
PCs == Setup \cup {"raised", "between", "step", "done", "aborted"}

Steps == {"media", "dump", "rtsp", "closeRTSP", "closeUIBC", "deactivate",
          "wpas", "disconnect", "intent"}

Init ==
  /\ backend \in Backends
  /\ iwd \in BOOLEAN /\ firewall \in BOOLEAN /\ uibc \in BOOLEAN /\ go \in BOOLEAN
  /\ link \in {"down", "up"}             \* an earlier run may have left it up
  /\ group = FALSE /\ dnsmasq = FALSE /\ intent = "own" /\ listening = FALSE
  /\ fw \in [Ports -> {"closed", "user"}]
  /\ active_path = FALSE /\ previous_go_intent = FALSE /\ previous_intent = FALSE
  /\ wpas_data_iface = FALSE /\ lease_file = FALSE /\ opened = {}
  /\ pc = "clear" /\ todo = <<>> /\ interrupts = 0
  /\ attempted = {} /\ lost = {}

-----------------------------------------------------------------------------
(* Exceptions.                                                             *)

\* What the call at pc may have changed on the host when it raises or is
\* interrupted, before anything is written down about it.
MayHaveHappened ==
  /\ link' \in CASE pc = "clear" -> {link, "down"}
                 [] pc = "connect" -> {link, "up"}
                 [] OTHER -> {link}
  /\ intent' \in CASE pc \in {"intent", "wIntent"} -> {intent, "lowered"}
                   [] pc \in {"wRestore", "wRestoreRaise"} /\ previous_intent -> {intent, "own"}
                   [] OTHER -> {intent}
  /\ group' \in IF pc \in {"wConnect", "wGroup"} THEN {group, TRUE} ELSE {group}
  /\ lease_file' \in IF pc = "wIP" /\ go THEN BOOLEAN ELSE {lease_file}
  /\ dnsmasq' \in CASE pc = "wIP" -> {dnsmasq, lease_file'}
                    [] pc = "wRelease" /\ lease_file -> {FALSE, dnsmasq}
                    [] OTHER -> {dnsmasq}
  /\ \E p \in Ports, to \in {"closed", "session"} :
       fw' = IF pc = (IF p = "rtsp" THEN "openRTSP" ELSE "openUIBC") /\ fw[p] = "closed"
             THEN [fw EXCEPT ![p] = to] ELSE fw
  /\ listening' \in IF pc = "listen" THEN BOOLEAN ELSE {listening}
  /\ UNCHANGED <<active_path, previous_go_intent, previous_intent, wpas_data_iface, opened>>

\* Where an exception of the call at pc is handled: connect_via_wpa_supplicant
\* restores the GO intent on its way out once it knows what to restore.
HandlerOf(where) ==
  IF where \in {"wConnect", "wGroup", "wIP", "wRelease"} /\ previous_intent
  THEN "wRestoreRaise" ELSE "raised"

\* The calls that let an exception out.
Raising == {"listen", "connect", "activate", "wFind", "wConnect", "wGroup", "wIP"}

\* An exception other than KeyboardInterrupt.  configure_ip's is caught to
\* release the IP configuration first.
Fails ==
  /\ pc \in Raising
  /\ MayHaveHappened
  /\ pc' = IF pc = "wIP" THEN "wRelease" ELSE HandlerOf(pc)
  /\ UNCHANGED <<args, interrupts, record>>

\* Ctrl+C: no except clause on the way but the last one catches it.
Interrupted ==
  /\ pc \in Setup /\ interrupts < MaxInterrupts
  /\ interrupts' = interrupts + 1
  /\ MayHaveHappened
  /\ pc' = HandlerOf(pc)
  /\ lost' = IF pc \in {"wRestore", "wRestoreRaise"} THEN lost \cup {"intent"} ELSE lost
  /\ UNCHANGED <<args, todo, attempted>>

-----------------------------------------------------------------------------
(* Setup, each call when it returns.                                       *)

Quietly == UNCHANGED <<args, interrupts, record>>

\* _disconnect_device; an exception is ignored.
Clear ==
  /\ pc = "clear" /\ pc' = "listen"
  /\ link' \in {"down", link}
  /\ UNCHANGED <<group, dnsmasq, intent, fw, listening, notes>> /\ Quietly

Listen ==
  /\ pc = "listen"
  /\ listening' = TRUE
  /\ pc' = CASE backend = "wpas" -> "wFind"
             [] backend = "nm" /\ iwd -> "connect"
             [] OTHER -> "intent"
  /\ UNCHANGED <<link, group, dnsmasq, intent, fw, notes>> /\ Quietly

\* _set_p2p_go_intent returns the value to restore only if it could read it
\* and the call that lowered it reported success.
SetIntent ==
  /\ pc = "intent" /\ pc' = "connect"
  /\ intent' \in {"own", "lowered"}
  /\ previous_go_intent' \in IF intent' = "lowered" THEN BOOLEAN ELSE {FALSE}
  /\ UNCHANGED <<link, group, dnsmasq, fw, listening, active_path, previous_intent,
                 wpas_data_iface, lease_file, opened>> /\ Quietly

Connect ==
  /\ pc = "connect" /\ pc' = "activate"
  /\ link' = "up" /\ active_path' = TRUE
  /\ UNCHANGED <<group, dnsmasq, intent, fw, listening, previous_go_intent,
                 previous_intent, wpas_data_iface, lease_file, opened>> /\ Quietly

AfterP2P == IF firewall THEN "openRTSP" ELSE "probe"

Activated ==
  /\ pc = "activate" /\ pc' = AfterP2P
  /\ UNCHANGED <<host, notes>> /\ Quietly

PeerFound ==
  /\ pc = "wFind" /\ pc' = "wIntent"
  /\ UNCHANGED <<host, notes>> /\ Quietly

SetWpasIntent ==
  /\ pc = "wIntent" /\ pc' = "wConnect"
  /\ intent' \in {"own", "lowered"}
  /\ previous_intent' \in IF intent' = "lowered" THEN BOOLEAN ELSE {FALSE}
  /\ UNCHANGED <<link, group, dnsmasq, fw, listening, active_path, previous_go_intent,
                 wpas_data_iface, lease_file, opened>> /\ Quietly

WpasConnect ==
  /\ pc = "wConnect" /\ pc' = "wGroup"
  /\ UNCHANGED <<host, notes>> /\ Quietly

GroupFormed ==
  /\ pc = "wGroup" /\ pc' = "wIP"
  /\ group' = TRUE
  /\ UNCHANGED <<link, dnsmasq, intent, fw, listening, notes>> /\ Quietly

\* configure_ip: as group owner, the source serves DHCP itself.
ConfigureIP ==
  /\ pc = "wIP" /\ pc' = "wRestore"
  /\ lease_file' = go /\ dnsmasq' = go
  /\ UNCHANGED <<link, group, intent, fw, listening, active_path, previous_go_intent,
                 previous_intent, wpas_data_iface, opened>> /\ Quietly

\* release_ip_config in configure_ip's exception handler.
ReleaseIP ==
  /\ pc = "wRelease" /\ pc' = HandlerOf(pc)
  /\ dnsmasq' \in IF ~lease_file THEN {dnsmasq} ELSE {FALSE} \cup (IF ReleasesFail THEN {dnsmasq} ELSE {})
  /\ lease_file' = FALSE
  /\ UNCHANGED <<link, group, intent, fw, listening, active_path, previous_go_intent,
                 previous_intent, wpas_data_iface, opened>> /\ Quietly

\* The finally clause of connect_via_wpa_supplicant.
RestoreIntent ==
  /\ pc \in {"wRestore", "wRestoreRaise"}
  /\ pc' = IF pc = "wRestore" THEN "wReturn" ELSE "raised"
  /\ \/ intent' = (IF previous_intent THEN "own" ELSE intent) /\ UNCHANGED lost
     \/ ReleasesFail /\ UNCHANGED intent /\ lost' = lost \cup {"intent"}
  /\ UNCHANGED <<args, link, group, dnsmasq, fw, listening, notes, interrupts, todo,
                 attempted>>

WpasReturns ==
  /\ pc = "wReturn" /\ pc' = AfterP2P
  /\ wpas_data_iface' = TRUE
  /\ UNCHANGED <<host, active_path, previous_go_intent, previous_intent, lease_file,
                 opened>> /\ Quietly

\* _open_wfd_firewall_port: a port that is open already is left alone; a
\* refusal leaves it closed; a timeout may leave it open, not written down.
OpenPort(p, here, next) ==
  /\ pc = here /\ pc' = next
  /\ \/ fw[p] = "closed" /\ fw' = [fw EXCEPT ![p] = "session"] /\ opened' = opened \cup {p}
     \/ fw[p] = "closed" /\ fw' = [fw EXCEPT ![p] = "session"] /\ UNCHANGED opened
     \/ UNCHANGED <<fw, opened>>
  /\ UNCHANGED <<link, group, dnsmasq, intent, listening, active_path,
                 previous_go_intent, previous_intent, wpas_data_iface, lease_file>>
  /\ Quietly

StartProbe ==
  /\ pc = "probe" /\ pc' = "serve"
  /\ UNCHANGED <<host, notes>> /\ Quietly

SetupStep == \/ Clear \/ Listen \/ SetIntent \/ Connect \/ Activated
             \/ PeerFound \/ SetWpasIntent \/ WpasConnect \/ GroupFormed
             \/ ConfigureIP \/ ReleaseIP \/ RestoreIntent \/ WpasReturns
             \/ OpenPort("rtsp", "openRTSP", IF uibc THEN "openUIBC" ELSE "probe")
             \/ OpenPort("uibc", "openUIBC", "probe")
             \/ StartProbe

-----------------------------------------------------------------------------
(* The finally clause.                                                     *)

If(condition, step) == IF condition THEN <<step>> ELSE <<>>

\* The cleanup steps, in order, for what has been written down.
Cleanup ==
  <<"media", "dump", "rtsp">>
  \o If("rtsp" \in opened, "closeRTSP")
  \o If("uibc" \in opened, "closeUIBC")
  \o If(active_path, "deactivate")
  \o If(wpas_data_iface, "wpas")
  \o <<"disconnect">>
  \o If(previous_go_intent, "intent")

\* Another Ctrl+C in the except clause's print changes nothing: the finally
\* clause is entered all the same.
BeginTeardown ==
  /\ pc = "raised" /\ pc' = "between"
  /\ todo' = Cleanup
  /\ UNCHANGED <<args, host, notes, interrupts, attempted, lost>>

\* What a step that returns has done.
Released(step) ==
  /\ link' = IF step \in {"deactivate", "disconnect"} THEN "down" ELSE link
  /\ fw' = CASE step = "closeRTSP" -> [fw EXCEPT !["rtsp"] = "closed"]
             [] step = "closeUIBC" -> [fw EXCEPT !["uibc"] = "closed"]
             [] OTHER -> fw
  /\ intent' = IF step = "intent" THEN "own" ELSE intent
  /\ group' = (group /\ step # "wpas")
  /\ dnsmasq' = (dnsmasq /\ ~(step = "wpas" /\ lease_file))
  /\ lease_file' = (lease_file /\ step # "wpas")
  /\ listening' = (listening /\ step # "rtsp")

\* What a step may have done that failed or was interrupted.
PartlyReleased(step) ==
  \/ Released(step)
  \/ UNCHANGED <<host, lease_file>>
  \/ /\ step = "wpas" /\ lease_file
     /\ dnsmasq' \in {FALSE, dnsmasq} /\ lease_file' = FALSE
     /\ UNCHANGED <<link, group, intent, fw, listening>>

BeginStep ==
  /\ pc = "between" /\ todo # <<>> /\ pc' = "step"
  /\ attempted' = attempted \cup {Head(todo)}
  /\ UNCHANGED <<args, host, notes, todo, interrupts, lost>>

EndStep == /\ pc = "step" /\ pc' = "between"
           /\ todo' = Tail(todo)
           /\ UNCHANGED <<args, active_path, previous_go_intent, previous_intent,
                          wpas_data_iface, opened, attempted>>

StepReturns ==
  /\ EndStep
  /\ Released(Head(todo))
  /\ UNCHANGED <<interrupts, lost>>

\* _cleanup_step reports what the step raises, Ctrl+C included.
StepFails ==
  /\ EndStep /\ ReleasesFail
  /\ PartlyReleased(Head(todo))
  /\ lost' = lost \cup {Head(todo)}
  /\ UNCHANGED interrupts

StepInterruptedSkips == \* mutant: only Exception is caught
  /\ pc = "step" /\ interrupts < MaxInterrupts
  /\ PartlyReleased(Head(todo))
  /\ lost' = lost \cup {Head(todo)}
  /\ interrupts' = interrupts + 1
  /\ todo' = <<>> /\ pc' = "between"
  /\ UNCHANGED <<args, active_path, previous_go_intent, previous_intent,
                 wpas_data_iface, opened, attempted>>

StepInterrupted ==
  /\ EndStep /\ interrupts < MaxInterrupts
  /\ PartlyReleased(Head(todo))
  /\ lost' = lost \cup {Head(todo)}
  /\ interrupts' = interrupts + 1

\* Between two steps nothing catches Ctrl+C: the rest is skipped.
TeardownInterrupted ==
  /\ pc = "between" /\ interrupts < MaxInterrupts
  /\ interrupts' = interrupts + 1
  /\ pc' = "aborted" /\ listening' = FALSE
  /\ UNCHANGED <<args, link, group, dnsmasq, intent, fw, notes, record>>

\* The process ends; its sockets are closed.
Exit ==
  /\ pc = "between" /\ todo = <<>> /\ pc' = "done"
  /\ listening' = FALSE
  /\ UNCHANGED <<args, link, group, dnsmasq, intent, fw, notes, interrupts, record>>

Teardown == \/ BeginTeardown \/ BeginStep
            \/ StepReturns \/ StepFails \/ StepInterrupted
            \/ TeardownInterrupted \/ Exit

Next == SetupStep \/ Fails \/ Interrupted \/ Teardown

Spec == Init /\ [][Next]_vars

-----------------------------------------------------------------------------
(* Properties.                                                             *)

TypeOK ==
  /\ backend \in Backends
  /\ iwd \in BOOLEAN /\ firewall \in BOOLEAN /\ uibc \in BOOLEAN /\ go \in BOOLEAN
  /\ link \in {"down", "up"}
  /\ group \in BOOLEAN /\ dnsmasq \in BOOLEAN /\ listening \in BOOLEAN
  /\ intent \in {"own", "lowered"}
  /\ fw \in [Ports -> {"closed", "user", "session"}]
  /\ active_path \in BOOLEAN /\ previous_go_intent \in BOOLEAN
  /\ previous_intent \in BOOLEAN /\ wpas_data_iface \in BOOLEAN /\ lease_file \in BOOLEAN
  /\ opened \subseteq Ports
  /\ pc \in PCs
  /\ todo \in Seq(Steps)
  /\ interrupts \in 0..MaxInterrupts
  /\ attempted \subseteq Steps /\ lost \subseteq Steps

\* A firewall port the user had open before the session is never closed.
UserPortsKept == [][\A p \in Ports : fw[p] = "user" => fw'[p] = "user"]_vars

\* A teardown that reaches its end has begun every step that is due for
\* what was written down, whichever steps failed or were interrupted.
StepsAllBegun == pc = "done" => ToSet(Cleanup) \subseteq attempted

\* What is left on the host after such a teardown is owed to the step that
\* should have taken it back and did not complete, or was never written
\* down.  The NetworkManager link is taken down even when the session never
\* learned the path of its activation.
LeftoversExplained ==
  pc = "done" =>
    /\ link = "up" => "disconnect" \in lost
    /\ intent = "lowered" /\ (previous_go_intent \/ previous_intent) => "intent" \in lost
    /\ "rtsp" \in opened /\ fw["rtsp"] = "session" => "closeRTSP" \in lost
    /\ "uibc" \in opened /\ fw["uibc"] = "session" => "closeUIBC" \in lost
    /\ wpas_data_iface /\ (group \/ dnsmasq) => "wpas" \in lost

\* A teardown that reaches its end is complete, and does no more than it should: no
\* failure or Ctrl+C in one step keeps a later one from its turn, what stays behind
\* belongs to a step that had its turn and was lost, and the user's ports stay open.
TeardownComplete == [](StepsAllBegun /\ LeftoversExplained) /\ UserPortsKept

\* wpas.py:243: connect_via_wpa_supplicant cleans up after itself when it
\* does not return; no DHCP server is left behind.
NoDnsmasqLeft == pc \in {"done", "aborted"} => ~dnsmasq

\* wpas.py:243, of the group the failed call has formed.
NoGroupLeft == pc \in {"done", "aborted"} => ~group
=============================================================================
