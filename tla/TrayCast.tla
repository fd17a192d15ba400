------------------------------ MODULE TrayCast ------------------------------
(***************************************************************************)
(* The tray (ui/tray.py): the GTK thread runs the menu handlers and the    *)
(* idle callback that rebuilds icon and menu; a thread per cast waits for  *)
(* its process; a thread per scan looks for devices or monitors.  All of   *)
(* them ask for the menu to be rebuilt, and the request is coalesced.      *)
(* Casts and scans are numbered.  Of the three kinds of devices one is     *)
(* kept: a scan looks for it or for monitors.  A device to click on is     *)
(* taken as found, and of a cast command only the monitor is kept.  The    *)
(* update of the menu that pystray makes itself after a click is left out. *)
(***************************************************************************)
EXTENDS Integers, Sequences, FiniteSets

CONSTANTS Screens,    \* lists of monitors a scan may return
          Preferred,  \* monitors the configuration may name
          MaxCasts,   \* bound: casts started
          MaxScans,   \* bound: scans started
          MaxPicks,   \* bound: choices of a monitor
          Unheard     \* bound: casts of which a notification may raise

VARIABLES pc, proc, target, alive, pending, idle, icon, shown,
          unasked,    \* a notification raised, and no rebuild has begun since
          scanning,   \* the kinds of scan whose flag is set
          kind,       \* what each scan under way looks for
          monitors, selected, launch, pick, exited

NoCast == 0
Gtk == <<"gtk", 0>>
Watch(p) == <<"watch", p>>
Scan(n) == <<"scan", n>>
Casts == 1..MaxCasts
Kinds == {"monitors", "devices"}
NoKind == "none"
Actors == {Gtk} \cup {Watch(p) : p \in Casts} \cup {Scan(n) : n \in 1..MaxScans}

procVars == <<proc, target, alive>>
menuVars == <<pending, idle, icon, shown, unasked>>
scanVars == <<scanning, kind, monitors>>
userVars == <<selected, launch, pick, exited>>
trayVars == <<pc, procVars, menuVars, scanVars, userVars>>

Moves(a, from, to) == ~exited /\ pc[a] = from /\ pc' = [pc EXCEPT ![a] = to]

_cast_state == proc # NoCast /\ proc \in alive

\* The monitor a cast would take: the index is clamped to the list there is.
\* mutant: the index counts from one
ChosenNext == IF monitors = <<>> THEN NoCast
              ELSE monitors[IF selected + 1 < Len(monitors) THEN selected + 1 ELSE Len(monitors)]
Chosen == IF monitors = <<>> THEN NoCast
          ELSE monitors[IF selected < Len(monitors) THEN selected ELSE Len(monitors)]

\* What the menu is built from.
_build_menu == [casting |-> _cast_state, monitor |-> Chosen, monitors |-> monitors,
                scanning |-> scanning]

TrayInit ==
  /\ pc = [a \in Actors |-> IF a = Gtk THEN "loop" ELSE "none"]
  /\ proc = NoCast /\ target = NoCast /\ alive = {}
  /\ pending = FALSE /\ idle = 0 /\ icon = FALSE /\ unasked = FALSE
  /\ scanning = {} /\ kind = [n \in 1..MaxScans |-> NoKind]
  /\ monitors = <<>> /\ selected = 1
  /\ launch = [monitor |-> NoCast, picked |-> FALSE, number |-> NoCast, replaced |-> {}]
  /\ pick = [monitor |-> NoCast, count |-> 0, valid |-> FALSE]
  /\ exited = FALSE
  /\ shown = _build_menu

-----------------------------------------------------------------------------
\* Only the first request adds the callback.
Request == pending' = TRUE /\ idle' = IF pending THEN idle ELSE idle + 1

\* _refresh, by any of the threads.
_refresh(a, from, to) ==
  /\ Moves(a, from, to) /\ Request
  /\ UNCHANGED <<procVars, icon, shown, unasked, scanVars, userVars>>

\* _notify raises where notify-send is missing, and what follows it does not happen:
\* the refresh, and after a launch the start of the watcher.
NotifyRaises(a, p, to) ==
  /\ p \in Unheard /\ Moves(a, "notify", to) /\ unasked' = TRUE
  /\ UNCHANGED <<procVars, pending, idle, icon, shown, scanVars, userVars>>

\* _do_update, on the GTK thread: the flag is cleared first, then the icon and
\* the menu are computed from the state there is.
\* mutant: the flag stays set while icon and menu are built
UpdateFlagged ==
  /\ idle > 0 /\ Moves(Gtk, "loop", "icon")
  /\ idle' = idle - 1 /\ unasked' = FALSE
  /\ UNCHANGED <<procVars, pending, icon, shown, scanVars, userVars>>
_do_update ==
  /\ idle > 0 /\ Moves(Gtk, "loop", "icon")
  /\ idle' = idle - 1 /\ pending' = FALSE /\ unasked' = FALSE
  /\ UNCHANGED <<procVars, icon, shown, scanVars, userVars>>

UpdateIcon ==
  /\ Moves(Gtk, "icon", "menu")
  /\ icon' = _cast_state
  /\ UNCHANGED <<procVars, pending, idle, shown, unasked, scanVars, userVars>>

BuildMenu ==
  /\ Moves(Gtk, "menu", "loop")
  /\ shown' = _build_menu
  /\ UNCHANGED <<procVars, pending, idle, icon, unasked, scanVars, userVars>>

-----------------------------------------------------------------------------
(* Casts.                                                                   *)

\* The monitor the configuration names for the kind of device comes first.
_monitor_name(chosen, configured) == IF configured # NoCast THEN configured ELSE chosen

\* A click on a device starts a process.  Miracast through the portal's dialog neither
\* needs nor takes a monitor; the other casts are offered once there is one.  The
\* handler does not look at the cast that may run by now.
_launch ==
  /\ ~shown.casting /\ launch.number < MaxCasts
  /\ Moves(Gtk, "loop", "assign")
  /\ \E dialog \in BOOLEAN, configured \in Preferred \cup {NoCast} :
       /\ dialog \/ shown.monitor # NoCast
       /\ launch' = [monitor |-> IF dialog THEN NoCast
                                 ELSE _monitor_name(shown.monitor, configured),
                     picked |-> ~dialog /\ configured = NoCast,
                     number |-> launch.number + 1,
                     replaced |-> launch.replaced \cup (IF _cast_state THEN {proc} ELSE {})]
  /\ alive' = alive \cup {launch.number + 1}
  /\ pick' = [pick EXCEPT !.valid = @ /\ shown.monitor = Chosen]
  /\ UNCHANGED <<proc, target, menuVars, scanVars, selected, exited>>

\* The command is forgotten, the process is remembered.
Assign ==
  /\ Moves(Gtk, "assign", "notify")
  /\ proc' = launch.number /\ target' = launch.number
  /\ launch' = [launch EXCEPT !.monitor = NoCast, !.picked = FALSE]
  /\ UNCHANGED <<alive, menuVars, scanVars, selected, pick, exited>>

\* The user is told of the cast, the menu is asked for, and the watcher is started.
Launched ==
  /\ ~exited /\ pc[Gtk] = "notify"
  /\ pc' = [pc EXCEPT ![Gtk] = "loop", ![Watch(launch.number)] = "wait"]
  /\ Request
  /\ UNCHANGED <<procVars, icon, shown, unasked, scanVars, userVars>>

CastDies(p) ==
  /\ p \in alive /\ alive' = alive \ {p}
  /\ UNCHANGED <<pc, proc, target, menuVars, scanVars, userVars>>

\* _watch: the tray forgets the process only if it is still the one it remembers.
_watch(p) ==
  /\ p \notin alive /\ Moves(Watch(p), "wait", "notify")
  /\ proc' = (IF proc = p THEN NoCast ELSE proc)
  /\ target' = (IF proc = p THEN NoCast ELSE target)
  /\ UNCHANGED <<alive, menuVars, scanVars, userVars>>

\* The process is asked to end, which it does now or later; it is remembered until then.
\* mutant: the tray forgets the process it asked to end
StopForgets == alive' \in {alive, alive \ {proc}} /\ proc' = NoCast /\ target' = NoCast
_stop == alive' \in {alive, alive \ {proc}} /\ UNCHANGED <<proc, target>>

ClickStop ==
  /\ ~exited /\ pc[Gtk] = "loop" /\ shown.casting /\ _stop
  /\ UNCHANGED <<pc, menuVars, scanVars, userVars>>

\* The loop returns, and with the program its daemon threads end.
_on_exit ==
  /\ ~exited /\ pc[Gtk] = "loop" /\ _stop
  /\ exited' = TRUE /\ pc' = [a \in Actors |-> "none"]
  /\ UNCHANGED <<menuVars, scanVars, selected, launch, pick>>

-----------------------------------------------------------------------------
(* Scans and the choice of a monitor.                                       *)

\* _rescan_all, at the start and whenever the menu offers it; each scan is a
\* thread of its own, here with its first step, and nothing stops a second one.
_rescan_all(n) ==
  /\ pc[Gtk] = "loop" /\ ~shown.casting /\ \A m \in 1..(n - 1) : pc[Scan(m)] # "none"
  /\ Moves(Scan(n), "none", "ask1")
  /\ \E k \in Kinds : kind' = [kind EXCEPT ![n] = k] /\ scanning' = scanning \cup {k}
  /\ UNCHANGED <<procVars, menuVars, monitors, userVars>>

\* A scan that raises an Exception finds nothing.
ScanEnds(n) ==
  /\ Moves(Scan(n), "look", "ask2")
  /\ \E found \in IF kind[n] = "monitors" THEN Screens \cup {<<>>} ELSE {monitors} :
       /\ monitors' = found
       /\ pick' = [pick EXCEPT !.valid = @ /\ found = monitors]
  /\ scanning' = scanning \ {kind[n]} /\ kind' = [kind EXCEPT ![n] = NoKind]
  /\ UNCHANGED <<procVars, menuVars, selected, launch, exited>>

\* A package for devices that is not installed ends the thread: its import calls
\* sys.exit, and SystemExit is no Exception.
ScanExits(n) ==
  /\ kind[n] = "devices" /\ Moves(Scan(n), "look", "exited")
  /\ UNCHANGED <<procVars, menuVars, scanVars, userVars>>

\* A click on the i-th monitor of the menu shown, which may be older than the list.
_select_monitor(i) ==
  /\ ~shown.casting /\ i \in 1..Len(shown.monitors) /\ pick.count < MaxPicks
  /\ Moves(Gtk, "loop", "ask")
  /\ selected' = i
  /\ pick' = [monitor |-> shown.monitors[i], count |-> pick.count + 1,
              valid |-> monitors = shown.monitors]
  /\ UNCHANGED <<procVars, menuVars, scanVars, launch, exited>>

-----------------------------------------------------------------------------
GtkStep ==
  \/ _do_update \/ UpdateIcon \/ BuildMenu \/ Assign \/ Launched
  \/ NotifyRaises(Gtk, launch.number, "loop") \/ _refresh(Gtk, "ask", "loop")
WatchStep(p) ==
  _watch(p) \/ _refresh(Watch(p), "notify", "done") \/ NotifyRaises(Watch(p), p, "done")
ScanStep(n) ==
  \/ ScanEnds(n) \/ ScanExits(n)
  \/ _refresh(Scan(n), "ask1", "look") \/ _refresh(Scan(n), "ask2", "done")

TrayNext ==
  \/ GtkStep \/ _launch \/ ClickStop \/ _on_exit
  \/ \E p \in Casts : CastDies(p) \/ WatchStep(p)
  \/ \E n \in 1..MaxScans : ScanStep(n) \/ _rescan_all(n)
  \/ \E i \in 1..2 : _select_monitor(i)

ThreadStep == \/ GtkStep \/ (\E p \in Casts : WatchStep(p))
              \/ \E n \in 1..MaxScans : ScanStep(n)
Fairness == WF_trayVars(ThreadStep)
TraySpec == TrayInit /\ [][TrayNext]_trayVars /\ Fairness

-----------------------------------------------------------------------------
TrayTypeOK ==
  /\ proc \in 0..MaxCasts /\ alive \subseteq Casts
  /\ {pending, icon, unasked, exited} \subseteq BOOLEAN /\ idle \in 0..1
  /\ scanning \subseteq Kinds
  /\ (proc = NoCast) = (target = NoCast)
  /\ selected \in 1..2

UpToDate == shown = _build_menu /\ icon = _cast_state

\* The remembered process has ended and no thread waited for it: the notification of
\* its launch raised.
Unwatched == proc # NoCast /\ proc \notin alive /\ pc[Watch(proc)] = "none"

\* No request to rebuild is lost: if menu or icon show anything but the present
\* state, a rebuild is queued or under way, or an actor that changed the state, or
\* waits for a process that has died, has yet to ask - unless a notification raised
\* in its place, or in place of the start of the watcher.
NoLostRefresh ==
  (~UpToDate /\ ~exited) =>
    \/ idle > 0 \/ pc[Gtk] # "loop" \/ unasked \/ Unwatched
    \/ \E p \in Casts : (pc[Watch(p)] = "wait" /\ p \notin alive) \/ pc[Watch(p)] = "notify"
    \/ \E n \in 1..MaxScans : pc[Scan(n)] \in {"ask1", "ask2"}

\* A process that has ended never makes the tray forget one that has not.
ForgetsOnlyTheDead == [][(proc' # proc /\ proc' = NoCast) => proc \notin alive]_trayVars

\* A cast the tray cannot stop any more - running, not the one it remembers, not
\* just being started - is one that a click on a menu built before it began replaced.
LostCastsFromStaleMenus ==
  \A p \in alive \ {proc} :
    p \in launch.replaced \/ (pc[Gtk] = "assign" /\ p = launch.number)

\* A cast takes the monitor the user picked - unless the configuration names another
\* or the portal's dialog asks for one - if the list has not changed since the menu of
\* the pick was built and the cast was not started from a menu older than the pick.
MonitorAsPicked ==
  (pc[Gtk] = "assign" /\ pick.valid /\ launch.picked) => launch.monitor = pick.monitor

\* A scan is shown as under way only while it is, or after one for devices whose package
\* is missing.
ScanningEnds ==
  ~exited => \A k \in scanning :
    \E n \in 1..MaxScans : kind[n] = k /\ pc[Scan(n)] \in {"ask1", "look", "exited"}

\* Menu and icon come to show the present state, whatever happened but a notification
\* that raised in place of a refresh or of the start of a watcher.
MenuCatchesUp == []<>(exited \/ UpToDate \/ unasked \/ Unwatched)
=============================================================================
