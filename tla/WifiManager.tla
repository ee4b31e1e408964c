---------------------------- MODULE WifiManager ----------------------------
(***************************************************************************)
(* network/wifi_manager.c: the connection state, written by three tasks.   *)
(* Application tasks connect, disconnect, scan and set auto_reconnect, and *)
(* wifi_task reconnects, all under wifi_mutex; wifi_event_handler runs in  *)
(* the event task and takes no lock.  The driver behind esp_wifi_* is      *)
(* external: it joins or loses the network on its own and queues an event  *)
(* for each change.                                                        *)
(***************************************************************************)
EXTENDS Naturals, Sequences

CONSTANTS
  Callers,     \* the application tasks that call the API
  Ssids,       \* the networks they connect to
  MaxEvents    \* bound: events that wait for the event task

ASSUME WifiAssumption ==
  /\ "wifi_task" \notin Callers /\ "free" \notin Callers
  /\ MaxEvents \in Nat \ {0}

None == "none"
State == {"DISCONNECTED", "CONNECTING", "CONNECTED", "RECONNECTING"}
Event == {"STA_START", "STA_CONNECTED", "STA_DISCONNECTED"}

VARIABLES
  wifi_mutex,        \* who holds it, or "free"
  current_state,
  auto_reconnect,    \* wifi_config.auto_reconnect
  scan_in_progress,
  interval_over,     \* whether reconnect_interval_ms have passed since the last attempt
  pc,                \* what each caller does next
  asked,             \* the network each caller connects to
  task,              \* what wifi_task does next
  handler,           \* the event being handled, or None
  started,           \* external: the station is started,
  link,              \*   its link is "down", "joining" or "up",
  target,            \*   it is configured for this network,
  scanning,          \*   a scan is under way,
  events             \*   and these events wait for the event task

driver == <<started, link, target, scanning, events>>
flags == <<auto_reconnect, scan_in_progress, interval_over>>
vars == <<wifi_mutex, current_state, flags, pc, asked, task, handler, driver>>

Init ==
  /\ wifi_mutex = "free"
  /\ current_state = "DISCONNECTED"
  /\ auto_reconnect = TRUE
  /\ scan_in_progress = FALSE
  /\ interval_over = TRUE
  /\ pc = [c \in Callers |-> "idle"]
  /\ asked = [c \in Callers |-> None]
  /\ task = "delay"
  /\ handler = None
  /\ started = FALSE /\ link = "down" /\ target = None
  /\ scanning = FALSE /\ events = <<>>

Post(e) == Len(events) < MaxEvents /\ events' = Append(events, e)
Goto(c, step) == pc' = [pc EXCEPT ![c] = step]
Take(who) == wifi_mutex = "free" /\ wifi_mutex' = who
Give == wifi_mutex' = "free"

(* A call that finds the mutex taken for its whole timeout returns with no *)
(* effect, which is a step that changes nothing and needs no action.       *)

-----------------------------------------------------------------------------
(* esp_wifi_connect of a started station; there is nothing to join when    *)
(* the station is joining or joined.                                       *)
DriverConnect ==
  /\ started
  /\ link' = IF link = "down" THEN "joining" ELSE link
  /\ UNCHANGED <<started, target, scanning, events>>

(* The driver joins the network, fails to, or loses it.  A driver that     *)
(* finds no room in the queue waits.                                       *)
DriverJoins == link = "joining" /\ link' = "up" /\ Post("STA_CONNECTED")
DriverLeaves == link # "down" /\ link' = "down" /\ Post("STA_DISCONNECTED")
DriverScans == scanning /\ scanning' = FALSE /\ UNCHANGED <<link, events>>

Driver ==
  /\ \/ (DriverJoins \/ DriverLeaves) /\ UNCHANGED scanning
     \/ DriverScans
  /\ UNCHANGED <<wifi_mutex, current_state, flags, pc, asked, task, handler, started, target>>
-----------------------------------------------------------------------------
(* wifi_manager_connect: the caller's credentials are stored, ...          *)
Connect(c, ssid) ==
  /\ pc[c] = "idle" /\ Take(c) /\ Goto(c, "configure")
  /\ asked' = [asked EXCEPT ![c] = ssid]
  /\ UNCHANGED <<current_state, flags, task, handler, driver>>

(* Mutation: the mutex is given back once the credentials are in place. *)
ConfigureGives(c) ==
  /\ pc[c] = "configure" /\ Goto(c, "start") /\ Give
  /\ target' = asked[c]
  /\ UNCHANGED <<current_state, flags, asked, task, handler, started, link, scanning, events>>

(* ... the station configured, ... *)
Configure(c) ==
  /\ pc[c] = "configure" /\ Goto(c, "start")
  /\ target' = asked[c]
  /\ UNCHANGED <<wifi_mutex, current_state, flags, asked, task, handler,
                 started, link, scanning, events>>

(* ... started, which the event task hears of the first time, ...          *)
Start(c) ==
  /\ pc[c] = "start" /\ Goto(c, "connect")
  /\ started' = TRUE
  /\ IF started THEN UNCHANGED events ELSE Post("STA_START")
  /\ UNCHANGED <<wifi_mutex, current_state, flags, asked, task, handler,
                 link, target, scanning>>

(* ... and told to connect.  The state is written after the driver has     *)
(* been told.                                                              *)
CallConnect(c) ==
  /\ pc[c] = "connect" /\ DriverConnect /\ Goto(c, "connecting")
  /\ UNCHANGED <<wifi_mutex, current_state, flags, asked, task, handler>>

SetConnecting(c) ==
  /\ pc[c] = "connecting" /\ Give /\ Goto(c, "idle")
  /\ current_state' = "CONNECTING"
  /\ UNCHANGED <<flags, asked, task, handler, driver>>

(* Mutation: the error path returns with the mutex taken. *)
ConnectFailsLocked(c) ==
  /\ pc[c] \in {"configure", "start", "connect"} /\ Goto(c, "idle")
  /\ UNCHANGED <<wifi_mutex, current_state, flags, asked, task, handler, driver>>

(* Each of the three calls may fail; the mutex is given back and the error *)
(* returned.                                                               *)
ConnectFails(c) ==
  /\ pc[c] \in {"configure", "start", "connect"} /\ Give /\ Goto(c, "idle")
  /\ UNCHANGED <<current_state, flags, asked, task, handler, driver>>

(* wifi_manager_disconnect, which writes the state after the call, too.    *)
Disconnect(c) ==
  /\ pc[c] = "idle" /\ started /\ Take(c) /\ Goto(c, "disconnected")
  /\ IF link = "down" THEN UNCHANGED <<link, events>>
                      ELSE link' = "down" /\ Post("STA_DISCONNECTED")
  /\ UNCHANGED <<current_state, flags, asked, task, handler, started, target, scanning>>

SetDisconnected(c) ==
  /\ pc[c] = "disconnected" /\ Give /\ Goto(c, "idle")
  /\ current_state' = "DISCONNECTED"
  /\ UNCHANGED <<flags, asked, task, handler, driver>>

(* Mutation: the flag is written without the mutex. *)
SetAutoReconnectUnlocked(c, enable) ==
  /\ pc[c] = "idle"
  /\ auto_reconnect' = enable
  /\ UNCHANGED <<wifi_mutex, current_state, scan_in_progress, interval_over, pc, asked,
                 task, handler, driver>>

(* wifi_manager_set_auto_reconnect. *)
SetAutoReconnect(c, enable) ==
  /\ pc[c] = "idle" /\ wifi_mutex = "free"
  /\ auto_reconnect' = enable
  /\ UNCHANGED <<wifi_mutex, current_state, scan_in_progress, interval_over, pc, asked,
                 task, handler, driver>>

(* wifi_manager_start_scan: the flag is tested before the mutex is taken.  *)
CheckScan(c) ==
  /\ pc[c] = "idle" /\ ~scan_in_progress /\ Goto(c, "scan")
  /\ UNCHANGED <<wifi_mutex, current_state, flags, asked, task, handler, driver>>

(* The driver refuses a scan while it joins or scans.  Nothing clears the  *)
(* flag when a scan that was accepted ends.                                *)
StartScan(c) ==
  /\ pc[c] = "scan" /\ wifi_mutex = "free" /\ Goto(c, "idle")
  /\ LET accepted == started /\ link # "joining" /\ ~scanning
     IN  /\ scan_in_progress' = accepted
         /\ scanning' = (scanning \/ accepted)
  /\ UNCHANGED <<wifi_mutex, current_state, auto_reconnect, interval_over, asked, task,
                 handler, started, link, target, events>>

(* A caller that has begun goes on. *)
Proceed(c) ==
  \/ Configure(c) \/ Start(c) \/ CallConnect(c) \/ SetConnecting(c) \/ ConnectFails(c)
  \/ SetDisconnected(c) \/ StartScan(c)

Call(c) ==
  \/ \E ssid \in Ssids : Connect(c, ssid)
  \/ Disconnect(c)
  \/ \E enable \in BOOLEAN : SetAutoReconnect(c, enable)
  \/ CheckScan(c)
-----------------------------------------------------------------------------
(* wifi_task takes the mutex every 100 ms, or gives up for this time.      *)
TaskTakes ==
  /\ task = "delay" /\ Take("wifi_task") /\ task' = "check"
  /\ UNCHANGED <<current_state, flags, pc, asked, handler, driver>>

(* It reconnects when the state says so and the interval has passed. *)
MayReconnect == current_state = "RECONNECTING" /\ auto_reconnect /\ interval_over

TaskChecks ==
  /\ task = "check"
  /\ IF MayReconnect THEN task' = "reconnect" /\ UNCHANGED wifi_mutex
                     ELSE task' = "delay" /\ Give
  /\ UNCHANGED <<current_state, flags, pc, asked, handler, driver>>

TaskConnects ==
  /\ task = "reconnect" /\ DriverConnect /\ task' = "connecting"
  /\ UNCHANGED <<wifi_mutex, current_state, flags, pc, asked, handler>>

(* The attempt is refused: the state stays, and so does the interval. *)
TaskIsRefused ==
  /\ task = "reconnect" /\ task' = "delay" /\ Give
  /\ UNCHANGED <<current_state, flags, pc, asked, handler, driver>>

TaskSetsConnecting ==
  /\ task = "connecting" /\ task' = "delay" /\ Give
  /\ current_state' = "CONNECTING"
  /\ interval_over' = FALSE
  /\ UNCHANGED <<auto_reconnect, scan_in_progress, pc, asked, handler, driver>>

WifiTask == TaskTakes \/ TaskChecks \/ TaskConnects \/ TaskIsRefused \/ TaskSetsConnecting

IntervalPasses ==
  /\ ~interval_over /\ interval_over' = TRUE
  /\ UNCHANGED <<wifi_mutex, current_state, auto_reconnect, scan_in_progress, pc, asked,
                 task, handler, driver>>
-----------------------------------------------------------------------------
(* Mutation: the case of STA_START falls through into the next one. *)
StateAfterNoBreak(e) ==
  IF e = "STA_DISCONNECTED" THEN "DISCONNECTED" ELSE "CONNECTED"

(* The first write of wifi_event_handler. *)
StateAfter(e) ==
  CASE e = "STA_START" -> "CONNECTING"
    [] e = "STA_CONNECTED" -> "CONNECTED"
    [] e = "STA_DISCONNECTED" -> "DISCONNECTED"

(* wifi_event_handler: a lost connection is marked lost first, ...         *)
HandleEvent ==
  /\ handler = None /\ events # <<>>
  /\ events' = Tail(events)
  /\ current_state' = StateAfter(Head(events))
  /\ handler' = IF Head(events) = "STA_DISCONNECTED" THEN "retry" ELSE None
  /\ UNCHANGED <<wifi_mutex, flags, pc, asked, task, started, link, target, scanning>>

(* ... and to be retried afterwards.                                       *)
HandlerRetries ==
  /\ handler = "retry" /\ handler' = None
  /\ current_state' = IF auto_reconnect THEN "RECONNECTING" ELSE current_state
  /\ UNCHANGED <<wifi_mutex, flags, pc, asked, task, driver>>

EventTask == HandleEvent \/ HandlerRetries
-----------------------------------------------------------------------------
Next ==
  \/ \E c \in Callers : Call(c) \/ Proceed(c)
  \/ WifiTask \/ IntervalPasses
  \/ EventTask
  \/ Driver

Spec == Init /\ [][Next]_vars

(* Every task is scheduled: a call that has begun goes on, the event task  *)
(* handles what is queued, time passes.  wifi_task waits for the mutex, at *)
(* priority 5 and up to 100 ms each time, longer than a call holds it, so  *)
(* it is not passed over for ever.  Nothing is assumed of the driver.      *)
FairSpec ==
  /\ Spec
  /\ \A c \in Callers : WF_vars(Proceed(c))
  /\ SF_vars(TaskTakes)
  /\ WF_vars(TaskChecks) /\ WF_vars(TaskConnects \/ TaskIsRefused) /\ WF_vars(TaskSetsConnecting)
  /\ WF_vars(IntervalPasses) /\ WF_vars(EventTask)
-----------------------------------------------------------------------------
(* Every variable keeps its type: network/wifi_manager.c's globals.  The   *)
(* tasks that are about to call the driver or to write the state hold the  *)
(* mutex.                                                                  *)
TypeOK ==
  /\ wifi_mutex \in Callers \cup {"free", "wifi_task"}
  /\ current_state \in State
  /\ {auto_reconnect, scan_in_progress, interval_over, started, scanning} \subseteq BOOLEAN
  /\ pc \in [Callers -> {"idle", "configure", "start", "connect", "connecting",
                         "disconnected", "scan"}]
  /\ \A c \in Callers : pc[c] \notin {"idle", "scan"} => wifi_mutex = c
  /\ asked \in [Callers -> Ssids \cup {None}]
  /\ task \in {"delay", "check", "reconnect", "connecting"}
  /\ task # "delay" => wifi_mutex = "wifi_task"
  /\ handler \in {None, "retry"}
  /\ link \in {"down", "joining", "up"}
  /\ target \in Ssids \cup {None}
  /\ events \in Seq(Event) /\ Len(events) <= MaxEvents

(* wifi_manager_is_connected never claims a link that is gone, except while *)
(* the event that says so still waits for wifi_event_handler: the writes of *)
(* the callers, of wifi_task and of the handler cannot leave it behind.     *)
ConnectedIsBacked ==
  current_state = "CONNECTED" =>
    link = "up" \/ \E i \in DOMAIN events : events[i] = "STA_DISCONNECTED"

(* wifi_manager_connect joins the network its own caller named: no other   *)
(* caller reconfigures the station between the configuration and the call. *)
OwnNetworkIsJoined ==
  [][\A c \in Callers : CallConnect(c) => target = asked[c]]_vars

(* Once wifi_manager_set_auto_reconnect(false) has returned, wifi_task     *)
(* does not reconnect, though it looked at the flag a step earlier.        *)
DisabledIsNotRetried == [][TaskConnects => auto_reconnect]_vars

(* A lost connection to be retried is retried: wifi_task gets the mutex    *)
(* and calls the driver, however many calls fail in between, unless the    *)
(* state or the flag has changed.                                          *)
RetryIsAttempted ==
  current_state = "RECONNECTING" /\ auto_reconnect ~>
    task = "reconnect" \/ current_state # "RECONNECTING" \/ ~auto_reconnect

(* The inductive invariant: each CONNECTED, in the state or waiting for the *)
(* handler, is backed by the link or by a later event; the task that holds  *)
(* the mutex finds what it looked at unchanged.                             *)
LinkOrLater(n) == link = "up" \/ \E j \in DOMAIN events : j > n /\ events[j] = "STA_DISCONNECTED"
Backed ==
  /\ current_state = "CONNECTED" => LinkOrLater(0)
  /\ \A i \in DOMAIN events : events[i] = "STA_CONNECTED" => LinkOrLater(i)
Held ==
  /\ \A c \in Callers : pc[c] \in {"start", "connect"} => target = asked[c]
  /\ task = "reconnect" => auto_reconnect
IInv == TypeOK /\ Backed /\ Held
=============================================================================
