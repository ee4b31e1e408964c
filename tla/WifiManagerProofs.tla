------------------------- MODULE WifiManagerProofs -------------------------
(***************************************************************************)
(* Theorems about the WiFi manager, for any number of callers, networks    *)
(* and waiting events: wifi_mutex keeps the callers and wifi_task apart,   *)
(* and the handler, which takes no lock, never leaves CONNECTED behind.    *)
(***************************************************************************)
EXTENDS WifiManager, TLAPS

(* What an event that is posted, and one that is taken, do to the queue.   *)
LEMMA Posted ==
  ASSUME NEW s \in Seq(Event), NEW e \in Event
  PROVE  /\ Append(s, e) \in Seq(Event) /\ Len(Append(s, e)) = Len(s) + 1
         /\ DOMAIN Append(s, e) = 1 .. Len(s) + 1 /\ DOMAIN s = 1 .. Len(s)
         /\ Append(s, e)[Len(s) + 1] = e
         /\ \A i \in DOMAIN s : Append(s, e)[i] = s[i]
OBVIOUS

LEMMA PostType ==
  ASSUME TypeOK, NEW e \in Event, Post(e)
  PROVE  events' \in Seq(Event) /\ Len(events') <= MaxEvents
<1>1. events \in Seq(Event) /\ Len(events) < MaxEvents /\ events' = Append(events, e)
  BY DEF TypeOK, Post
<1>2. Len(events) \in Nat /\ MaxEvents \in Nat
  BY <1>1, WifiAssumption
<1> QED  BY <1>1, <1>2, Posted

LEMMA Taken ==
  ASSUME NEW s \in Seq(Event), s # <<>>
  PROVE  /\ Head(s) \in Event /\ Head(s) = s[1]
         /\ Tail(s) \in Seq(Event) /\ Len(Tail(s)) = Len(s) - 1 /\ Len(s) \in Nat \ {0}
         /\ DOMAIN Tail(s) = 1 .. Len(s) - 1 /\ DOMAIN s = 1 .. Len(s)
         /\ \A i \in 1 .. Len(s) - 1 : Tail(s)[i] = s[i + 1]
OBVIOUS

LEMMA InitIInv == Init => IInv
<1> SUFFICES ASSUME Init PROVE IInv
  OBVIOUS
<1>1. events = <<>> /\ events \in Seq(Event) /\ Len(events) = 0 /\ DOMAIN events = {}
  BY DEF Init
<1>2. 0 <= MaxEvents
  BY WifiAssumption
<1>3. TypeOK
  BY <1>1, <1>2 DEF Init, TypeOK, State, None
<1>4. Backed /\ Held
  BY <1>1 DEF Init, Backed, Held
<1> QED  BY <1>3, <1>4 DEF IInv

-----------------------------------------------------------------------------
(* Four ways in which the steps move the driver, each of which keeps every *)
(* CONNECTED backed; a step that sets another state keeps it all the more. *)
Calm == current_state' \in {current_state, "CONNECTING", "DISCONNECTED", "RECONNECTING"}

LEMMA BackedIfQuiet ==
  ASSUME Backed, Calm, events' = events, link' = link \/ link' = "up" \/ link # "up"
  PROVE  Backed'
BY DEF Backed, LinkOrLater, Calm

LEMMA BackedIfStarted ==
  ASSUME TypeOK, Backed, Calm, link' = link, events' = Append(events, "STA_START")
  PROVE  Backed'
<1>1. events \in Seq(Event) /\ "STA_START" \in Event
  BY DEF TypeOK, Event
<1>2. \A n \in Nat : LinkOrLater(n) => LinkOrLater(n)'
  BY <1>1, Posted DEF LinkOrLater
<1>3. \A i \in DOMAIN events' : events'[i] = "STA_CONNECTED" =>
        i \in DOMAIN events /\ events[i] = "STA_CONNECTED" /\ i \in Nat
  BY <1>1, Posted
<1> QED  BY <1>2, <1>3 DEF Backed, Calm

LEMMA BackedIfJoined ==
  ASSUME Calm, link' = "up"
  PROVE  Backed'
BY DEF Backed, LinkOrLater

LEMMA BackedIfLeft ==
  ASSUME TypeOK, events' = Append(events, "STA_DISCONNECTED")
  PROVE  Backed'
<1>1. events \in Seq(Event) /\ "STA_DISCONNECTED" \in Event
  BY DEF TypeOK, Event
<1>2. Len(events) + 1 \in DOMAIN events' /\ events'[Len(events) + 1] = "STA_DISCONNECTED"
      /\ Len(events) \in Nat
  BY <1>1, Posted
<1>3. \A i \in DOMAIN events' : events'[i] = "STA_CONNECTED" => i < Len(events) + 1
  BY <1>1, <1>2, Posted
<1> QED  BY <1>2, <1>3 DEF Backed, LinkOrLater

LEMMA HandleEventIInv ==
  ASSUME IInv, HandleEvent
  PROVE  IInv'
<1> DEFINE e == events[1]
<1>1. /\ events \in Seq(Event) /\ events # <<>> /\ Len(events) <= MaxEvents /\ MaxEvents \in Nat
      /\ current_state' = StateAfter(e) /\ e \in Event /\ events' = Tail(events)
  BY Taken, WifiAssumption DEF IInv, TypeOK, HandleEvent
<1>2. StateAfter(e) \in State /\ (StateAfter(e) = "CONNECTED" => e = "STA_CONNECTED")
  BY <1>1 DEF StateAfter, State, Event
<1>3. events' \in Seq(Event) /\ Len(events') <= MaxEvents
  BY <1>1, Taken
<1>4. TypeOK'
  <2>1. handler' \in {None, "retry"}
    BY DEF HandleEvent
  <2> QED  BY <1>1, <1>2, <1>3, <2>1 DEF HandleEvent, IInv, TypeOK, flags
<1>5. \A n \in DOMAIN events : LinkOrLater(n) => LinkOrLater(n - 1)'
  <2> SUFFICES ASSUME NEW n \in DOMAIN events, LinkOrLater(n), link # "up"
               PROVE  LinkOrLater(n - 1)'
    BY DEF HandleEvent, LinkOrLater
  <2>1. PICK j \in DOMAIN events : j > n /\ events[j] = "STA_DISCONNECTED"
    BY DEF LinkOrLater
  <2>2. j - 1 \in DOMAIN events' /\ events'[j - 1] = events[j] /\ j - 1 > n - 1
    <3>1. j \in 1 .. Len(events) /\ n \in 1 .. Len(events) /\ Len(events) \in Nat
      BY <1>1, Taken
    <3>2. j - 1 \in 1 .. Len(events) - 1
      BY <2>1, <3>1
    <3>3. events'[j - 1] = events[(j - 1) + 1] /\ DOMAIN events' = 1 .. Len(events) - 1
      BY <1>1, <3>2, Taken
    <3> QED  BY <2>1, <3>1, <3>2, <3>3
  <2> QED  BY <2>1, <2>2 DEF LinkOrLater
<1>6. Backed'
  <2>1. 1 \in DOMAIN events /\ \A i \in DOMAIN events' :
          i + 1 \in DOMAIN events /\ events'[i] = events[i + 1] /\ (i + 1) - 1 = i
    BY <1>1, Taken
  <2>2. current_state' = "CONNECTED" => LinkOrLater(0)'
    <3>1. current_state' = "CONNECTED" => LinkOrLater(1)
      BY <1>1, <1>2, <2>1 DEF IInv, Backed
    <3> QED  BY <3>1, <2>1, <1>5
  <2>3. ASSUME NEW i \in DOMAIN events', events'[i] = "STA_CONNECTED" PROVE LinkOrLater(i)'
    <3>1. LinkOrLater(i + 1)
      BY <2>1, <2>3 DEF IInv, Backed
    <3> QED  BY <3>1, <2>1, <1>5
  <2> QED  BY <2>2, <2>3 DEF Backed
<1>7. Held'
  BY DEF HandleEvent, IInv, Held, flags
<1> QED  BY <1>4, <1>6, <1>7 DEF IInv

-----------------------------------------------------------------------------
(* The steps of the callers.  One that proceeds beyond its first call      *)
(* holds the mutex, so no other caller and not wifi_task does.             *)
LEMMA Alone ==
  ASSUME TypeOK, NEW c \in Callers, pc[c] \notin {"idle", "scan"}
  PROVE  /\ wifi_mutex = c /\ task = "delay"
         /\ \A d \in Callers \ {c} : pc[d] \in {"idle", "scan"}
BY WifiAssumption DEF TypeOK

(* Nobody is in the middle of a call when the mutex is free. *)
LEMMA Nobody ==
  ASSUME TypeOK, wifi_mutex = "free"
  PROVE  task = "delay" /\ \A d \in Callers : pc[d] \in {"idle", "scan"}
BY WifiAssumption DEF TypeOK

LEMMA ConnectIInv ==
  ASSUME IInv, NEW c \in Callers, NEW ssid \in Ssids, Connect(c, ssid)
  PROVE  IInv'
<1> USE DEF Connect, Take, Goto, flags, driver
<1>1. TypeOK'
  BY Nobody DEF IInv, TypeOK
<1>2. Backed'
  BY BackedIfQuiet DEF IInv, Calm
<1>3. Held'
  BY Nobody DEF IInv, Held, TypeOK
<1> QED  BY <1>1, <1>2, <1>3 DEF IInv

LEMMA ConfigureIInv ==
  ASSUME IInv, NEW c \in Callers, Configure(c)
  PROVE  IInv'
<1> USE DEF Configure, Goto, flags
<1>1. TypeOK'
  BY Alone DEF IInv, TypeOK
<1>2. Backed'
  BY BackedIfQuiet DEF IInv, Calm
<1>3. Held'
  BY Alone DEF IInv, Held, TypeOK
<1> QED  BY <1>1, <1>2, <1>3 DEF IInv

LEMMA StartIInv ==
  ASSUME IInv, NEW c \in Callers, Start(c)
  PROVE  IInv'
<1> USE DEF Start, Goto, flags
<1>1. events' \in Seq(Event) /\ Len(events') <= MaxEvents
  BY PostType DEF IInv, TypeOK, Event
<1>2. TypeOK'
  <2>1. wifi_mutex = c
    BY Alone DEF IInv
  <2> QED  BY <1>1, <2>1 DEF IInv, TypeOK
<1>3. Backed'
  <2>1. CASE started
    BY <2>1, BackedIfQuiet DEF IInv, Calm
  <2>2. CASE ~started
    BY <2>2, BackedIfStarted DEF IInv, Calm, Post
  <2> QED  BY <2>1, <2>2
<1>4. Held'
  BY Alone DEF IInv, Held, TypeOK
<1> QED  BY <1>2, <1>3, <1>4 DEF IInv

LEMMA CallConnectIInv ==
  ASSUME IInv, NEW c \in Callers, CallConnect(c)
  PROVE  IInv'
<1> USE DEF CallConnect, DriverConnect, Goto, flags
<1>1. TypeOK'
  BY Alone DEF IInv, TypeOK
<1>2. Backed'
  BY BackedIfQuiet DEF IInv, Calm
<1>3. Held'
  BY Alone DEF IInv, Held, TypeOK
<1> QED  BY <1>1, <1>2, <1>3 DEF IInv

(* The steps that end a call: the state is written, the mutex given back. *)
LEMMA ReturnIInv ==
  ASSUME IInv, NEW c \in Callers, pc[c] \notin {"idle", "scan"}, Give, Goto(c, "idle"),
         Calm, UNCHANGED <<flags, asked, task, handler, driver>>
  PROVE  IInv'
<1> USE DEF Give, Goto, flags, driver
<1>0. task = "delay" /\ \A d \in Callers \ {c} : pc[d] \in {"idle", "scan"}
  BY Alone DEF IInv
<1>1. TypeOK'
  BY <1>0 DEF IInv, TypeOK, Calm, State
<1>2. Backed'
  BY BackedIfQuiet DEF IInv
<1>3. Held'
  BY <1>0 DEF IInv, Held, TypeOK
<1> QED  BY <1>1, <1>2, <1>3 DEF IInv

LEMMA DisconnectIInv ==
  ASSUME IInv, NEW c \in Callers, Disconnect(c)
  PROVE  IInv'
<1> USE DEF Disconnect, Take, Goto, flags
<1>1. events' \in Seq(Event) /\ Len(events') <= MaxEvents
  BY PostType DEF IInv, TypeOK, Event
<1>2. TypeOK'
  BY <1>1, Nobody DEF IInv, TypeOK
<1>3. Backed'
  BY BackedIfQuiet, BackedIfLeft DEF IInv, Calm, Post
<1>4. Held'
  BY Nobody DEF IInv, Held, TypeOK
<1> QED  BY <1>2, <1>3, <1>4 DEF IInv

LEMMA SetAutoReconnectIInv ==
  ASSUME IInv, NEW c \in Callers, NEW enable \in BOOLEAN, SetAutoReconnect(c, enable)
  PROVE  IInv'
<1> USE DEF SetAutoReconnect, driver
<1>1. TypeOK'
  BY DEF IInv, TypeOK
<1>2. Backed'
  BY BackedIfQuiet DEF IInv, Calm
<1>3. Held'
  BY Nobody DEF IInv, Held
<1> QED  BY <1>1, <1>2, <1>3 DEF IInv

LEMMA ScanIInv ==
  ASSUME IInv, NEW c \in Callers, CheckScan(c) \/ StartScan(c)
  PROVE  IInv'
<1> USE DEF CheckScan, StartScan, Goto, flags, driver
<1>1. TypeOK'
  BY DEF IInv, TypeOK
<1>2. Backed'
  BY BackedIfQuiet DEF IInv, Calm
<1>3. Held'
  BY DEF IInv, Held, TypeOK
<1> QED  BY <1>1, <1>2, <1>3 DEF IInv

LEMMA CallerIInv ==
  ASSUME IInv, NEW c \in Callers, Call(c) \/ Proceed(c)
  PROVE  IInv'
<1>1. CASE SetConnecting(c)
  BY <1>1, ReturnIInv DEF SetConnecting, Calm
<1>2. CASE SetDisconnected(c)
  BY <1>2, ReturnIInv DEF SetDisconnected, Calm
<1>3. CASE ConnectFails(c)
  BY <1>3, ReturnIInv DEF ConnectFails, Calm
<1> QED
  BY <1>1, <1>2, <1>3, ConnectIInv, ConfigureIInv, StartIInv, CallConnectIInv, DisconnectIInv,
     SetAutoReconnectIInv, ScanIInv DEF Call, Proceed

-----------------------------------------------------------------------------
(* The steps of wifi_task, of the event task and of the driver. *)
LEMMA WifiTaskIInv ==
  ASSUME IInv, WifiTask
  PROVE  IInv'
<1>1. TypeOK'
  BY Nobody, WifiAssumption
  DEF IInv, TypeOK, State, WifiTask, TaskTakes, TaskChecks, TaskConnects, TaskIsRefused,
      TaskSetsConnecting, Take, Give, DriverConnect, flags, driver
<1>2. Backed'
  BY BackedIfQuiet
  DEF IInv, Calm, WifiTask, TaskTakes, TaskChecks, TaskConnects, TaskIsRefused,
      TaskSetsConnecting, DriverConnect, driver
<1>3. Held'
  BY DEF IInv, Held, WifiTask, TaskTakes, TaskChecks, TaskConnects, TaskIsRefused,
         TaskSetsConnecting, MayReconnect, DriverConnect, flags, driver
<1> QED  BY <1>1, <1>2, <1>3 DEF IInv

LEMMA IntervalPassesIInv ==
  ASSUME IInv, IntervalPasses
  PROVE  IInv'
<1> USE DEF IntervalPasses, driver
<1>1. TypeOK'
  BY DEF IInv, TypeOK
<1>2. Backed'
  BY BackedIfQuiet DEF IInv, Calm
<1>3. Held'
  BY DEF IInv, Held
<1> QED  BY <1>1, <1>2, <1>3 DEF IInv

LEMMA HandlerRetriesIInv ==
  ASSUME IInv, HandlerRetries
  PROVE  IInv'
<1> USE DEF HandlerRetries, flags, driver
<1>1. TypeOK'
  BY DEF IInv, TypeOK, State
<1>2. Backed'
  BY BackedIfQuiet DEF IInv, Calm
<1>3. Held'
  BY DEF IInv, Held
<1> QED  BY <1>1, <1>2, <1>3 DEF IInv

LEMMA DriverIInv ==
  ASSUME IInv, Driver
  PROVE  IInv'
<1> USE DEF Driver, DriverJoins, DriverLeaves, DriverScans, flags
<1>1. events' \in Seq(Event) /\ Len(events') <= MaxEvents
  BY PostType DEF IInv, TypeOK, Event
<1>2. TypeOK'
  BY <1>1 DEF IInv, TypeOK
<1>3. Backed'
  BY BackedIfQuiet, BackedIfJoined, BackedIfLeft DEF IInv, Calm, Post
<1>4. Held'
  BY DEF IInv, Held
<1> QED  BY <1>2, <1>3, <1>4 DEF IInv

LEMMA NextIInv == IInv /\ [Next]_vars => IInv'
<1>1. ASSUME IInv, UNCHANGED vars PROVE IInv'
  <2> USE <1>1 DEF vars, flags, driver
  <2>1. TypeOK'
    BY DEF IInv, TypeOK
  <2>2. Backed'
    BY BackedIfQuiet DEF IInv, Calm
  <2>3. Held'
    BY DEF IInv, Held
  <2> QED  BY <2>1, <2>2, <2>3 DEF IInv
<1> QED
  BY <1>1, CallerIInv, WifiTaskIInv, IntervalPassesIInv, HandleEventIInv, HandlerRetriesIInv,
     DriverIInv DEF Next, EventTask

LEMMA Invariance == Spec => []IInv
BY InitIInv, NextIInv, PTL DEF Spec

(* The globals of network/wifi_manager.c keep their types, and every task  *)
(* in the middle of a driver call holds wifi_mutex.                        *)
THEOREM TypeCorrect == Spec => []TypeOK
<1>1. IInv => TypeOK
  BY DEF IInv
<1> QED  BY <1>1, Invariance, PTL

(* wifi_manager_is_connected claims no link that is gone without an event  *)
(* on its way that takes the claim back.                                   *)
THEOREM ConnectedStateIsBacked == Spec => []ConnectedIsBacked
<1>1. IInv => ConnectedIsBacked
  BY DEF IInv, Backed, LinkOrLater, ConnectedIsBacked
<1> QED  BY <1>1, Invariance, PTL

(* wifi_manager_connect joins the network of its own caller. *)
THEOREM CallersJoinTheirOwn == Spec => OwnNetworkIsJoined
<1>1. IInv /\ [Next]_vars => [\A c \in Callers : CallConnect(c) => target = asked[c]]_vars
  BY DEF IInv, Held, CallConnect
<1> QED  BY <1>1, Invariance, PTL DEF Spec, OwnNetworkIsJoined

(* wifi_task does not reconnect once set_auto_reconnect(false) returned. *)
THEOREM NoRetryOnceDisabled == Spec => DisabledIsNotRetried
<1>1. IInv /\ [Next]_vars => [TaskConnects => auto_reconnect]_vars
  BY DEF IInv, Held, TaskConnects
<1> QED  BY <1>1, Invariance, PTL DEF Spec, DisabledIsNotRetried
=============================================================================
