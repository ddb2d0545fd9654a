------------------------------- MODULE Network -------------------------------
(***************************************************************************)
(* Wi-Fi (network.cpp) and the address of the Mac service (setup.cpp).     *)
(*                                                                         *)
(* Four tasks share atomics, and the endpoint under a spin lock: the       *)
(* console or the boot that applies a configuration, the network task that *)
(* carries out one request at a time, the event loop that runs wifi_event, *)
(* and LVGL.  The calls of the network task are steps of their own; of the *)
(* handlers, only the one that makes two stores is split.                  *)
(*                                                                         *)
(* The radio is not code of this repository: it carries out a call or      *)
(* refuses it, and posts its events in order.  Credentials are left out.   *)
(***************************************************************************)
EXTENDS Naturals, Sequences

CONSTANTS
  Macs,      \* the machines that may join the hotspot
  MaxEvents  \* with this many events waiting, the radio does nothing by itself and
             \* no request is begun

VARIABLES
  requests,   \* the queue of one: "prepare", "station" or "ap"
  request,    \* what the network task carries out, "none" when it waits
  call,       \* its next call
  started, initialized,  \* started; "no", "yes" or "failed"
  fromHotspot,           \* from_hotspot
  hotspot,    \* hotspot
  own,        \* station_ipv4: "none", "station" or "ap"
  peer,       \* peer_ipv4, by the Mac it was leased to, or "none"
  endpoint,   \* the Mac whose lease the endpoint is, "none" for any other address
  assigning,  \* the Mac whose lease peer_assigned() is to write, or "none"
  editable,   \* refresh() has left the address as a field that can be edited
  keyboard,   \* the keyboard of the Setup screen is open
  mode, link, joined, events   \* the radio

task_vars == <<requests, request, call, started, initialized, fromHotspot>>
shared_vars == <<hotspot, own, peer>>
setup_vars == <<endpoint, editable, keyboard>>
radio_vars == <<mode, link, joined, events>>
vars == <<task_vars, shared_vars, setup_vars, assigning, radio_vars>>

Init ==
  /\ requests = <<>> /\ request = "none" /\ call = "none"
  /\ started = FALSE /\ initialized = "no" /\ fromHotspot = FALSE
  /\ hotspot = FALSE /\ own = "none" /\ peer = "none"
  /\ endpoint = "none"
  /\ editable = TRUE /\ keyboard = FALSE
  /\ assigning = "none"
  /\ mode = "station" /\ link = "down" /\ joined = {} /\ events = <<>>

-----------------------------------------------------------------------------
(* The radio: what its calls do, and what it does by itself.               *)

Event(kind) == [kind |-> kind, mac |-> "none"]
Post(new) == events' = events \o new

(* esp_wifi_disconnect()                                                   *)
RadioDisconnects ==
  /\ link' = "down" /\ Post(IF link = "down" THEN <<>> ELSE <<Event("disconnected")>>)
  /\ UNCHANGED <<mode, joined>>

(* esp_wifi_set_mode(): a change stops one interface and starts the other. *)
RadioMode(m) ==
  /\ mode' = m /\ link' = IF m = mode THEN link ELSE "down"
  /\ joined' = IF m = mode THEN joined ELSE {}
  /\ Post(IF m = mode \/ ~started THEN <<>>
          ELSE IF m = "ap" THEN <<Event("ap start")>>
          ELSE <<Event("ap stop"), Event("station start")>>)

(* esp_wifi_start()                                                        *)
RadioStarts ==
  /\ Post(<<Event(IF mode = "ap" THEN "ap start" ELSE "station start")>>)
  /\ UNCHANGED <<mode, link, joined>>

(* esp_wifi_connect() does nothing unless the station runs.                *)
RadioConnects ==
  /\ link' = IF mode = "station" /\ link = "down" THEN "connecting" ELSE link
  /\ UNCHANGED <<mode, joined>>

(* A second has passed before a Mac joins a new hotspot: refresh() has run *)
(* if the Setup screen is open.                                            *)
Joins(m) ==
  /\ mode = "ap" /\ started /\ m \notin joined /\ ~(hotspot /\ editable)
  /\ joined' = joined \cup {m} /\ Post(<<[kind |-> "lease", mac |-> m]>>)
  /\ UNCHANGED link

Leaves(m) ==
  /\ m \in joined /\ joined' = joined \ {m}
  /\ Post(<<[kind |-> "left", mac |-> m]>>)
  /\ UNCHANGED link

LinkChanges ==
  /\ \/ link = "connecting" /\ link' = "up" /\ Post(<<Event("address")>>)
     \/ link # "down" /\ link' = "down" /\ Post(<<Event("disconnected")>>)
  /\ UNCHANGED joined

Radio ==
  /\ Len(events) < MaxEvents
  /\ LinkChanges \/ \E m \in Macs : Joins(m) \/ Leaves(m)
  /\ UNCHANGED <<task_vars, shared_vars, setup_vars, assigning, mode>>

-----------------------------------------------------------------------------
(* Requests.  A request that finds one waiting is refused.                 *)

Send(kind) == requests' = IF requests = <<>> THEN <<kind>> ELSE requests

(* apply_config(): the endpoint of the card, then the request.             *)
Apply ==
  /\ \/ Send("ap") /\ UNCHANGED endpoint
     \/ Send("station") /\ endpoint' \in {endpoint, "none"}
  /\ UNCHANGED <<request, call, started, initialized, fromHotspot, shared_vars, editable,
                 keyboard, assigning, radio_vars>>

(* Connect, in the Wi-Fi dialog.                                           *)
ConnectClicked ==
  /\ Send("station")
  /\ UNCHANGED <<request, call, started, initialized, fromHotspot, shared_vars, setup_vars,
                 assigning, radio_vars>>

(* network_prepare(), once, before anything else is asked for.             *)
Prepare ==
  /\ initialized = "no" /\ request = "none" /\ requests = <<>>
  /\ requests' = <<"prepare">>
  /\ UNCHANGED <<request, call, started, initialized, fromHotspot, shared_vars, setup_vars,
                 assigning, radio_vars>>

-----------------------------------------------------------------------------
(* network_task()                                                          *)

FirstCall(kind, outcome) ==
  IF outcome # "yes" \/ kind = "prepare" THEN "none" ELSE "leave"

Receive ==
  /\ request = "none" /\ requests # <<>> /\ Len(events) < MaxEvents
  /\ requests' = <<>>
  /\ IF initialized = "no" THEN initialized' \in {"yes", "failed"} ELSE UNCHANGED initialized
  /\ call' = FirstCall(Head(requests), initialized')
  /\ request' = IF call' = "none" THEN "none" ELSE Head(requests)
  /\ UNCHANGED <<started, fromHotspot, shared_vars, setup_vars, assigning, radio_vars>>

(* Whether the hotspot was on is read here and again in Mark.              *)
Leave ==
  /\ call = "leave"
  /\ IF started /\ ~hotspot THEN RadioDisconnects ELSE UNCHANGED radio_vars
  /\ call' = IF request = "ap" THEN "forget" ELSE "mark"
  /\ UNCHANGED <<requests, request, started, initialized, fromHotspot, shared_vars, setup_vars,
                 assigning>>

(* Bug: what the last hotspot leased stays.                                *)
BugForget ==
  /\ call = "forget"
  /\ own' = "none" /\ UNCHANGED peer
  /\ call' = IF request = "ap" THEN "mark" ELSE "mode"
  /\ UNCHANGED <<requests, request, started, initialized, fromHotspot, hotspot, setup_vars,
                 assigning, radio_vars>>

Forget ==
  /\ call = "forget"
  /\ own' = "none" /\ peer' = "none"
  /\ call' = IF request = "ap" THEN "mark" ELSE "mode"
  /\ UNCHANGED <<requests, request, started, initialized, fromHotspot, hotspot, setup_vars,
                 assigning, radio_vars>>

Mark ==
  /\ call = "mark"
  /\ fromHotspot' = (request = "station" /\ hotspot) /\ hotspot' = (request = "ap")
  /\ call' = IF request = "station" /\ hotspot THEN "forget" ELSE "mode"
  /\ UNCHANGED <<requests, request, started, initialized, own, peer, setup_vars, assigning,
                 radio_vars>>

Done == request' = "none" /\ call' = "none"

(* esp_wifi_set_mode(), taken to succeed, and esp_wifi_set_config(), which *)
(* may fail.                                                               *)
SetMode ==
  /\ call = "mode"
  /\ RadioMode(request)
  /\ (call' = "connect" /\ UNCHANGED request) \/ Done
  /\ UNCHANGED <<requests, started, initialized, fromHotspot, shared_vars, setup_vars, assigning>>

(* The first request starts the radio; a station that was running is told  *)
(* to connect, and one that follows a hotspot connects when it starts.     *)
Connect ==
  /\ call = "connect" /\ Done
  /\ \/ /\ started' = TRUE
        /\ IF ~started THEN RadioStarts
           ELSE IF request = "station" /\ ~fromHotspot THEN RadioConnects /\ UNCHANGED events
           ELSE UNCHANGED radio_vars
     \/ UNCHANGED <<radio_vars, started>>  \* the call fails
  /\ UNCHANGED <<requests, initialized, fromHotspot, shared_vars, setup_vars, assigning>>

NetworkTask == Receive \/ Leave \/ Forget \/ Mark \/ SetMode \/ Connect

-----------------------------------------------------------------------------
(* The event loop: wifi_event(), one event at a time.                      *)

handled == events' = Tail(events)
Waiting(kind) == events # <<>> /\ Head(events).kind = kind /\ assigning = "none"

OnStationStart ==
  /\ Waiting("station start") /\ handled
  /\ IF hotspot THEN UNCHANGED <<mode, link, joined>> ELSE RadioConnects
  /\ UNCHANGED <<task_vars, shared_vars, setup_vars, assigning>>

(* The address is read from the interface, which has it while it runs.     *)
OnApStart ==
  /\ Waiting("ap start") /\ handled
  /\ own' = "ap" /\ peer' = "none"
  /\ UNCHANGED <<task_vars, hotspot, setup_vars, assigning, mode, link, joined>>

(* Bug: the stop of the hotspot keeps its address.                         *)
BugOnApStop ==
  /\ Waiting("ap stop") /\ handled
  /\ peer' = "none"
  /\ UNCHANGED <<task_vars, hotspot, own, setup_vars, assigning, mode, link, joined>>

OnApStop ==
  /\ Waiting("ap stop") /\ handled
  /\ own' = "none" /\ peer' = "none"
  /\ UNCHANGED <<task_vars, hotspot, setup_vars, assigning, mode, link, joined>>

(* peer_assigned(): the peer, then the endpoint.                           *)
OnLease ==
  /\ Waiting("lease") /\ handled
  /\ peer' = Head(events).mac /\ assigning' = Head(events).mac
  /\ UNCHANGED <<task_vars, hotspot, own, setup_vars, mode, link, joined>>

(* Bug: the first Mac that joins is kept.                                  *)
BugAssign ==
  /\ assigning # "none" /\ assigning' = "none"
  /\ endpoint' = IF endpoint = "none" THEN assigning ELSE endpoint
  /\ UNCHANGED <<task_vars, shared_vars, editable, keyboard, radio_vars>>

Assign ==
  /\ assigning # "none" /\ assigning' = "none"
  /\ endpoint' = assigning
  /\ UNCHANGED <<task_vars, shared_vars, editable, keyboard, radio_vars>>

(* Bug: nobody notices that the Mac has left.                              *)
BugOnLeft ==
  /\ Waiting("left") /\ handled
  /\ UNCHANGED <<task_vars, shared_vars, setup_vars, assigning, mode, link, joined>>

(* Only the Mac whose lease it is counts.                                  *)
OnLeft ==
  /\ Waiting("left") /\ handled
  /\ peer' = IF peer = Head(events).mac THEN "none" ELSE peer
  /\ UNCHANGED <<task_vars, hotspot, own, setup_vars, assigning, mode, link, joined>>

OnDisconnected ==
  /\ Waiting("disconnected") /\ handled
  /\ own' = "none"
  /\ UNCHANGED <<task_vars, hotspot, peer, setup_vars, assigning, mode, link, joined>>

OnAddress ==
  /\ Waiting("address") /\ handled
  /\ own' = "station"
  /\ UNCHANGED <<task_vars, hotspot, peer, setup_vars, assigning, mode, link, joined>>

EventLoop ==
  \/ OnStationStart \/ OnApStart \/ OnApStop \/ OnLease \/ Assign \/ OnLeft
  \/ OnDisconnected \/ OnAddress

-----------------------------------------------------------------------------
(* The Setup screen, in the LVGL task.                                     *)

(* refresh(), every second and when the screen opens.                      *)
Refresh ==
  /\ editable' = ~hotspot /\ keyboard' = (keyboard /\ ~hotspot)
  /\ UNCHANGED <<task_vars, shared_vars, endpoint, assigning, radio_vars>>

OpenKeyboard ==
  /\ editable /\ ~keyboard /\ keyboard' = TRUE
  /\ UNCHANGED <<task_vars, shared_vars, endpoint, editable, assigning, radio_vars>>

(* commit(), on ready, Done or Wi-Fi setup; or the keyboard is cancelled.  *)
CloseKeyboard ==
  /\ keyboard /\ keyboard' = FALSE /\ editable' = ~hotspot
  /\ endpoint' \in {endpoint, "none"}
  /\ UNCHANGED <<task_vars, shared_vars, assigning, radio_vars>>

Screen == Refresh \/ OpenKeyboard \/ CloseKeyboard

-----------------------------------------------------------------------------
Next == Apply \/ ConnectClicked \/ Prepare \/ NetworkTask \/ EventLoop \/ Screen \/ Radio

Spec == Init /\ [][Next]_vars

-----------------------------------------------------------------------------
(* Nothing asked for and nothing posted is still to be carried out.        *)
settled == requests = <<>> /\ request = "none" /\ events = <<>> /\ assigning = "none"

(* When everything has been carried out, an address that is shown is the   *)
(* radio's: of the link that is up, of the hotspot that runs, of a Mac     *)
(* that is joined; requests and events cross on the way there.  And the    *)
(* service is looked for at the lease of the Mac that is joined, or        *)
(* nowhere, however the addresses of the card, of the keyboard and of      *)
(* other Macs came in between ("an old lease or the SD value, neither on   *)
(* this network", setup.h).                                                *)
AddressesAreReal ==
  settled =>
    /\ own = "station" => mode = "station" /\ link = "up"
    /\ own = "ap" => mode = "ap"
    /\ peer # "none" => peer \in joined
    /\ hotspot /\ peer # "none" => endpoint = peer
=============================================================================
