--------------------------- MODULE NetworkProofs ------------------------------
(***************************************************************************)
(* An address that is shown once everything has been carried out is real,  *)
(* for any set of Macs and any bound on the waiting events.                *)
(*                                                                         *)
(* While requests and events cross, an address may well be stale.  What is *)
(* always so is a debt: a stale address, or an event that would write one, *)
(* is followed in the queue by an event that takes it back.                *)
(***************************************************************************)
EXTENDS Network, TLAPS

-----------------------------------------------------------------------------
(* The inductive invariant.                                                *)

Left(m) == [kind |-> "left", mac |-> m]
Lease(m) == [kind |-> "lease", mac |-> m]
Plain == {Event(k) : k \in {"disconnected", "address", "station start", "ap start", "ap stop"}}
Events == Plain \cup {Left(m) : m \in Macs} \cup {Lease(m) : m \in Macs}

Addresses == Macs \cup {"none"}

TaskTypes ==
  /\ requests \in {<<>>, <<"prepare">>, <<"station">>, <<"ap">>}
  /\ request \in {"none", "station", "ap"}
  /\ call \in {"none", "leave", "forget", "mark", "mode", "connect"}
  /\ initialized \in {"no", "yes", "failed"}

AddressTypes ==
  /\ own \in {"none", "station", "ap"}
  /\ peer \in Addresses /\ endpoint \in Addresses /\ assigning \in Addresses

FlagTypes ==
  /\ started \in BOOLEAN /\ fromHotspot \in BOOLEAN /\ hotspot \in BOOLEAN
  /\ editable \in BOOLEAN /\ keyboard \in BOOLEAN

RadioTypes ==
  /\ mode \in {"station", "ap"} /\ link \in {"down", "connecting", "up"}
  /\ joined \in SUBSET Macs

NetworkTypes ==
  TaskTypes /\ AddressTypes /\ FlagTypes /\ RadioTypes /\ events \in Seq(Events)

(* One of E waits, after the i-th event.                                   *)
Later(i, E) == \E j \in 1..Len(events) : j > i /\ events[j] \in E

(* The events that take back the address of a link, of the hotspot, and of *)
(* a Mac.                                                                  *)
LinkEnds == {Event("disconnected"), Event("ap start"), Event("ap stop")}
HotspotEnds == {Event("ap stop")}
Ends(m) == {Event("ap start"), Event("ap stop"), Left(m)}

Up == mode = "station" /\ link = "up"

(* A request is carried out only when the radio could be made ready, and   *)
(* what asks for that comes before all others.                             *)
Begun ==
  /\ request = "none" <=> call = "none"
  /\ initialized # "yes" => request = "none" /\ ~hotspot
  /\ requests = <<"prepare">> => initialized = "no"

(* A radio that does not run has no link, no Mac and nothing to say.       *)
Silent ==
  /\ ~started => events = <<>> /\ link = "down" /\ joined = {} /\ own = "none"
  /\ mode = "ap" => link = "down"
  /\ mode = "station" => joined = {}

(* The flag and the radio differ only while a request changes them.        *)
Flag ==
  /\ mode = "ap" => hotspot \/ (request = "station" /\ call \in {"forget", "mode"})
  /\ request = "ap" /\ call \in {"mode", "connect"} => hotspot

(* Nobody has joined a hotspot that the screen has not seen.               *)
Unseen ==
  /\ keyboard => editable
  /\ hotspot /\ editable => joined = {}

(* The address of a link, shown or on its way, is of the link that is up   *)
(* or will be taken back.                                                  *)
LinkDebt ==
  /\ own = "station" => Up \/ Later(0, LinkEnds)
  /\ \A i \in 1..Len(events) : events[i] = Event("address") => Up \/ Later(i, LinkEnds)

(* So is the address of the hotspot,                                       *)
HotspotDebt ==
  /\ own = "ap" => mode = "ap" \/ Later(0, HotspotEnds)
  /\ \A i \in 1..Len(events) :
       events[i] = Event("ap start") => mode = "ap" \/ Later(i, HotspotEnds)

(* and the Mac a lease was given to.                                       *)
MacDebt ==
  \A m \in Macs \ {"none"} :
    /\ peer = m => m \in joined \/ Later(0, Ends(m))
    /\ \A i \in 1..Len(events) : events[i] = Lease(m) => m \in joined \/ Later(i, Ends(m))

(* A request that waits or is carried out will forget the Mac, or turn the *)
(* hotspot off.                                                            *)
Forgetting ==
  \/ requests \in {<<"station">>, <<"ap">>}
  \/ request = "station" /\ call \in {"leave", "mark"}
  \/ request = "ap" /\ call \in {"leave", "forget"}

(* The endpoint is the lease of the Mac, or is about to be, or the Mac is  *)
(* about to be forgotten.                                                  *)
EndpointDebt ==
  /\ assigning # "none" => peer \in {"none", assigning}
  /\ \A m \in Macs \ {"none"} :
       hotspot /\ peer = m => endpoint = m \/ assigning = m \/ Forgetting \/ Later(0, Ends(m))

NetworkInv ==
  /\ NetworkTypes /\ Begun /\ Silent /\ Flag /\ Unseen
  /\ LinkDebt /\ HotspotDebt /\ MacDebt /\ EndpointDebt

(* What the radio does, and what it posts of it: the end of a link, of the *)
(* hotspot and of a Mac's stay, and of no such beginning that is not so.   *)
Told(new) ==
  /\ new \in Seq(Events) /\ Post(new) /\ UNCHANGED <<own, peer>>
  /\ Up /\ ~Up' => \E k \in 1..Len(new) : new[k] \in LinkEnds
  /\ \A k \in 1..Len(new) : new[k] = Event("address") => Up'
  /\ started /\ mode = "ap" /\ mode' # "ap" => \E k \in 1..Len(new) : new[k] \in HotspotEnds
  /\ \A k \in 1..Len(new) : new[k] = Event("ap start") => mode' = "ap"
  /\ \A m \in joined \ joined' : \E k \in 1..Len(new) : new[k] \in Ends(m)
  /\ \A m \in Macs, k \in 1..Len(new) : new[k] = Lease(m) => m \in joined'

-----------------------------------------------------------------------------
(* The queue of events.                                                    *)

(* What the radio posts comes after what waits, in order.                  *)
LEMMA PostedLast ==
  ASSUME events \in Seq(Events), NEW new \in Seq(Events), Post(new)
  PROVE  /\ events' \in Seq(Events) /\ Len(events') = Len(events) + Len(new)
         /\ Len(events) \in Nat /\ Len(new) \in Nat
         /\ \A i \in 1..Len(events) : events'[i] = events[i]
         /\ \A k \in 1..Len(new) : events'[Len(events) + k] = new[k]
         /\ \A i \in 1..Len(events') :
              i \in 1..Len(events) \/ \E k \in 1..Len(new) : i = Len(events) + k
  <1>1. events' = events \o new
    BY DEF Post
  <1>2. /\ events' \in Seq(Events) /\ Len(events') = Len(events) + Len(new)
        /\ Len(events) \in Nat /\ Len(new) \in Nat
    BY <1>1
  <1>3. /\ \A i \in 1..Len(events) : events'[i] = events[i]
        /\ \A k \in 1..Len(new) : events'[Len(events) + k] = new[k]
    BY <1>1
  <1>4. ASSUME NEW i \in 1..Len(events'), i \notin 1..Len(events)
        PROVE  \E k \in 1..Len(new) : i = Len(events) + k
    <2>1. i - Len(events) \in 1..Len(new) /\ i = Len(events) + (i - Len(events))
      BY <1>2, <1>4
    <2> QED
      BY <2>1
  <1> QED
    BY <1>2, <1>3, <1>4

(* What comes later still does when more is posted.                        *)
LEMMA LaterStays ==
  ASSUME events \in Seq(Events), NEW new \in Seq(Events), Post(new),
         NEW i \in Nat, NEW E, Later(i, E)
  PROVE  Later(i, E)'
  <1>1. PICK j \in 1..Len(events) : j > i /\ events[j] \in E
    BY DEF Later
  <1>2. j \in 1..Len(events') /\ events'[j] = events[j]
    BY <1>1, PostedLast
  <1> QED
    BY <1>1, <1>2 DEF Later

(* What is posted comes later than all that waits.                         *)
LEMMA LaterPosted ==
  ASSUME events \in Seq(Events), NEW new \in Seq(Events), Post(new),
         NEW i \in 0..Len(events), NEW E, \E k \in 1..Len(new) : new[k] \in E
  PROVE  Later(i, E)'
  <1>1. PICK k \in 1..Len(new) : new[k] \in E
    OBVIOUS
  <1> DEFINE j == Len(events) + k
  <1>2. j \in 1..Len(events') /\ j > i
    BY <1>1, PostedLast
  <1>3. events'[j] \in E
    BY <1>1, PostedLast
  <1> HIDE DEF j
  <1> QED
    BY <1>2, <1>3 DEF Later

(* When the first event has been handled, every other is one place nearer. *)
LEMMA HandledFirst ==
  ASSUME events \in Seq(Events), events # <<>>, handled
  PROVE  /\ events' \in Seq(Events) /\ Len(events') = Len(events) - 1 /\ Len(events) \in Nat
         /\ \A i \in 1..Len(events') : events'[i] = events[i + 1] /\ i + 1 \in 1..Len(events)
         /\ Head(events) = events[1] /\ events[1] \in Events /\ 1 \in 1..Len(events)
  <1>1. events' = Tail(events)
    BY DEF handled
  <1>2. /\ events' \in Seq(Events) /\ Len(events') = Len(events) - 1 /\ Len(events) \in Nat
        /\ Len(events) > 0
    BY <1>1
  <1>3. \A i \in 1..Len(events') : events'[i] = events[i + 1] /\ i + 1 \in 1..Len(events)
    BY <1>1, <1>2
  <1>4. Head(events) = events[1] /\ events[1] \in Events /\ 1 \in 1..Len(events)
    BY <1>2
  <1> QED
    BY <1>2, <1>3, <1>4

(* What came later than an event that is not the first still does.         *)
LEMMA LaterNearer ==
  ASSUME events \in Seq(Events), events # <<>>, handled,
         NEW i \in Nat, NEW E, Later(i + 1, E)
  PROVE  Later(i, E)'
  <1>1. PICK j \in 1..Len(events) : j > i + 1 /\ events[j] \in E
    BY DEF Later
  <1> DEFINE k == j - 1
  <1>2. k \in 1..Len(events') /\ k > i /\ k + 1 = j
    BY <1>1, HandledFirst
  <1>3. events'[k] \in E
    BY <1>1, <1>2, HandledFirst
  <1> HIDE DEF k
  <1> QED
    BY <1>2, <1>3 DEF Later

(* What waits is the first event, or still waits.                          *)
LEMMA FirstOrLater ==
  ASSUME events \in Seq(Events), events # <<>>, handled, NEW E, Later(0, E)
  PROVE  events[1] \in E \/ Later(0, E)'
  <1>1. PICK j \in 1..Len(events) : j > 0 /\ events[j] \in E
    BY DEF Later
  <1>2. CASE j = 1
    BY <1>1, <1>2
  <1>3. CASE j # 1
    <2>1. Later(0 + 1, E)
      BY <1>1, <1>3 DEF Later
    <2> QED
      BY <2>1, LaterNearer
  <1> QED
    BY <1>2, <1>3

(* Nothing is later when nothing waits.                                    *)
LEMMA NothingLater ==
  ASSUME events = <<>>, NEW i, NEW E
  PROVE  ~Later(i, E)
  BY DEF Later

(* The events are apart.                                                   *)
LEMMA Kinds ==
  /\ \A k, l : Event(k) = Event(l) <=> k = l
  /\ \A k, m : k # "left" => Event(k) # Left(m)
  /\ \A k, m : k # "lease" => Event(k) # Lease(m)
  /\ \A m, n : Left(m) # Lease(n)
  /\ \A m, n : (Left(m) = Left(n) <=> m = n) /\ (Lease(m) = Lease(n) <=> m = n)
  /\ \A e \in Events : \/ e.kind \in {"disconnected", "address", "station start", "ap start",
                                      "ap stop"} /\ e = Event(e.kind)
                       \/ e.kind = "left" /\ e.mac \in Macs /\ e = Left(e.mac)
                       \/ e.kind = "lease" /\ e.mac \in Macs /\ e = Lease(e.mac)
  <1>1. /\ \A k, l : Event(k) = Event(l) <=> k = l
        /\ \A k, m : k # "left" => Event(k) # Left(m)
        /\ \A k, m : k # "lease" => Event(k) # Lease(m)
        /\ \A m, n : Left(m) # Lease(n)
        /\ \A m, n : (Left(m) = Left(n) <=> m = n) /\ (Lease(m) = Lease(n) <=> m = n)
    <2>1. \A k : Event(k).kind = k
      BY DEF Event
    <2>2. \A m : /\ Left(m).kind = "left" /\ Left(m).mac = m
                /\ Lease(m).kind = "lease" /\ Lease(m).mac = m
      BY DEF Left, Lease
    <2> QED
      BY <2>1, <2>2
  <1>2. ASSUME NEW e \in Plain
        PROVE  /\ e.kind \in {"disconnected", "address", "station start", "ap start", "ap stop"}
               /\ e = Event(e.kind)
    <2>1. PICK k \in {"disconnected", "address", "station start", "ap start", "ap stop"} :
            e = Event(k)
      BY DEF Plain
    <2>2. Event(k).kind = k
      BY DEF Event
    <2> QED
      BY <2>1, <2>2
  <1>3. ASSUME NEW m \in Macs
        PROVE  /\ Left(m).kind = "left" /\ Left(m).mac = m
               /\ Lease(m).kind = "lease" /\ Lease(m).mac = m
    BY DEF Left, Lease
  <1>4. ASSUME NEW e \in Events
        PROVE  \/ e \in Plain
               \/ e.kind = "left" /\ e.mac \in Macs /\ e = Left(e.mac)
               \/ e.kind = "lease" /\ e.mac \in Macs /\ e = Lease(e.mac)
    <2>1. CASE e \in {Left(m) : m \in Macs}
      BY <1>3, <2>1
    <2>2. CASE e \in {Lease(m) : m \in Macs}
      BY <1>3, <2>2
    <2> QED
      BY <2>1, <2>2 DEF Events
  <1> QED
    BY <1>1, <1>2, <1>4

-----------------------------------------------------------------------------
(* What a step does to the queue and to the addresses.                     *)

(* A step that leaves the queue alone, and the radio, and forgets the      *)
(* addresses or keeps them.                                                *)
Still ==
  /\ UNCHANGED <<mode, link, joined, events>>
  /\ own' \in {own, "none"} /\ peer' \in {peer, "none"}

(* Nothing is told of what does not change.                                *)
LEMMA NothingToTell ==
  ASSUME Post(<<>>), own' = own, peer' = peer, Up => Up',
         started /\ mode = "ap" => mode' = "ap", joined \subseteq joined'
  PROVE  Told(<<>>)
  <1>1. <<>> \in Seq(Events) /\ Len(<<>>) = 0
    OBVIOUS
  <1>2. \A k \in 1..Len(<<>>) : FALSE
    BY <1>1
  <1> QED
    BY <1>1, <1>2 DEF Told

(* A sequence of one.                                                      *)
LEMMA Singles ==
  ASSUME NEW S, NEW e \in S, NEW new, new = <<e>>
  PROVE  new \in Seq(S) /\ 1 \in 1..Len(new) /\ \A k \in 1..Len(new) : new[k] = e
  OBVIOUS

(* The same of two.                                                        *)
LEMMA Pairs ==
  ASSUME NEW S, NEW e \in S, NEW f \in S, NEW new, new = <<e, f>>
  PROVE  /\ new \in Seq(S) /\ 1 \in 1..Len(new) /\ new[1] = e
         /\ \A k \in 1..Len(new) : new[k] \in {e, f}
  OBVIOUS

(* One event tells all that changes.                                       *)
LEMMA OneToTell ==
  ASSUME NEW e \in Events, Post(<<e>>), own' = own, peer' = peer,
         Up /\ ~Up' => e \in LinkEnds, e = Event("address") => Up',
         started /\ mode = "ap" /\ mode' # "ap" => e \in HotspotEnds,
         e = Event("ap start") => mode' = "ap",
         \A m \in joined \ joined' : e \in Ends(m),
         \A m \in Macs : e = Lease(m) => m \in joined'
  PROVE  Told(<<e>>)
  <1> DEFINE new == <<e>>
  <1>1. Post(new)
    OBVIOUS
  <1>2. new \in Seq(Events) /\ 1 \in 1..Len(new) /\ \A k \in 1..Len(new) : new[k] = e
    BY Singles
  <1> HIDE DEF new
  <1>3. Told(new)
    BY <1>1, <1>2 DEF Told
  <1> QED
    BY <1>3 DEF new

(* Every call of the radio, and what it does by itself, is told.           *)
LEMMA CallsAreTold ==
  ASSUME NetworkInv, Leave \/ SetMode \/ Connect \/ Radio
  PROVE  \E new : Told(new)
  <1> USE DEF NetworkInv, NetworkTypes, TaskTypes, AddressTypes, FlagTypes, RadioTypes
  <1>0. /\ \A k \in {"disconnected", "address", "station start", "ap start", "ap stop"} :
             Event(k) \in Events
        /\ \A m \in Macs : Left(m) \in Events /\ Lease(m) \in Events
    BY DEF Events, Plain
  <1>k. /\ \A k \in {"disconnected", "station start", "ap start", "ap stop"} :
             Event(k) # Event("address")
        /\ \A k \in {"disconnected", "address", "station start", "ap stop"} :
             Event(k) # Event("ap start")
        /\ \A k \in {"disconnected", "address", "station start", "ap start", "ap stop"} :
             \A m : Event(k) # Lease(m)
        /\ \A m, n : Left(m) # Lease(n) /\ (Lease(m) = Lease(n) => m = n)
        /\ \A m : /\ Left(m) # Event("address") /\ Lease(m) # Event("address")
                  /\ Left(m) # Event("ap start") /\ Lease(m) # Event("ap start")
    BY Kinds, ZenonT(30)
  <1>e. events \o <<>> = events
    OBVIOUS
  <1>1. ASSUME UNCHANGED <<radio_vars, own, peer>>
        PROVE  Told(<<>>)
    <2>1. Post(<<>>)
      BY <1>1, <1>e DEF Post, radio_vars
    <2> QED
      BY <1>1, <2>1, NothingToTell DEF Up, radio_vars
  <1>2. ASSUME RadioDisconnects, UNCHANGED <<own, peer>>
        PROVE  \E new : Told(new)
    <2>1. CASE link = "down"
      <3>1. Post(<<>>)
        BY <1>2, <2>1 DEF RadioDisconnects
      <3> QED
        BY <1>2, <2>1, <3>1, NothingToTell DEF Up, RadioDisconnects
    <2>2. CASE link # "down"
      <3>1. Post(<<Event("disconnected")>>)
        BY <1>2, <2>2 DEF RadioDisconnects
      <3>2. Event("disconnected") \in LinkEnds
        BY DEF LinkEnds
      <3>3. mode' = mode /\ joined' = joined
        BY <1>2 DEF RadioDisconnects
      <3>4. Told(<<Event("disconnected")>>)
        BY <1>0, <1>2, <3>1, <3>2, <3>3, <1>k, OneToTell
      <3> QED
        BY <3>4
    <2> QED
      BY <2>1, <2>2
  <1>3. ASSUME NEW a \in {"station", "ap"}, RadioMode(a), UNCHANGED <<own, peer>>
        PROVE  \E new : Told(new)
    <2>1. CASE a = mode \/ ~started
      <3>1. Post(<<>>)
        BY <1>3, <2>1 DEF RadioMode
      <3>2. Up => Up'
        BY <1>3, <2>1 DEF RadioMode, Up, Silent
      <3>3. joined' = joined
        BY <1>3, <2>1 DEF RadioMode, Silent
      <3>4. started => mode' = mode
        BY <1>3, <2>1 DEF RadioMode
      <3>5. Told(<<>>)
        BY <1>3, <3>1, <3>2, <3>3, <3>4, NothingToTell
      <3> QED
        BY <3>5
    <2>2. CASE a # mode /\ started /\ a = "ap"
      <3>1. Post(<<Event("ap start")>>)
        BY <1>3, <2>2 DEF RadioMode
      <3>2. mode' = "ap" /\ joined = {} /\ mode = "station"
        BY <1>3, <2>2 DEF RadioMode, Silent
      <3>3. Event("ap start") \in LinkEnds
        BY DEF LinkEnds
      <3>4. Told(<<Event("ap start")>>)
        BY <1>0, <1>3, <3>1, <3>2, <3>3, <1>k, OneToTell
      <3> QED
        BY <3>4
    <2>3. CASE a # mode /\ started /\ a = "station"
      <3> DEFINE new == <<Event("ap stop"), Event("station start")>>
      <3>1. Post(new)
        BY <1>3, <2>3 DEF RadioMode
      <3>2. /\ new \in Seq(Events) /\ 1 \in 1..Len(new) /\ new[1] = Event("ap stop")
            /\ \A k \in 1..Len(new) : new[k] \in {Event("ap stop"), Event("station start")}
        <4> DEFINE e == Event("ap stop")
                   f == Event("station start")
        <4>1. e \in Events /\ f \in Events /\ new = <<e, f>>
          BY <1>0
        <4> HIDE DEF e, f, new
        <4>2. /\ new \in Seq(Events) /\ 1 \in 1..Len(new) /\ new[1] = e
              /\ \A k \in 1..Len(new) : new[k] \in {e, f}
          BY <4>1, Pairs
        <4> QED
          BY <4>2 DEF e, f
      <3> HIDE DEF new
      <3>4. /\ \A m : new[1] \in Ends(m)
            /\ new[1] \in HotspotEnds /\ new[1] \in LinkEnds
        BY <3>2 DEF Ends, HotspotEnds, LinkEnds
      <3>5. \A k \in 1..Len(new) : /\ new[k] # Event("address") /\ new[k] # Event("ap start")
                                   /\ \A m \in Macs : new[k] # Lease(m)
        BY <1>k, <3>2
      <3>6. Told(new)
        BY <1>3, <3>1, <3>2, <3>4, <3>5 DEF Told
      <3> QED
        BY <3>6
    <2> QED
      BY <1>3, <2>1, <2>2, <2>3
  <1>4. ASSUME RadioStarts, UNCHANGED <<own, peer>>
        PROVE  \E new : Told(new)
    <2>1. PICK k \in {"ap start", "station start"} :
            Post(<<Event(k)>>) /\ (k = "ap start" => mode = "ap")
      BY <1>4 DEF RadioStarts
    <2>2. UNCHANGED <<mode, link, joined>>
      BY <1>4 DEF RadioStarts
    <2>3. Told(<<Event(k)>>)
      BY <1>0, <1>4, <2>1, <2>2, <1>k, OneToTell DEF Up
    <2> QED
      BY <2>3
  <1>5. ASSUME RadioConnects, UNCHANGED <<events, own, peer>>
        PROVE  Told(<<>>)
    <2>1. Post(<<>>)
      BY <1>5, <1>e DEF Post
    <2> QED
      BY <1>5, <2>1, NothingToTell DEF Up, RadioConnects
  <1>6. CASE Leave
    BY <1>1, <1>2, <1>6 DEF Leave, shared_vars
  <1>7. CASE SetMode
    <2>1. request \in {"station", "ap"}
      BY <1>7 DEF SetMode, Begun
    <2> QED
      BY <1>3, <1>7, <2>1 DEF SetMode, shared_vars
  <1>8. CASE Connect
    BY <1>1, <1>4, <1>5, <1>8 DEF Connect, shared_vars
  <1>9. CASE Radio
    <2>1. UNCHANGED <<own, peer, mode>>
      BY <1>9 DEF Radio, shared_vars
    <2>2. CASE LinkChanges
      <3>1. PICK k \in {"address", "disconnected"} :
              /\ Post(<<Event(k)>>) /\ joined' = joined
              /\ k = "address" => link = "connecting" /\ link' = "up"
        BY <2>2 DEF LinkChanges
      <3>2. k = "address" => Up' /\ ~Up
        BY <2>1, <3>1 DEF Up, Silent
      <3>3. k = "disconnected" => Event(k) \in LinkEnds
        BY DEF LinkEnds
      <3>4. Told(<<Event(k)>>)
        BY <1>0, <2>1, <3>1, <3>2, <3>3, <1>k, OneToTell
      <3> QED
        BY <3>4
    <2>3. ASSUME NEW m \in Macs, Joins(m)
          PROVE  \E new : Told(new)
      <3>1. Post(<<Lease(m)>>)
        BY <2>3 DEF Joins, Lease
      <3>2. joined' = joined \cup {m} /\ link' = link
        BY <2>3 DEF Joins
      <3>3. Told(<<Lease(m)>>)
        BY <1>0, <2>1, <3>1, <3>2, <1>k, OneToTell DEF Up
      <3> QED
        BY <3>3
    <2>4. ASSUME NEW m \in Macs, Leaves(m)
          PROVE  \E new : Told(new)
      <3>1. Post(<<Left(m)>>)
        BY <2>4 DEF Leaves, Left
      <3>2. joined' = joined \ {m} /\ link' = link
        BY <2>4 DEF Leaves
      <3>3. Left(m) \in Ends(m)
        BY DEF Ends
      <3>4. Told(<<Left(m)>>)
        BY <1>0, <2>1, <3>1, <3>2, <3>3, <1>k, OneToTell DEF Up
      <3> QED
        BY <3>4
    <2> QED
      BY <1>9, <2>2, <2>3, <2>4 DEF Radio
  <1> QED
    BY <1>6, <1>7, <1>8, <1>9

(* The first event is handled: what wifi_event() makes of each.            *)
Handling ==
  /\ events # <<>> /\ handled
  /\ UNCHANGED <<mode, joined>> /\ (Up => Up')
  /\ \/ events[1] = Event("station start") /\ UNCHANGED <<own, peer>>
     \/ events[1] = Event("ap start") /\ own' = "ap" /\ peer' = "none"
     \/ events[1] = Event("ap stop") /\ own' = "none" /\ peer' = "none"
     \/ events[1] = Event("disconnected") /\ own' = "none" /\ peer' = peer
     \/ events[1] = Event("address") /\ own' = "station" /\ peer' = peer
     \/ \E m \in Macs : events[1] = Lease(m) /\ own' = own /\ peer' = m
     \/ \E m \in Macs : /\ events[1] = Left(m) /\ own' = own
                        /\ peer' = IF peer = m THEN "none" ELSE peer

(* A handler handles the first event, as what it is.                       *)
LEMMA HandlersHandle ==
  ASSUME NetworkInv, EventLoop, ~Assign
  PROVE  Handling
  <1>1. events \in Seq(Events)
    BY DEF NetworkInv, NetworkTypes
  <1>2. events # <<>> /\ handled
    BY DEF EventLoop, OnStationStart, OnApStart, OnApStop, OnLease, OnLeft, OnDisconnected,
           OnAddress, Waiting
  <1>3. Head(events) = events[1] /\ events[1] \in Events
    BY <1>1, <1>2, HandledFirst
  <1>4. UNCHANGED <<mode, joined>> /\ (Up => Up')
    BY DEF EventLoop, OnStationStart, OnApStart, OnApStop, OnLease, OnLeft, OnDisconnected,
           OnAddress, RadioConnects, Up
  <1>5. /\ events[1].kind \in {"disconnected", "address", "station start", "ap start", "ap stop"} =>
             events[1] = Event(events[1].kind)
        /\ events[1].kind = "left" => events[1].mac \in Macs /\ events[1] = Left(events[1].mac)
        /\ events[1].kind = "lease" => events[1].mac \in Macs /\ events[1] = Lease(events[1].mac)
    BY <1>3, Kinds
  <1>6. CASE OnStationStart
    <2>1. events[1] = Event("station start") /\ UNCHANGED <<own, peer>>
      BY <1>3, <1>5, <1>6 DEF OnStationStart, Waiting, shared_vars
    <2> QED
      BY <1>2, <1>4, <2>1 DEF Handling
  <1>7. CASE OnApStart
    <2>1. events[1] = Event("ap start") /\ own' = "ap" /\ peer' = "none"
      BY <1>3, <1>5, <1>7 DEF OnApStart, Waiting
    <2> QED
      BY <1>2, <1>4, <2>1 DEF Handling
  <1>8. CASE OnApStop
    <2>1. events[1] = Event("ap stop") /\ own' = "none" /\ peer' = "none"
      BY <1>3, <1>5, <1>8 DEF OnApStop, Waiting
    <2> QED
      BY <1>2, <1>4, <2>1 DEF Handling
  <1>9. CASE OnLease
    <2>1. \E m \in Macs : events[1] = Lease(m) /\ own' = own /\ peer' = m
      BY <1>3, <1>5, <1>9 DEF OnLease, Waiting
    <2> QED
      BY <1>2, <1>4, <2>1 DEF Handling
  <1>10. CASE OnLeft
    <2>1. \E m \in Macs : /\ events[1] = Left(m) /\ own' = own
                          /\ peer' = IF peer = m THEN "none" ELSE peer
      BY <1>3, <1>5, <1>10 DEF OnLeft, Waiting
    <2> QED
      BY <1>2, <1>4, <2>1 DEF Handling
  <1>11. CASE OnDisconnected
    <2>1. events[1] = Event("disconnected") /\ own' = "none" /\ peer' = peer
      BY <1>3, <1>5, <1>11 DEF OnDisconnected, Waiting
    <2> QED
      BY <1>2, <1>4, <2>1 DEF Handling
  <1>12. CASE OnAddress
    <2>1. events[1] = Event("address") /\ own' = "station" /\ peer' = peer
      BY <1>3, <1>5, <1>12 DEF OnAddress, Waiting
    <2> QED
      BY <1>2, <1>4, <2>1 DEF Handling
  <1> QED
    BY <1>6, <1>7, <1>8, <1>9, <1>10, <1>11, <1>12 DEF EventLoop

(* Every step is of one of the three ways.                                 *)
LEMMA ThreeWays ==
  ASSUME NetworkInv, [Next]_vars
  PROVE  Still \/ Handling \/ \E new : Told(new)
  <1>1. CASE Apply \/ ConnectClicked \/ Prepare \/ Screen \/ Assign
    BY <1>1 DEF Apply, ConnectClicked, Prepare, Screen, Refresh, OpenKeyboard, CloseKeyboard,
                Assign, Still, radio_vars, shared_vars
  <1>2. CASE Receive \/ Forget \/ Mark
    BY <1>2 DEF Receive, Forget, Mark, Still, radio_vars, shared_vars
  <1>3. CASE Leave \/ SetMode \/ Connect \/ Radio
    BY <1>3, CallsAreTold
  <1>4. CASE EventLoop /\ ~Assign
    BY <1>4, HandlersHandle
  <1>5. CASE UNCHANGED vars
    BY <1>5 DEF vars, Still, radio_vars, shared_vars
  <1> QED
    BY <1>1, <1>2, <1>3, <1>4, <1>5 DEF Next, NetworkTask, EventLoop

(* The events stay events.                                                 *)
LEMMA EventsStay ==
  ASSUME NetworkInv, [Next]_vars
  PROVE  events' \in Seq(Events)
  <1>1. events \in Seq(Events)
    BY DEF NetworkInv, NetworkTypes
  <1>2. CASE Still
    BY <1>1, <1>2 DEF Still
  <1>3. CASE Handling
    BY <1>1, <1>3, HandledFirst DEF Handling
  <1>4. ASSUME NEW new, Told(new)
        PROVE  events' \in Seq(Events)
    BY <1>1, <1>4, PostedLast DEF Told
  <1> QED
    BY <1>2, <1>3, <1>4, ThreeWays

-----------------------------------------------------------------------------
(* The debts.                                                              *)

(* A link that ends takes its address back, in its turn.                   *)
LEMMA LinkDebtStep ==
  ASSUME NetworkInv, [Next]_vars
  PROVE  LinkDebt'
  <1>0. events \in Seq(Events) /\ LinkDebt
    BY DEF NetworkInv, NetworkTypes
  <1>1. CASE Still
    <2>1. \A i : Later(i, LinkEnds)' <=> Later(i, LinkEnds)
      BY <1>1 DEF Still, Later
    <2> QED
      BY <1>0, <1>1, <2>1 DEF Still, LinkDebt, Up
  <1>2. ASSUME NEW new, Told(new)
        PROVE  LinkDebt'
    <2>0. Len(events) \in Nat
      BY <1>0
    <2>1. new \in Seq(Events) /\ Post(new) /\ own' = own
      BY <1>2 DEF Told
    <2>2. \A i \in 0..Len(events) : Later(i, LinkEnds) => Later(i, LinkEnds)'
      BY <1>0, <2>0, <2>1, LaterStays
    <2>3. \A i \in 0..Len(events) : Up => Up' \/ Later(i, LinkEnds)'
      BY <1>0, <1>2, <2>0, <2>1, LaterPosted DEF Told
    <2>4. own' = "station" => Up' \/ Later(0, LinkEnds)'
      BY <1>0, <2>0, <2>1, <2>2, <2>3 DEF LinkDebt
    <2>5. ASSUME NEW i \in 1..Len(events'), events'[i] = Event("address")
          PROVE  Up' \/ Later(i, LinkEnds)'
      <3>1. CASE i \in 1..Len(events)
        <4>1. events[i] = Event("address")
          BY <1>0, <2>1, <2>5, <3>1, PostedLast
        <4>2. Up \/ Later(i, LinkEnds)
          BY <1>0, <3>1, <4>1 DEF LinkDebt
        <4> QED
          BY <2>0, <2>2, <2>3, <3>1, <4>2
      <3>2. CASE i \notin 1..Len(events)
        <4>1. PICK k \in 1..Len(new) : i = Len(events) + k
          BY <1>0, <2>1, <3>2, PostedLast
        <4>2. new[k] = Event("address")
          BY <1>0, <2>1, <2>5, <4>1, PostedLast
        <4> QED
          BY <1>2, <4>2 DEF Told
      <3> QED
        BY <3>1, <3>2
    <2> QED
      BY <2>4, <2>5 DEF LinkDebt
  <1>3. CASE Handling
    <2>1. events # <<>> /\ handled /\ (Up => Up')
      BY <1>3 DEF Handling
    <2>2. ASSUME NEW i \in 1..Len(events'), events'[i] = Event("address")
          PROVE  Up' \/ Later(i, LinkEnds)'
      <3>1. i + 1 \in 1..Len(events) /\ events[i + 1] = Event("address") /\ i \in Nat
        BY <1>0, <2>1, <2>2, HandledFirst
      <3>2. Up \/ Later(i + 1, LinkEnds)
        BY <1>0, <3>1 DEF LinkDebt
      <3> QED
        BY <1>0, <2>1, <3>1, <3>2, LaterNearer
    <2>3. Later(0, LinkEnds) => events[1] \in LinkEnds \/ Later(0, LinkEnds)'
      BY <1>0, <2>1, FirstOrLater
    <2>4. ASSUME own' = "station"
          PROVE  Up' \/ Later(0, LinkEnds)'
      <3>1. CASE events[1] = Event("address")
        <4>1. 1 \in 1..Len(events)
          BY <1>0, <2>1, HandledFirst
        <4>2. Up \/ Later(0 + 1, LinkEnds)
          BY <1>0, <3>1, <4>1 DEF LinkDebt
        <4> QED
          BY <1>0, <2>1, <4>2, LaterNearer
      <3>2. CASE events[1] # Event("address")
        <4>1. own = "station" /\ events[1] \notin LinkEnds
          <5>1. /\ own = "station"
                /\ \/ events[1] = Event("station start")
                   \/ \E m \in Macs : events[1] \in {Lease(m), Left(m)}
            BY <1>3, <2>4, <3>2 DEF Handling
          <5>2. /\ Event("station start") \notin LinkEnds
                /\ \A m : Lease(m) \notin LinkEnds /\ Left(m) \notin LinkEnds
            BY Kinds DEF LinkEnds
          <5> QED
            BY <5>1, <5>2
        <4> QED
          BY <1>0, <2>1, <2>3, <4>1 DEF LinkDebt
      <3> QED
        BY <3>1, <3>2
    <2> QED
      BY <2>2, <2>4 DEF LinkDebt
  <1> QED
    BY <1>1, <1>2, <1>3, ThreeWays

(* A hotspot that ends takes its address back, in its turn.                *)
LEMMA HotspotDebtStep ==
  ASSUME NetworkInv, [Next]_vars
  PROVE  HotspotDebt'
  <1>0. events \in Seq(Events) /\ HotspotDebt
    BY DEF NetworkInv, NetworkTypes
  <1>1. CASE Still
    <2>1. \A i : Later(i, HotspotEnds)' <=> Later(i, HotspotEnds)
      BY <1>1 DEF Still, Later
    <2> QED
      BY <1>0, <1>1, <2>1 DEF Still, HotspotDebt
  <1>2. ASSUME NEW new, Told(new)
        PROVE  HotspotDebt'
    <2>0. Len(events) \in Nat
      BY <1>0
    <2>1. new \in Seq(Events) /\ Post(new) /\ own' = own
      BY <1>2 DEF Told
    <2>2. \A i \in 0..Len(events) : Later(i, HotspotEnds) => Later(i, HotspotEnds)'
      BY <1>0, <2>0, <2>1, LaterStays
    <2>3. ASSUME started, mode = "ap", NEW i \in 0..Len(events)
          PROVE  mode' = "ap" \/ Later(i, HotspotEnds)'
      BY <1>0, <1>2, <2>0, <2>1, <2>3, LaterPosted DEF Told
    <2>s. ~started => events = <<>> /\ own = "none"
      BY DEF NetworkInv, Silent
    <2>4. own' = "ap" => mode' = "ap" \/ Later(0, HotspotEnds)'
      <3>1. 0 \in 0..Len(events)
        BY <2>0
      <3>2. own = "ap" => started /\ (mode = "ap" \/ Later(0, HotspotEnds))
        BY <1>0, <2>s DEF HotspotDebt
      <3> QED
        BY <2>1, <2>2, <2>3, <3>1, <3>2
    <2>5. ASSUME NEW i \in 1..Len(events'), events'[i] = Event("ap start")
          PROVE  mode' = "ap" \/ Later(i, HotspotEnds)'
      <3>1. CASE i \in 1..Len(events)
        <4>1. events[i] = Event("ap start")
          BY <1>0, <2>1, <2>5, <3>1, PostedLast
        <4>2. mode = "ap" \/ Later(i, HotspotEnds)
          BY <1>0, <3>1, <4>1 DEF HotspotDebt
        <4> QED
          BY <2>0, <2>2, <2>3, <2>s, <3>1, <4>2
      <3>2. CASE i \notin 1..Len(events)
        <4>1. PICK k \in 1..Len(new) : i = Len(events) + k
          BY <1>0, <2>1, <3>2, PostedLast
        <4>2. new[k] = Event("ap start")
          BY <1>0, <2>1, <2>5, <4>1, PostedLast
        <4> QED
          BY <1>2, <4>2 DEF Told
      <3> QED
        BY <3>1, <3>2
    <2> QED
      BY <2>4, <2>5 DEF HotspotDebt
  <1>3. CASE Handling
    <2>1. events # <<>> /\ handled /\ mode' = mode
      BY <1>3 DEF Handling
    <2>2. ASSUME NEW i \in 1..Len(events'), events'[i] = Event("ap start")
          PROVE  mode' = "ap" \/ Later(i, HotspotEnds)'
      <3>1. i + 1 \in 1..Len(events) /\ events[i + 1] = Event("ap start") /\ i \in Nat
        <4>1. i + 1 \in 1..Len(events) /\ events'[i] = events[i + 1]
          BY <1>0, <2>1, HandledFirst
        <4>2. Len(events') = Len(events) - 1 /\ Len(events) \in Nat
          BY <1>0, <2>1, HandledFirst
        <4>3. i \in Nat
          BY <4>2
        <4> QED
          BY <2>2, <4>1, <4>3
      <3>2. mode = "ap" \/ Later(i + 1, HotspotEnds)
        BY <1>0, <3>1 DEF HotspotDebt
      <3> QED
        BY <1>0, <2>1, <3>1, <3>2, LaterNearer
    <2>3. Later(0, HotspotEnds) => events[1] \in HotspotEnds \/ Later(0, HotspotEnds)'
      BY <1>0, <2>1, FirstOrLater
    <2>4. ASSUME own' = "ap"
          PROVE  mode' = "ap" \/ Later(0, HotspotEnds)'
      <3>1. CASE events[1] = Event("ap start")
        <4>1. 1 \in 1..Len(events)
          BY <1>0, <2>1, HandledFirst
        <4>2. mode = "ap" \/ Later(1, HotspotEnds)
          BY <1>0, <3>1, <4>1 DEF HotspotDebt
        <4>3. 0 + 1 = 1
          OBVIOUS
        <4> QED
          BY <1>0, <2>1, <4>2, <4>3, LaterNearer
      <3>2. CASE events[1] # Event("ap start")
        <4>1. own = "ap" /\ events[1] \notin HotspotEnds
          <5>1. /\ own = "ap"
                /\ \/ events[1] = Event("station start")
                   \/ \E m \in Macs : events[1] \in {Lease(m), Left(m)}
            BY <1>3, <2>4, <3>2 DEF Handling
          <5>2. /\ Event("station start") \notin HotspotEnds
                /\ \A m : Lease(m) \notin HotspotEnds /\ Left(m) \notin HotspotEnds
            BY Kinds DEF HotspotEnds
          <5> QED
            BY <5>1, <5>2
        <4> QED
          BY <1>0, <2>1, <2>3, <4>1 DEF HotspotDebt
      <3> QED
        BY <3>1, <3>2
    <2> QED
      BY <2>2, <2>4 DEF HotspotDebt
  <1> QED
    BY <1>1, <1>2, <1>3, ThreeWays

(* A Mac that leaves takes its lease back, in its turn.                    *)
LEMMA MacDebtStep ==
  ASSUME NetworkInv, [Next]_vars
  PROVE  MacDebt'
  <1>0. events \in Seq(Events) /\ MacDebt
    BY DEF NetworkInv, NetworkTypes
  <1> SUFFICES ASSUME NEW m \in Macs \ {"none"}
               PROVE  /\ peer' = m => m \in joined' \/ Later(0, Ends(m))'
                      /\ \A i \in 1..Len(events') :
                           events'[i] = Lease(m) => m \in joined' \/ Later(i, Ends(m))'
    BY DEF MacDebt, Later, Ends, Lease, Left, Event
  <1> DEFINE E == Ends(m)
             l == Lease(m)
  <1>d. /\ peer = m => m \in joined \/ Later(0, E)
        /\ \A i \in 1..Len(events) : events[i] = l => m \in joined \/ Later(i, E)
    BY <1>0 DEF MacDebt
  <1>g. SUFFICES /\ peer' = m => m \in joined' \/ Later(0, E)'
                 /\ \A i \in 1..Len(events') : events'[i] = l => m \in joined' \/ Later(i, E)'
    OBVIOUS
  <1>1. CASE Still
    <2>1. \A i : Later(i, E)' <=> Later(i, E)
      BY <1>1 DEF Still, Later
    <2> HIDE DEF E, l
    <2> QED
      BY <1>d, <1>1, <2>1 DEF Still
  <1>2. ASSUME NEW new, Told(new)
        PROVE  /\ peer' = m => m \in joined' \/ Later(0, E)'
               /\ \A i \in 1..Len(events') : events'[i] = l => m \in joined' \/ Later(i, E)'
    <2>0. Len(events) \in Nat
      BY <1>0
    <2>1. new \in Seq(Events) /\ Post(new) /\ peer' = peer
      BY <1>2 DEF Told
    <2>t. /\ m \in joined /\ m \notin joined' => \E k \in 1..Len(new) : new[k] \in E
          /\ \A k \in 1..Len(new) : new[k] = l => m \in joined'
      BY <1>2 DEF Told
    <2> HIDE DEF E, l
    <2>2. \A i \in 0..Len(events) : Later(i, E) => Later(i, E)'
      BY <1>0, <2>0, <2>1, LaterStays
    <2>3. \A i \in 0..Len(events) : m \in joined => m \in joined' \/ Later(i, E)'
      BY <1>0, <2>0, <2>1, <2>t, LaterPosted
    <2>4. peer' = m => m \in joined' \/ Later(0, E)'
      BY <1>d, <2>0, <2>1, <2>2, <2>3
    <2>5. ASSUME NEW i \in 1..Len(events'), events'[i] = l
          PROVE  m \in joined' \/ Later(i, E)'
      <3>1. CASE i \in 1..Len(events)
        <4>1. events[i] = l
          BY <1>0, <2>1, <2>5, <3>1, PostedLast
        <4>2. m \in joined \/ Later(i, E)
          BY <1>d, <3>1, <4>1
        <4> QED
          BY <2>0, <2>2, <2>3, <3>1, <4>2
      <3>2. CASE i \notin 1..Len(events)
        <4>1. PICK k \in 1..Len(new) : i = Len(events) + k
          BY <1>0, <2>1, <3>2, PostedLast
        <4>2. new[k] = l
          BY <1>0, <2>1, <2>5, <4>1, PostedLast
        <4> QED
          BY <2>t, <4>2
      <3> QED
        BY <3>1, <3>2
    <2> QED
      BY <2>4, <2>5
  <1>3. CASE Handling
    <2>1. events # <<>> /\ handled /\ joined' = joined
      BY <1>3 DEF Handling
    <2>l. peer' = m => (peer = m /\ events[1] \notin E) \/ events[1] = l
      <3>1. /\ \A k \in {"station start", "disconnected", "address"} : Event(k) \notin Ends(m)
            /\ \A n : Left(n) \in Ends(m) => n = m
        BY Kinds DEF Ends
      <3>2. CASE \E k \in {"station start", "disconnected", "address"} :
                   events[1] = Event(k) /\ peer' = peer
        BY <3>1, <3>2
      <3>3. CASE peer' = "none"
        BY <3>3
      <3>4. CASE \E n \in Macs : events[1] = Lease(n) /\ peer' = n
        BY <3>4
      <3>5. CASE \E n \in Macs : events[1] = Left(n) /\ peer' = IF peer = n THEN "none" ELSE peer
        BY <3>1, <3>5
      <3> QED
        BY <1>3, <3>2, <3>3, <3>4, <3>5 DEF Handling
    <2> HIDE DEF E, l
    <2>2. ASSUME NEW i \in 1..Len(events'), events'[i] = l
          PROVE  m \in joined' \/ Later(i, E)'
      <3>1. i + 1 \in 1..Len(events) /\ events[i + 1] = l /\ i \in Nat
        BY <1>0, <2>1, <2>2, HandledFirst
      <3>2. m \in joined \/ Later(i + 1, E)
        BY <1>d, <3>1
      <3> QED
        BY <1>0, <2>1, <3>1, <3>2, LaterNearer
    <2>3. Later(0, E) => events[1] \in E \/ Later(0, E)'
      BY <1>0, <2>1, FirstOrLater
    <2>4. ASSUME peer' = m
          PROVE  m \in joined' \/ Later(0, E)'
      <3>1. CASE events[1] = l
        <4>1. 1 \in 1..Len(events)
          BY <1>0, <2>1, HandledFirst
        <4>2. m \in joined \/ Later(0 + 1, E)
          BY <1>d, <3>1, <4>1
        <4> QED
          BY <1>0, <2>1, <4>2, LaterNearer
      <3>2. CASE events[1] # l
        BY <1>d, <2>1, <2>3, <2>4, <2>l, <3>2
      <3> QED
        BY <3>1, <3>2
    <2> QED
      BY <2>2, <2>4
  <1> QED
    BY <1>1, <1>2, <1>3, ThreeWays

-----------------------------------------------------------------------------
(* The rest of the invariant.                                              *)

(* The task keeps its types.                                               *)
LEMMA TaskTypesStep ==
  ASSUME NetworkInv, [Next]_vars
  PROVE  TaskTypes'
  <1>t. TaskTypes /\ Begun
    BY DEF NetworkInv, NetworkTypes
  <1>1. CASE Apply
    BY <1>t, <1>1 DEF Apply, Send, shared_vars, radio_vars, TaskTypes
  <1>2. CASE ConnectClicked
    BY <1>t, <1>2 DEF ConnectClicked, Send, shared_vars, setup_vars, radio_vars, TaskTypes
  <1>3. CASE Prepare
    BY <1>t, <1>3 DEF Prepare, shared_vars, setup_vars, radio_vars, TaskTypes
  <1>4. CASE Receive
    BY <1>t, <1>4 DEF Receive, FirstCall, shared_vars, setup_vars, radio_vars, TaskTypes
  <1>5. CASE Leave
    BY <1>t, <1>5 DEF Leave, RadioDisconnects, shared_vars, setup_vars, radio_vars, TaskTypes
  <1>6. CASE Forget
    BY <1>t, <1>6 DEF Forget, setup_vars, radio_vars, TaskTypes
  <1>7. CASE Mark
    BY <1>t, <1>7 DEF Mark, setup_vars, radio_vars, TaskTypes
  <1>8. CASE SetMode
    BY <1>t, <1>8 DEF SetMode, RadioMode, Done, shared_vars, setup_vars, TaskTypes
  <1>9. CASE Connect
    BY <1>t, <1>9 DEF Connect, RadioStarts, RadioConnects, Done, shared_vars, setup_vars,
       radio_vars, TaskTypes
  <1>10. CASE OnStationStart \/ OnApStart \/ OnApStop \/ OnLease \/ Assign \/ OnLeft \/
              OnDisconnected \/ OnAddress \/ Refresh \/ OpenKeyboard \/ CloseKeyboard \/
              Radio \/ UNCHANGED vars
    <2>1. UNCHANGED <<requests, request, call, initialized>>
      BY <1>10 DEF OnStationStart, RadioConnects, OnApStart, OnApStop, OnLease, Assign, OnLeft,
         OnDisconnected, OnAddress, Refresh, OpenKeyboard, CloseKeyboard, Radio, LinkChanges,
         Joins, Leaves, vars, task_vars, shared_vars, setup_vars, radio_vars
    <2> QED
      BY <1>t, <2>1 DEF TaskTypes
  <1> QED
    BY <1>1, <1>2, <1>3, <1>4, <1>5, <1>6, <1>7, <1>8, <1>9, <1>10 DEF Next, NetworkTask,
       EventLoop, Screen

(* The addresses keep their types.                                         *)
LEMMA AddressTypesStep ==
  ASSUME NetworkInv, [Next]_vars
  PROVE  AddressTypes'
  <1>t. AddressTypes /\ events \in Seq(Events)
    BY DEF NetworkInv, NetworkTypes
  <1>1. CASE Apply
    BY <1>t, <1>1 DEF Apply, Send, shared_vars, radio_vars, AddressTypes, Addresses
  <1>2. CASE Forget
    BY <1>t, <1>2 DEF Forget, setup_vars, radio_vars, AddressTypes, Addresses
  <1>3. CASE OnApStart
    BY <1>t, <1>3 DEF OnApStart, task_vars, setup_vars, AddressTypes, Addresses
  <1>4. CASE OnApStop
    BY <1>t, <1>4 DEF OnApStop, task_vars, setup_vars, AddressTypes, Addresses
  <1>5. CASE OnLease
    <2>1. events # <<>> /\ handled /\ Head(events).kind = "lease"
      BY <1>5 DEF OnLease, Waiting
    <2>2. Head(events) \in Events
      BY <1>t, <2>1, HandledFirst
    <2>3. Head(events).mac \in Macs
      BY <2>1, <2>2, Kinds
    <2> QED
      BY <1>t, <1>5, <2>3 DEF OnLease, setup_vars, AddressTypes, Addresses
  <1>6. CASE OnLeft
    BY <1>t, <1>6 DEF OnLeft, task_vars, setup_vars, AddressTypes, Addresses
  <1>7. CASE OnDisconnected
    BY <1>t, <1>7 DEF OnDisconnected, task_vars, setup_vars, AddressTypes
  <1>8. CASE OnAddress
    BY <1>t, <1>8 DEF OnAddress, task_vars, setup_vars, AddressTypes
  <1>9. CASE Assign
    BY <1>t, <1>9 DEF Assign, task_vars, shared_vars, radio_vars, AddressTypes, Addresses
  <1>10. CASE CloseKeyboard
    BY <1>t, <1>10 DEF CloseKeyboard, task_vars, shared_vars, radio_vars, AddressTypes,
       Addresses
  <1>11. CASE ConnectClicked \/ Prepare \/ Receive \/ Leave \/ Mark \/ SetMode \/ Connect \/
              OnStationStart \/ Refresh \/ OpenKeyboard \/ Radio \/ UNCHANGED vars
    <2>1. UNCHANGED <<own, peer, endpoint, assigning>>
      BY <1>11 DEF ConnectClicked, Send, Prepare, Receive, FirstCall, Leave, RadioDisconnects,
         Mark, SetMode, RadioMode, Done, Connect, RadioStarts, RadioConnects, OnStationStart,
         Refresh, OpenKeyboard, Radio, LinkChanges, Joins, Leaves, vars, task_vars,
         shared_vars, setup_vars, radio_vars
    <2> QED
      BY <1>t, <2>1 DEF AddressTypes
  <1> QED
    BY <1>1, <1>2, <1>3, <1>4, <1>5, <1>6, <1>7, <1>8, <1>9, <1>10, <1>11 DEF Next,
       NetworkTask, EventLoop, Screen

(* The flags are flags.                                                    *)
LEMMA FlagTypesStep ==
  ASSUME NetworkInv, [Next]_vars
  PROVE  FlagTypes'
  <1>t. FlagTypes
    BY DEF NetworkInv, NetworkTypes
  <1>1. CASE Mark
    BY <1>t, <1>1 DEF Mark, setup_vars, radio_vars, FlagTypes
  <1>2. CASE Connect
    BY <1>t, <1>2 DEF Connect, RadioStarts, RadioConnects, Done, shared_vars, setup_vars,
       radio_vars, FlagTypes
  <1>3. CASE Refresh
    BY <1>t, <1>3 DEF Refresh, task_vars, shared_vars, radio_vars, FlagTypes
  <1>4. CASE OpenKeyboard
    BY <1>t, <1>4 DEF OpenKeyboard, task_vars, shared_vars, radio_vars, FlagTypes
  <1>5. CASE CloseKeyboard
    BY <1>t, <1>5 DEF CloseKeyboard, task_vars, shared_vars, radio_vars, FlagTypes
  <1>6. CASE Apply \/ ConnectClicked \/ Prepare \/ Receive \/ Leave \/ Forget \/ SetMode \/
             OnStationStart \/ OnApStart \/ OnApStop \/ OnLease \/ Assign \/ OnLeft \/
             OnDisconnected \/ OnAddress \/ Radio \/ UNCHANGED vars
    <2>1. UNCHANGED <<started, fromHotspot, hotspot, editable, keyboard>>
      BY <1>6 DEF Apply, Send, ConnectClicked, Prepare, Receive, FirstCall, Leave,
         RadioDisconnects, Forget, SetMode, RadioMode, Done, OnStationStart, RadioConnects,
         OnApStart, OnApStop, OnLease, Assign, OnLeft, OnDisconnected, OnAddress, Radio,
         LinkChanges, Joins, Leaves, vars, task_vars, shared_vars, setup_vars, radio_vars
    <2> QED
      BY <1>t, <2>1 DEF FlagTypes
  <1> QED
    BY <1>1, <1>2, <1>3, <1>4, <1>5, <1>6 DEF Next, NetworkTask, EventLoop, Screen

(* The radio keeps its types.                                              *)
LEMMA RadioTypesStep ==
  ASSUME NetworkInv, [Next]_vars
  PROVE  RadioTypes'
  <1>t. RadioTypes /\ TaskTypes /\ Begun
    BY DEF NetworkInv, NetworkTypes
  <1>1. CASE Leave
    BY <1>t, <1>1 DEF Leave, RadioDisconnects, shared_vars, setup_vars, radio_vars, RadioTypes
  <1>2. CASE SetMode
    <2>1. request \in {"station", "ap"}
      BY <1>t, <1>2 DEF SetMode, TaskTypes, Begun
    <2> QED
      BY <1>t, <1>2, <2>1 DEF SetMode, RadioMode, RadioTypes
  <1>3. CASE Connect
    BY <1>t, <1>3 DEF Connect, RadioStarts, RadioConnects, Done, shared_vars, setup_vars,
       radio_vars, RadioTypes
  <1>4. CASE OnStationStart
    BY <1>t, <1>4 DEF OnStationStart, RadioConnects, task_vars, shared_vars, setup_vars,
       RadioTypes
  <1>5. CASE Radio
    BY <1>t, <1>5 DEF Radio, LinkChanges, Joins, Leaves, task_vars, shared_vars, setup_vars,
       RadioTypes
  <1>6. CASE Apply \/ ConnectClicked \/ Prepare \/ Receive \/ Forget \/ Mark \/ OnApStart \/
             OnApStop \/ OnLease \/ Assign \/ OnLeft \/ OnDisconnected \/ OnAddress \/
             Refresh \/ OpenKeyboard \/ CloseKeyboard \/ UNCHANGED vars
    <2>1. UNCHANGED <<mode, link, joined>>
      BY <1>6 DEF Apply, Send, ConnectClicked, Prepare, Receive, FirstCall, Forget, Mark,
         OnApStart, OnApStop, OnLease, Assign, OnLeft, OnDisconnected, OnAddress, Refresh,
         OpenKeyboard, CloseKeyboard, vars, task_vars, shared_vars, setup_vars, radio_vars
    <2> QED
      BY <1>t, <2>1 DEF RadioTypes
  <1> QED
    BY <1>1, <1>2, <1>3, <1>4, <1>5, <1>6 DEF Next, NetworkTask, EventLoop, Screen

(* Types are kept.                                                         *)
LEMMA TypesStep ==
  ASSUME NetworkInv, [Next]_vars
  PROVE  NetworkTypes'
  BY TaskTypesStep, AddressTypesStep, FlagTypesStep, RadioTypesStep, EventsStay DEF NetworkTypes

(* No request is carried out before the radio is ready.                    *)
LEMMA BegunStep ==
  ASSUME NetworkInv, [Next]_vars
  PROVE  Begun'
  <1>t. TaskTypes /\ FlagTypes /\ Begun
    BY DEF NetworkInv, NetworkTypes
  <1>1. CASE Apply
    BY <1>t, <1>1 DEF Apply, Send, shared_vars, radio_vars, Begun
  <1>2. CASE ConnectClicked
    BY <1>t, <1>2 DEF ConnectClicked, Send, shared_vars, setup_vars, radio_vars, Begun
  <1>3. CASE Prepare
    BY <1>t, <1>3 DEF Prepare, shared_vars, setup_vars, radio_vars, Begun
  <1>4. CASE Receive
    BY <1>t, <1>4 DEF Receive, FirstCall, shared_vars, setup_vars, radio_vars, Begun,
       TaskTypes, FlagTypes
  <1>5. CASE Leave
    BY <1>t, <1>5 DEF Leave, RadioDisconnects, shared_vars, setup_vars, radio_vars, Begun
  <1>6. CASE Forget
    BY <1>t, <1>6 DEF Forget, setup_vars, radio_vars, Begun
  <1>7. CASE Mark
    BY <1>t, <1>7 DEF Mark, setup_vars, radio_vars, Begun
  <1>8. CASE SetMode
    BY <1>t, <1>8 DEF SetMode, RadioMode, Done, shared_vars, setup_vars, Begun
  <1>9. CASE Connect
    BY <1>t, <1>9 DEF Connect, RadioStarts, RadioConnects, Done, shared_vars, setup_vars,
       radio_vars, Begun
  <1>10. CASE OnStationStart \/ OnApStart \/ OnApStop \/ OnLease \/ Assign \/ OnLeft \/
              OnDisconnected \/ OnAddress \/ Refresh \/ OpenKeyboard \/ CloseKeyboard \/
              Radio \/ UNCHANGED vars
    <2>1. UNCHANGED <<requests, request, call, initialized, hotspot>>
      BY <1>10 DEF OnStationStart, RadioConnects, OnApStart, OnApStop, OnLease, Assign, OnLeft,
         OnDisconnected, OnAddress, Refresh, OpenKeyboard, CloseKeyboard, Radio, LinkChanges,
         Joins, Leaves, vars, task_vars, shared_vars, setup_vars, radio_vars
    <2> QED
      BY <1>t, <2>1 DEF Begun
  <1> QED
    BY <1>1, <1>2, <1>3, <1>4, <1>5, <1>6, <1>7, <1>8, <1>9, <1>10 DEF Next, NetworkTask,
       EventLoop, Screen

(* The flag follows the radio.                                             *)
LEMMA FlagStep ==
  ASSUME NetworkInv, [Next]_vars
  PROVE  Flag'
  <1>t. TaskTypes /\ FlagTypes /\ RadioTypes /\ Begun /\ Flag
    BY DEF NetworkInv, NetworkTypes
  <1>1. CASE Receive
    BY <1>t, <1>1 DEF Receive, FirstCall, shared_vars, setup_vars, radio_vars, Flag
  <1>2. CASE Leave
    BY <1>t, <1>2 DEF Leave, RadioDisconnects, shared_vars, setup_vars, radio_vars, Flag
  <1>3. CASE Forget
    BY <1>t, <1>3 DEF Forget, setup_vars, radio_vars, Flag
  <1>4. CASE Mark
    <2>1. request \in {"station", "ap"}
      BY <1>t, <1>4 DEF Mark, Begun, TaskTypes
    <2>2. request' = request /\ mode' = mode
      BY <1>4 DEF Mark, radio_vars
    <2>3. request = "ap" => hotspot'
      BY <1>4 DEF Mark
    <2>4. request = "station" => call' \in {"forget", "mode"}
      BY <1>4 DEF Mark
    <2> QED
      BY <2>1, <2>2, <2>3, <2>4 DEF Flag
  <1>5. CASE SetMode
    <2>1. mode' = request /\ UNCHANGED hotspot
      BY <1>5 DEF SetMode, RadioMode, shared_vars
    <2>2. request \in {"station", "ap"} /\ call = "mode"
      BY <1>t, <1>5 DEF SetMode, Begun, TaskTypes
    <2>3. (call' = "connect" /\ request' = request) \/ (call' = "none" /\ request' = "none")
      BY <1>5 DEF SetMode, Done
    <2> QED
      BY <1>t, <2>1, <2>2, <2>3 DEF Flag
  <1>6. CASE Connect
    BY <1>t, <1>6 DEF Connect, RadioStarts, RadioConnects, Done, shared_vars, setup_vars,
       radio_vars, Flag
  <1>7. CASE Apply \/ ConnectClicked \/ Prepare \/ OnStationStart \/ OnApStart \/ OnApStop \/
             OnLease \/ Assign \/ OnLeft \/ OnDisconnected \/ OnAddress \/ Refresh \/
             OpenKeyboard \/ CloseKeyboard \/ Radio \/ UNCHANGED vars
    <2>1. UNCHANGED <<request, call, hotspot, mode>>
      BY <1>7 DEF Apply, Send, ConnectClicked, Prepare, OnStationStart, RadioConnects,
         OnApStart, OnApStop, OnLease, Assign, OnLeft, OnDisconnected, OnAddress, Refresh,
         OpenKeyboard, CloseKeyboard, Radio, LinkChanges, Joins, Leaves, vars, task_vars,
         shared_vars, setup_vars, radio_vars
    <2> QED
      BY <1>t, <2>1 DEF Flag
  <1> QED
    BY <1>1, <1>2, <1>3, <1>4, <1>5, <1>6, <1>7 DEF Next, NetworkTask, EventLoop, Screen

(* No Mac joins a hotspot the screen has not seen.                         *)
LEMMA UnseenStep ==
  ASSUME NetworkInv, [Next]_vars
  PROVE  Unseen'
  <1>t. TaskTypes /\ FlagTypes /\ RadioTypes /\ Begun /\ Flag /\ Unseen /\ Silent
    BY DEF NetworkInv, NetworkTypes
  <1>1. CASE Mark
    <2>1. request = "ap" /\ ~hotspot => mode = "station"
      BY <1>t, <1>1 DEF Mark, Flag, TaskTypes, RadioTypes
    <2>2. UNCHANGED <<joined, editable, keyboard>> /\ hotspot' = (request = "ap")
      BY <1>1 DEF Mark, radio_vars, setup_vars
    <2> QED
      BY <1>t, <2>1, <2>2 DEF Unseen, Silent
  <1>2. CASE SetMode
    <2>1. joined' \in {joined, {}} /\ UNCHANGED <<hotspot, editable, keyboard>>
      BY <1>2 DEF SetMode, RadioMode, shared_vars, setup_vars
    <2> QED
      BY <1>t, <2>1 DEF Unseen
  <1>3. CASE Refresh
    BY <1>t, <1>3 DEF Refresh, task_vars, shared_vars, radio_vars, Unseen
  <1>4. CASE OpenKeyboard
    BY <1>t, <1>4 DEF OpenKeyboard, task_vars, shared_vars, radio_vars, Unseen
  <1>5. CASE CloseKeyboard
    BY <1>t, <1>5 DEF CloseKeyboard, task_vars, shared_vars, radio_vars, Unseen
  <1>6. CASE Radio
    BY <1>t, <1>6 DEF Radio, LinkChanges, Joins, Leaves, task_vars, shared_vars, setup_vars,
       Unseen
  <1>7. CASE Apply \/ ConnectClicked \/ Prepare \/ Receive \/ Leave \/ Forget \/ Connect \/
             OnStationStart \/ OnApStart \/ OnApStop \/ OnLease \/ Assign \/ OnLeft \/
             OnDisconnected \/ OnAddress \/ UNCHANGED vars
    <2>1. UNCHANGED <<hotspot, editable, keyboard>> /\ joined' = joined
      BY <1>7 DEF Apply, Send, ConnectClicked, Prepare, Receive, FirstCall, Leave,
         RadioDisconnects, Forget, Connect, RadioStarts, RadioConnects, Done, OnStationStart,
         OnApStart, OnApStop, OnLease, Assign, OnLeft, OnDisconnected, OnAddress, vars,
         task_vars, shared_vars, setup_vars, radio_vars
    <2> QED
      BY <1>t, <2>1 DEF Unseen
  <1> QED
    BY <1>1, <1>2, <1>3, <1>4, <1>5, <1>6, <1>7 DEF Next, NetworkTask, EventLoop, Screen

(* A radio that does not run stays silent.                                 *)
LEMMA SilentStep ==
  ASSUME NetworkInv, [Next]_vars
  PROVE  Silent'
  <1>t. events \in Seq(Events) /\ TaskTypes /\ FlagTypes /\ RadioTypes /\ Begun /\ Silent
    BY DEF NetworkInv, NetworkTypes
  <1>p. Post(<<>>) => events' = events
    BY <1>t DEF Post
  <1>1. CASE Leave
    BY <1>t, <1>p, <1>1 DEF Leave, RadioDisconnects, shared_vars, setup_vars, radio_vars,
       Silent
  <1>2. CASE Forget
    BY <1>t, <1>p, <1>2 DEF Forget, setup_vars, radio_vars, Silent
  <1>3. CASE SetMode
    BY <1>t, <1>p, <1>3 DEF SetMode, RadioMode, Done, shared_vars, setup_vars, Silent
  <1>4. CASE Connect
    BY <1>t, <1>p, <1>4 DEF Connect, RadioStarts, RadioConnects, Done, shared_vars, setup_vars,
       radio_vars, Silent
  <1>5. CASE EventLoop /\ ~Assign
    <2>1. Handling
      BY <1>5, HandlersHandle
    <2>2. started' = started /\ (mode = "ap" => link' = link)
      BY <1>5 DEF EventLoop, OnStationStart, OnApStart, OnApStop, OnLease, OnLeft, OnDisconnected,
               OnAddress, RadioConnects, task_vars
    <2>3. started /\ mode' = mode /\ joined' = joined
      BY <1>t, <2>1 DEF Handling, Silent
    <2> QED
      BY <1>t, <2>2, <2>3 DEF Silent
  <1>6. CASE Radio
    BY <1>t, <1>p, <1>6 DEF Radio, LinkChanges, Joins, Leaves, task_vars, shared_vars,
       setup_vars, Silent
  <1>7. CASE Apply \/ ConnectClicked \/ Prepare \/ Receive \/ Mark \/ Assign \/ Refresh \/
             OpenKeyboard \/ CloseKeyboard \/ UNCHANGED vars
    <2>1. UNCHANGED <<started, events, link, joined, own, mode>>
      BY <1>7 DEF Apply, Send, ConnectClicked, Prepare, Receive, FirstCall, Mark, Assign,
         Refresh, OpenKeyboard, CloseKeyboard, vars, task_vars, shared_vars, setup_vars,
         radio_vars
    <2> QED
      BY <1>t, <1>p, <2>1 DEF Silent
  <1> QED
    BY <1>1, <1>2, <1>3, <1>4, <1>5, <1>6, <1>7 DEF Next, NetworkTask, EventLoop, Screen

(* The endpoint follows the Mac, or something that waits forgets the Mac.  *)
LEMMA EndpointDebtStep ==
  ASSUME NetworkInv, [Next]_vars
  PROVE  EndpointDebt'
  <1>t. /\ events \in Seq(Events) /\ TaskTypes /\ AddressTypes /\ FlagTypes /\ RadioTypes
        /\ Begun /\ Silent /\ Flag /\ Unseen /\ EndpointDebt
    BY DEF NetworkInv, NetworkTypes
  <1>a. (assigning # "none" => peer \in {"none", assigning})'
    <2>1. CASE OnLease \/ Assign
      BY <1>t, <2>1 DEF OnLease, Assign
    <2>2. CASE EventLoop /\ ~OnLease /\ ~Assign
      BY <2>2 DEF EventLoop, OnStationStart, OnApStart, OnApStop, OnLeft, OnDisconnected,
                  OnAddress, Waiting
    <2>3. ASSUME ~EventLoop
          PROVE  assigning' = assigning /\ peer' \in {peer, "none"}
      BY <2>3 DEF Next, NetworkTask, Screen, Apply, ConnectClicked, Prepare, Receive, Leave,
                  Forget, Mark, SetMode, Connect, Refresh, OpenKeyboard, CloseKeyboard, Radio,
                  vars, shared_vars
    <2> QED
      BY <1>t, <2>1, <2>2, <2>3 DEF EndpointDebt
  <1> SUFFICES ASSUME NEW m \in Macs \ {"none"}, hotspot', peer' = m
               PROVE  endpoint' = m \/ assigning' = m \/ Forgetting' \/ Later(0, Ends(m))'
    BY <1>a DEF EndpointDebt, Later, Ends, Left, Event
  <1> DEFINE E == Ends(m)
  <1>s. SUFFICES endpoint' = m \/ assigning' = m \/ Forgetting' \/ Later(0, E)'
    OBVIOUS
  <1>d. hotspot /\ peer = m => endpoint = m \/ assigning = m \/ Forgetting \/ Later(0, E)
    BY <1>t DEF EndpointDebt
  <1>j. peer = m => m \in joined \/ Later(0, E)
    BY DEF NetworkInv, MacDebt
  <1>k. /\ \A k \in {"station start", "disconnected", "address"} : Event(k) \notin E
        /\ \A n : Left(n) \in E => n = m
    BY Kinds DEF Ends
  <1> HIDE DEF E
  <1>q. events' = events => (Later(0, E)' <=> Later(0, E))
    BY DEF Later
  <1>1. CASE Apply \/ ConnectClicked \/ Prepare
    <2>1. /\ UNCHANGED <<events, hotspot, peer, assigning, request, call>>
          /\ endpoint' \in {endpoint, "none"}
          /\ endpoint' = endpoint \/ requests' = IF requests = <<>> THEN <<"station">> ELSE requests
      BY <1>1 DEF Apply, ConnectClicked, Prepare, Send, task_vars, shared_vars, setup_vars,
                  radio_vars
    <2>2. Forgetting => Forgetting'
      BY <1>t, <1>1 DEF Apply, ConnectClicked, Prepare, Send, Forgetting, task_vars, TaskTypes
    <2>3. endpoint' # endpoint => Forgetting'
      <3>1. requests # <<"prepare">>
        BY <1>t, <2>1 DEF Begun
      <3> QED
        BY <1>t, <2>1, <3>1 DEF Forgetting, TaskTypes
    <2> QED
      BY <1>d, <1>q, <2>1, <2>2, <2>3
  <1>2. CASE Receive
    <2>1. UNCHANGED <<events, hotspot, peer, assigning, endpoint>>
      BY <1>2 DEF Receive, shared_vars, setup_vars, radio_vars
    <2>2. initialized = "yes" /\ requests # <<"prepare">>
      BY <1>t, <2>1 DEF Begun, TaskTypes
    <2>3. Forgetting'
      BY <1>t, <1>2, <2>2 DEF Receive, FirstCall, Forgetting, TaskTypes
    <2> QED
      BY <2>3
  <1>3. CASE Forget
    BY <1>3 DEF Forget
  <1>4. CASE Mark
    <2>1. UNCHANGED <<events, peer, assigning, endpoint, requests, request, joined>>
      BY <1>4 DEF Mark, setup_vars, radio_vars
    <2>2. request = "ap" /\ call = "mark"
      BY <1>t, <1>4 DEF Mark, Begun, TaskTypes
    <2>3. CASE hotspot
      <3>1. Forgetting => Forgetting'
        BY <2>1, <2>2 DEF Forgetting
      <3> QED
        BY <1>d, <1>q, <2>1, <2>3, <3>1
    <2>4. CASE ~hotspot
      <3>1. joined = {}
        BY <1>t, <2>2, <2>4 DEF Flag, Silent, RadioTypes
      <3> QED
        BY <1>j, <1>q, <2>1, <3>1
    <2> QED
      BY <2>3, <2>4
  <1>5. CASE Leave \/ SetMode \/ Connect \/ Radio
    <2>1. UNCHANGED <<hotspot, peer, assigning, endpoint, requests>>
      BY <1>5 DEF Leave, SetMode, Connect, Radio, task_vars, shared_vars, setup_vars
    <2>2. Forgetting => Forgetting'
      BY <1>5 DEF Leave, SetMode, Connect, Radio, Forgetting, task_vars
    <2>3. PICK new : Told(new)
      BY <1>5, CallsAreTold
    <2>4. Later(0, E) => Later(0, E)'
      BY <1>t, <2>3, LaterStays DEF Told
    <2> QED
      BY <1>d, <2>1, <2>2, <2>4
  <1>6. CASE OnLease
    BY <1>6 DEF OnLease
  <1>7. CASE EventLoop /\ ~OnLease /\ ~Assign
    <2>1. /\ UNCHANGED <<hotspot, assigning, endpoint, requests, request, call>>
          /\ peer' \in {peer, "none"}
      BY <1>7 DEF EventLoop, OnStationStart, OnApStart, OnApStop, OnLeft, OnDisconnected,
                  OnAddress, task_vars, shared_vars, setup_vars
    <2>2. Forgetting => Forgetting'
      BY <2>1 DEF Forgetting
    <2>3. Handling
      BY <1>7, HandlersHandle
    <2>4. Later(0, E) => events[1] \in E \/ Later(0, E)'
      BY <1>t, <2>3, FirstOrLater DEF Handling
    <2>5. peer = m
      BY <2>1
    <2>6. ~(\E n \in Macs : events[1] = Lease(n))
      <3>1. Head(events) = events[1]
        BY <1>t, <2>3, HandledFirst DEF Handling
      <3>2. \A n : Lease(n).kind = "lease"
        BY DEF Lease
      <3>3. Head(events).kind # "lease"
        BY <1>7 DEF EventLoop, OnStationStart, OnApStart, OnApStop, OnLeft, OnDisconnected,
                    OnAddress, Waiting
      <3> QED
        BY <3>1, <3>2, <3>3
    <2>7. events[1] \notin E
      BY <1>k, <2>3, <2>5, <2>6 DEF Handling
    <2> QED
      BY <1>d, <2>1, <2>2, <2>4, <2>5, <2>7
  <1>8. CASE Assign
    <2>1. UNCHANGED <<events, hotspot, peer>> /\ assigning # "none" /\ endpoint' = assigning
      BY <1>8 DEF Assign, shared_vars, radio_vars
    <2>2. assigning = m
      BY <1>t, <2>1 DEF EndpointDebt
    <2> QED
      BY <2>1, <2>2
  <1>9. CASE Refresh \/ OpenKeyboard \/ UNCHANGED vars
    <2>1. UNCHANGED <<events, hotspot, peer, assigning, endpoint, requests, request, call>>
      BY <1>9 DEF Refresh, OpenKeyboard, vars, task_vars, shared_vars, setup_vars, radio_vars
    <2>2. Forgetting => Forgetting'
      BY <2>1 DEF Forgetting
    <2> QED
      BY <1>d, <1>q, <2>1, <2>2
  <1>10. CASE CloseKeyboard
    <2>1. UNCHANGED <<events, hotspot, peer>> /\ keyboard
      BY <1>10 DEF CloseKeyboard, shared_vars, radio_vars
    <2>2. joined = {}
      BY <1>t, <2>1 DEF Unseen
    <2> QED
      BY <1>j, <1>q, <2>1, <2>2
  <1> QED
    BY <1>1, <1>2, <1>3, <1>4, <1>5, <1>6, <1>7, <1>8, <1>9, <1>10
    DEF Next, NetworkTask, EventLoop, Screen

-----------------------------------------------------------------------------
(* The invariant holds always.                                             *)
LEMMA NetworkInvHolds == Spec => []NetworkInv
  <1>1. Init => NetworkInv
    <2> SUFFICES ASSUME Init
                 PROVE  NetworkInv
      OBVIOUS
    <2>1. events = <<>> /\ Len(events) = 0 /\ <<>> \in Seq(Events)
      BY DEF Init
    <2>2. NetworkTypes
      BY <2>1 DEF Init, NetworkTypes, TaskTypes, AddressTypes, FlagTypes, RadioTypes, Addresses
    <2>3. Begun /\ Silent /\ Flag /\ Unseen
      BY DEF Init, Begun, Silent, Flag, Unseen
    <2>4. \A i \in 1..Len(events) : FALSE
      BY <2>1
    <2>5. LinkDebt /\ HotspotDebt /\ MacDebt /\ EndpointDebt
      BY <2>4 DEF Init, LinkDebt, HotspotDebt, MacDebt, EndpointDebt
    <2> QED
      BY <2>2, <2>3, <2>5 DEF NetworkInv
  <1>2. NetworkInv /\ [Next]_vars => NetworkInv'
    <2> SUFFICES ASSUME NetworkInv, [Next]_vars
                 PROVE  NetworkInv'
      OBVIOUS
    <2>1. NetworkTypes' /\ Begun' /\ Silent' /\ Flag' /\ Unseen'
      BY TypesStep, BegunStep, SilentStep, FlagStep, UnseenStep
    <2>2. LinkDebt' /\ HotspotDebt' /\ MacDebt' /\ EndpointDebt'
      BY LinkDebtStep, HotspotDebtStep, MacDebtStep, EndpointDebtStep
    <2> QED
      BY <2>1, <2>2 DEF NetworkInv
  <1> QED
    BY <1>1, <1>2, PTL DEF Spec

(* When everything has been carried out, an address that is shown is of    *)
(* the link, of the hotspot or of the Mac that is there, and the service   *)
(* is looked for at the lease of that Mac, in whatever order the requests  *)
(* of the screens, the calls of the network task, the handlers of the      *)
(* event loop and the radio came.                                          *)
THEOREM AddressesStayReal == Spec => []AddressesAreReal
  <1>1. NetworkInv => AddressesAreReal
    <2> SUFFICES ASSUME NetworkInv, settled
                 PROVE  /\ own = "station" => mode = "station" /\ link = "up"
                        /\ own = "ap" => mode = "ap"
                        /\ peer # "none" => peer \in joined
                        /\ hotspot /\ peer # "none" => endpoint = peer
      BY DEF AddressesAreReal
    <2>1. events = <<>> /\ assigning = "none" /\ ~Forgetting
      BY DEF settled, Forgetting
    <2>2. \A E : ~Later(0, E)
      BY <2>1, NothingLater
    <2>3. peer # "none" => peer \in Macs \ {"none"}
      BY DEF NetworkInv, NetworkTypes, AddressTypes, Addresses
    <2>4. own = "station" => mode = "station" /\ link = "up"
      BY <2>2 DEF NetworkInv, LinkDebt, Up
    <2>5. own = "ap" => mode = "ap"
      BY <2>2 DEF NetworkInv, HotspotDebt
    <2>6. peer # "none" => peer \in joined
      BY <2>2, <2>3 DEF NetworkInv, MacDebt
    <2>7. hotspot /\ peer # "none" => endpoint = peer
      BY <2>1, <2>2, <2>3 DEF NetworkInv, EndpointDebt
    <2> QED
      BY <2>4, <2>5, <2>6, <2>7
  <1> QED
    BY <1>1, NetworkInvHolds, PTL
=============================================================================
