---------------------------- MODULE EthernetRouter ----------------------------
(***************************************************************************)
(* The Ethernet router (src/ethutilities/EthernetRouter.cpp): its rounds   *)
(* over the interfaces, the listeners it calls, and its timer events.      *)
(*                                                                         *)
(* routeFrames() runs in the main loop, where the timer may preempt it, or *)
(* in the timer itself.  It calls the application back, which may add and  *)
(* delete listeners and interfaces from there: those calls are actions of  *)
(* their own that may happen between the steps of a round.  The calls for  *)
(* all interfaces are one such action for each of them.                    *)
(*                                                                         *)
(* A forward_list is a sequence that grows at its front, and an iterator   *)
(* is the number of nodes from its own to the end: push_front keeps it.    *)
(***************************************************************************)
EXTENDS Integers, Sequences, SequencesExt, ForwardList

CONSTANTS
  Ifaces,    \* interfaces the application has
  Listeners, \* listeners it has
  MaxListed  \* bound: registrations on all interfaces together

ASSUME RouterAssumption == MaxListed \in Nat

VARIABLES
  interfacesList,
  listenersList,        \* of each interface
  listenersDeleteList,  \* of each interface, as a set: what is in it twice
                        \* has no other effect than what is in it once
  link,                 \* routerIface->link, and the netif's link state
  plugged,              \* the driver's PARAMETER_LINK
  isStarted,
  routeFramesInTimer,
  checkLink,
  armed,                \* timer events set and not yet fired, of each kind
  round,                \* the iterators of routeFrames()
  due,                  \* history: the listeners when the walk over them began
  called,               \* history: those called since then
  fate                  \* history: of a listener on an interface, "never"
                        \* added, "added", "leaving" (a deletion is pending,
                        \* whether it was added since or not) or "gone"

startVars == <<isStarted, routeFramesInTimer, checkLink>>
listVars == <<listenersList, listenersDeleteList, fate>>
walkVars == <<due, called>>
vars == <<interfacesList, listVars, link, plugged, startVars, armed, round, walkVars>>

\* The iterators outside routeFrames().
Idle == [at |-> "idle", iface |-> 0, listener |-> 0]

\* The element an iterator n nodes from the end of list points to.
At(list, n) == list[Len(list) - n + 1]

Iface == At(interfacesList, round.iface)

Listener == At(listenersList[Iface], round.listener)

\* The iterators are in their lists.
TypeOK ==
  /\ interfacesList \in Seq(Ifaces) /\ IsInjective(interfacesList)
  /\ listenersList \in [Ifaces -> Seq(Listeners)]
  /\ listenersDeleteList \in [Ifaces -> SUBSET Listeners]
  /\ link \in [Ifaces -> BOOLEAN]
  /\ plugged \in [Ifaces -> BOOLEAN]
  /\ isStarted \in BOOLEAN /\ routeFramesInTimer \in BOOLEAN /\ checkLink \in BOOLEAN
  /\ armed \in [{"route", "link"} -> 0 .. 1]
  /\ round.at \in {"idle", "iface", "listener"}
  /\ round.iface \in 0 .. Len(interfacesList)
  /\ round.listener \in Nat
  /\ round.at = "listener" =>
       round.iface > 0 /\ round.listener <= Len(listenersList[Iface])
  /\ due \in Seq(Listeners)
  /\ called \in Seq(Listeners)
  /\ fate \in [Ifaces -> [Listeners -> {"never", "added", "leaving", "gone"}]]

Init ==
  /\ interfacesList = << >>
  /\ listenersList = [i \in Ifaces |-> << >>]
  /\ listenersDeleteList = [i \in Ifaces |-> {}]
  /\ link = [i \in Ifaces |-> FALSE]
  /\ plugged \in [Ifaces -> BOOLEAN]
  /\ isStarted = FALSE /\ routeFramesInTimer = FALSE /\ checkLink = TRUE
  /\ armed = [e \in {"route", "link"} |-> 0]
  /\ round = Idle
  /\ due = << >>
  /\ called = << >>
  /\ fate = [i \in Ifaces |-> [l \in Listeners |-> "never"]]

-----------------------------------------------------------------------------
(* The application's calls.                                                *)

addInterface(i) ==
  /\ i \notin ToSet(interfacesList)
  /\ interfacesList' = <<i>> \o interfacesList
  /\ UNCHANGED <<listVars, link, plugged, startVars, armed, round, walkVars>>

\* Mutant: nothing remembers that the router has been started.
StartAgain(inTimer, check) ==
  /\ isStarted' = TRUE
  /\ routeFramesInTimer' = inTimer
  /\ checkLink' = check
  /\ armed' = [route |-> armed["route"] + (IF inTimer THEN 1 ELSE 0),
               link |-> armed["link"] + 1]
  /\ UNCHANGED <<interfacesList, listVars, link, plugged, round, walkVars>>

start(inTimer, check) ==
  /\ ~isStarted
  /\ isStarted' = TRUE
  /\ routeFramesInTimer' = inTimer
  /\ checkLink' = check
  /\ armed' = [route |-> IF inTimer THEN 1 ELSE 0, link |-> 1]
  /\ UNCHANGED <<interfacesList, listVars, link, plugged, round, walkVars>>

Listed == FoldSet(LAMBDA i, n : n + Len(listenersList[i]), 0, Ifaces)

addListener(l, i) ==
  /\ i \in ToSet(interfacesList) /\ Listed < MaxListed
  /\ listenersList' = [listenersList EXCEPT ![i] = <<l>> \o @]
  /\ fate' = [fate EXCEPT ![i][l] = IF @ = "leaving" THEN @ ELSE "added"]
  /\ UNCHANGED <<interfacesList, listenersDeleteList, link, plugged, startVars,
                 armed, round, walkVars>>

\* The deletion waits for the end of the next walk over the listeners.
deleteListener(l, i) ==
  /\ i \in ToSet(interfacesList)
  /\ listenersDeleteList' = [listenersDeleteList EXCEPT ![i] = @ \cup {l}]
  /\ fate' = [fate EXCEPT ![i][l] = "leaving"]
  /\ UNCHANGED <<interfacesList, listenersList, link, plugged, startVars,
                 armed, round, walkVars>>

-----------------------------------------------------------------------------
(* routeFrames().                                                          *)

\* The main loop calls voidCallback, or the event has fired.
MayRoute ==
  /\ isStarted /\ round.at = "idle"
  /\ routeFramesInTimer => armed["route"] = 1

\* Mutant: the event is not set again when there is no interface.
RouteNothingStops ==
  /\ MayRoute /\ interfacesList = << >>
  /\ armed' = [armed EXCEPT !["route"] = 0]
  /\ UNCHANGED <<interfacesList, listVars, link, plugged, startVars, round, walkVars>>

\* Without an interface the event that fired is set again, for later.
RouteNothing ==
  /\ MayRoute /\ interfacesList = << >>
  /\ UNCHANGED vars

RouteBegin ==
  /\ MayRoute /\ interfacesList # << >>
  /\ armed' = [armed EXCEPT !["route"] = 0]
  /\ round' = [at |-> "iface", iface |-> Len(interfacesList), listener |-> 0]
  /\ UNCHANGED <<interfacesList, listVars, link, plugged, startVars, walkVars>>

\* The driver has no frame, or one that is not for the listeners: an ARP frame
\* or one for another hardware address.
PullOther ==
  /\ round.at = "iface" /\ round.iface > 0
  /\ round' = [round EXCEPT !.iface = @ - 1]
  /\ UNCHANGED <<interfacesList, listVars, link, plugged, startVars, armed, walkVars>>

\* A frame for the interface: lwIP gets it if it is for its IP address, too,
\* and the walk over the listeners begins.
PullFrame ==
  /\ round.at = "iface" /\ round.iface > 0
  /\ round' = [round EXCEPT !.at = "listener", !.listener = Len(listenersList[Iface])]
  /\ due' = listenersList[Iface]
  /\ called' = << >>
  /\ UNCHANGED <<interfacesList, listVars, link, plugged, startVars, armed>>

\* Mutant: the listener that is called consumes the frame.
CallFirstListener ==
  /\ round.at = "listener" /\ round.listener > 0
  /\ called' = Append(called, Listener)
  /\ round' = [round EXCEPT !.listener = 0]
  /\ UNCHANGED <<interfacesList, listVars, link, plugged, startVars, armed, due>>

CallListener ==
  /\ round.at = "listener" /\ round.listener > 0
  /\ called' = Append(called, Listener)
  /\ round' = [round EXCEPT !.listener = @ - 1]
  /\ UNCHANGED <<interfacesList, listVars, link, plugged, startVars, armed, due>>

\* Mutant: one registration is removed for a deletion.
RemovedOne(list, S) ==
  IF \E k \in DOMAIN list : list[k] \in S
  THEN RemoveAt(list, SelectInSeq(list, LAMBDA l : l \in S))
  ELSE list

\* remove_if for every listener of S.
Removed(list, S) == Filtered(list, Listeners \ S)

\* Mutant: the list of deletions is not cleared.
DeletionsKept(i) == listenersDeleteList

DeletionsDone(i) == [listenersDeleteList EXCEPT ![i] = {}]

\* The end of the walk: the deletions that have come in are done.
WalkEnd ==
  /\ round.at = "listener" /\ round.listener = 0
  /\ listenersList' =
       [listenersList EXCEPT ![Iface] = Removed(@, listenersDeleteList[Iface])]
  /\ listenersDeleteList' = DeletionsDone(Iface)
  /\ fate' = [fate EXCEPT ![Iface] =
                [l \in Listeners |-> IF @[l] = "leaving" THEN "gone" ELSE @[l]]]
  /\ round' = [round EXCEPT !.at = "iface", !.iface = @ - 1]
  /\ due' = << >> /\ called' = << >>
  /\ UNCHANGED <<interfacesList, link, plugged, startVars, armed>>

\* lwIP's timeouts are checked and the event is set again.
RouteEnd ==
  /\ round.at = "iface" /\ round.iface = 0
  /\ round' = Idle
  /\ armed' = [armed EXCEPT !["route"] = IF routeFramesInTimer THEN 1 ELSE 0]
  /\ UNCHANGED <<interfacesList, listVars, link, plugged, startVars, walkVars>>

-----------------------------------------------------------------------------
(* The other timer events.  CALLBACK_TYPE_LWIP_MS calls lwIP's own handler *)
(* and is set again: it changes nothing of the router.                     *)

\* Mutant: the link is read only while it is down.
IsCheckedWhileDown(i) == ~link[i]

IsChecked(i) == checkLink \/ ~link[i]

\* CALLBACK_TYPE_LINK_CHECK; it is set again, and the ARP tables are aged.
LinkCheck ==
  /\ armed["link"] = 1
  /\ routeFramesInTimer => round.at = "idle"
  /\ link' = [i \in Ifaces |->
                IF i \in ToSet(interfacesList) /\ IsChecked(i) THEN plugged[i]
                                                               ELSE link[i]]
  /\ UNCHANGED <<interfacesList, listVars, plugged, startVars, armed, round, walkVars>>

\* A cable is plugged in or pulled out.
Plug(i) ==
  /\ plugged' = [plugged EXCEPT ![i] = ~@]
  /\ UNCHANGED <<interfacesList, listVars, link, startVars, armed, round, walkVars>>

-----------------------------------------------------------------------------

Route ==
  \/ RouteNothing \/ RouteBegin \/ PullOther \/ PullFrame
  \/ CallListener \/ WalkEnd \/ RouteEnd

Next ==
  \/ \E i \in Ifaces : addInterface(i) \/ Plug(i)
  \/ \E inTimer, check \in BOOLEAN : start(inTimer, check)
  \/ \E l \in Listeners, i \in Ifaces : addListener(l, i) \/ deleteListener(l, i)
  \/ Route \/ LinkCheck

Spec == Init /\ [][Next]_vars

\* The main loop goes on, the callbacks return, and an event that has been set
\* is not passed over for ever by those set after it.
FairSpec == Spec /\ WF_vars(Route) /\ SF_vars(LinkCheck)

-----------------------------------------------------------------------------
(* Properties.                                                             *)

\* A walk calls the listeners that were registered when it began, each as
\* often as it was registered and in their order, whatever the callbacks add
\* and delete meanwhile.
WalkCallsTheRegistered == [][WalkEnd => called = due]_vars

\* A listener that was deleted is called for no frame after the next one, were
\* it registered twice.
DeletedUncalled == [][CallListener => fate[Iface][Listener] # "gone"]_vars

\* A listener that was added while no deletion of it was pending stays
\* registered until it is deleted.
AddedStaysRegistered ==
  \A i \in Ifaces, l \in Listeners :
    fate[i][l] = "added" => l \in ToSet(listenersList[i])

\* Every interface is asked for a frame again and again, whichever way the
\* frames are routed and whenever the interface was added.
EveryIfaceServed ==
  \A i \in Ifaces :
    <>[](isStarted /\ i \in ToSet(interfacesList))
      => []<><<(PullOther \/ PullFrame) /\ Iface = i>>_vars

\* A link that stays up is noticed, and so is one that stays down if links
\* are to be checked.
LinkFollowed ==
  \A i \in Ifaces, up \in BOOLEAN :
    <>[](/\ isStarted /\ i \in ToSet(interfacesList)
         /\ plugged[i] = up
         /\ up \/ checkLink)
      => <>[](link[i] = up)

=============================================================================
