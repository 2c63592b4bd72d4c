------------------------- MODULE EthernetRouterProofs -------------------------
(***************************************************************************)
(* Theorems about EthernetRouter, for any interfaces and listeners and any *)
(* number of registrations.                                                *)
(***************************************************************************)
EXTENDS EthernetRouter, ListTheorems

\* The types of the fields of round.
Round == [at : {"idle", "iface", "listener"}, iface : Nat, listener : Nat]

\* The types without what relates round to the lists.
TypeInv ==
  /\ interfacesList \in Seq(Ifaces)
  /\ listenersList \in [Ifaces -> Seq(Listeners)]
  /\ listenersDeleteList \in [Ifaces -> SUBSET Listeners]
  /\ fate \in [Ifaces -> [Listeners -> {"never", "added", "leaving", "gone"}]]
  /\ round \in Round
  /\ round.iface <= Len(interfacesList)
  /\ due \in Seq(Listeners) /\ called \in Seq(Listeners)

\* The list holds l.
IsIn(l, list) == \E k \in 1 .. Len(list) : list[k] = l

\* What becomes of a listener shows in the two lists of its interface.
ListInv ==
  \A i \in Ifaces, l \in Listeners :
    /\ fate[i][l] = "leaving" <=> l \in listenersDeleteList[i]
    /\ fate[i][l] = "added" => IsIn(l, listenersList[i])
    /\ fate[i][l] \in {"never", "gone"} => ~IsIn(l, listenersList[i])

\* The list that a walk goes over ends with the listeners that were in it when the
\* walk began, and the walk has called those in front of its iterator.
WalkInv ==
  round.at = "listener" =>
    LET list == listenersList[Iface]
    IN  /\ round.iface \in 1 .. Len(interfacesList)
        /\ Len(due) <= Len(list)
        /\ \A k \in 1 .. Len(due) : due[k] = list[Len(list) - Len(due) + k]
        /\ round.listener + Len(called) = Len(due)
        /\ \A k \in 1 .. Len(called) : called[k] = due[k]

\* The inductive invariant of the router.
IInv == TypeInv /\ ListInv /\ WalkInv

\* At first the lists are empty and no round is made.
LEMMA InitInv == Init => IInv
BY DEF Init, Idle, IInv, TypeInv, Round, ListInv, WalkInv, IsIn

\* An element put in front of a list.
LEMMA PushedFront ==
  ASSUME NEW E, NEW list \in Seq(E), NEW e \in E
  PROVE  /\ <<e>> \o list \in Seq(E)
         /\ Len(<<e>> \o list) = Len(list) + 1
         /\ (<<e>> \o list)[1] = e
         /\ \A k \in 1 .. Len(list) : (<<e>> \o list)[k + 1] = list[k]
OBVIOUS

\* The iterators of a round stay on their elements when a list grows.
LEMMA IfaceKept ==
  ASSUME TypeInv, NEW i \in Ifaces, addInterface(i),
         round.iface \in 1 .. Len(interfacesList)
  PROVE  Iface' = Iface
<1>1. interfacesList' = <<i>> \o interfacesList /\ round' = round
  BY DEF addInterface
<1> DEFINE n == Len(interfacesList)
           k == n - round.iface + 1
<1>2. Len(interfacesList') = n + 1 /\ k \in 1 .. n
  <2>1. interfacesList \in Seq(Ifaces)
    BY DEF TypeInv
  <2>2. Len(<<i>> \o interfacesList) = Len(interfacesList) + 1
    BY <2>1, PushedFront
  <2>3. n \in Nat /\ round.iface \in 1 .. n
    BY <2>1
  <2>4. QED
    BY <1>1, <2>2, <2>3
<1>3. interfacesList'[k + 1] = interfacesList[k]
  <2>1. \A j \in 1 .. n : interfacesList'[j + 1] = interfacesList[j]
    BY <1>1, PushedFront DEF TypeInv, Round
  <2> HIDE DEF k
  <2>2. QED
    BY <1>2, <2>1
<1>4. Len(interfacesList') - round.iface' + 1 = k + 1
  BY <1>1, <1>2 DEF TypeInv, Round
<1>5. Iface' = interfacesList'[k + 1]
  BY <1>4 DEF Iface, At
<1>6. Iface = interfacesList[k]
  BY DEF Iface, At
<1>7. QED
  BY <1>3, <1>5, <1>6

\* The interface of a round is one of the list.
LEMMA IfaceType ==
  ASSUME TypeInv, round.iface \in 1 .. Len(interfacesList)
  PROVE  Iface \in Ifaces
<1>1. Len(interfacesList) - round.iface + 1 \in 1 .. Len(interfacesList)
  BY DEF TypeInv, Round
<1>2. QED
  BY <1>1 DEF TypeInv, Round, Iface, At

\* addInterface() keeps the invariant: the round goes on behind the new one.
LEMMA InterfaceKeepsInv ==
  ASSUME IInv, NEW i \in Ifaces, addInterface(i)
  PROVE  IInv'
<1>1. /\ interfacesList' = <<i>> \o interfacesList
      /\ UNCHANGED <<listenersList, listenersDeleteList, fate, round, due, called>>
  BY DEF addInterface, listVars, walkVars
<1>2. /\ interfacesList' \in Seq(Ifaces)
      /\ Len(interfacesList') = Len(interfacesList) + 1
  BY <1>1, PushedFront DEF IInv, TypeInv, Round
<1>3. TypeInv'
  BY <1>1, <1>2 DEF IInv, TypeInv, Round
<1>4. ListInv'
  BY <1>1 DEF IInv, ListInv
<1>5. WalkInv'
  <2>1. SUFFICES ASSUME round.at = "listener" PROVE WalkInv'
    BY <1>1 DEF WalkInv
  <2>2. round.iface \in 1 .. Len(interfacesList)
    BY <2>1 DEF IInv, WalkInv
  <2>3. Iface' = Iface /\ round.iface \in 1 .. Len(interfacesList')
    BY <2>2, <1>2, IfaceKept DEF IInv, TypeInv, Round
  <2>4. QED
    BY <1>1, <2>1, <2>3 DEF IInv, WalkInv
<1>6. QED
  BY <1>3, <1>4, <1>5 DEF IInv

\* addProtocolListener() keeps the invariant.
LEMMA AddKeepsInv ==
  ASSUME IInv, NEW l \in Listeners, NEW i \in Ifaces, addListener(l, i)
  PROVE  IInv'
<1>1. /\ listenersList' = [listenersList EXCEPT ![i] = <<l>> \o @]
      /\ fate' = [fate EXCEPT ![i][l] = IF @ = "leaving" THEN @ ELSE "added"]
      /\ UNCHANGED <<interfacesList, listenersDeleteList, round, due, called>>
  BY DEF addListener, walkVars
<1> DEFINE old == listenersList[i]
           new == listenersList'[i]
<1>2. /\ old \in Seq(Listeners) /\ new \in Seq(Listeners)
      /\ Len(new) = Len(old) + 1 /\ new[1] = l
      /\ \A k \in 1 .. Len(old) : new[k + 1] = old[k]
      /\ \A j \in Ifaces : j # i => listenersList'[j] = listenersList[j]
  BY <1>1, PushedFront DEF IInv, TypeInv, Round
<1>3. TypeInv'
  BY <1>1, <1>2 DEF IInv, TypeInv, Round
<1>4. ListInv'
  <2>1. \A m \in Listeners : IsIn(m, new) <=> m = l \/ IsIn(m, old)
    <3>1. IsIn(l, new)
      BY <1>2 DEF IsIn
    <3>2. ASSUME NEW m \in Listeners, IsIn(m, old) PROVE IsIn(m, new)
      <4>1. PICK k \in 1 .. Len(old) : old[k] = m
        BY <3>2 DEF IsIn
      <4>2. k + 1 \in 1 .. Len(new) /\ new[k + 1] = m
        BY <1>2, <4>1
      <4>3. QED
        BY <4>2 DEF IsIn
    <3>3. ASSUME NEW m \in Listeners, IsIn(m, new), m # l PROVE IsIn(m, old)
      <4>1. PICK k \in 1 .. Len(new) : new[k] = m
        BY <3>3 DEF IsIn
      <4> HIDE DEF old, new
      <4>2. Len(old) \in Nat /\ k \in 1 .. Len(old) + 1 /\ k # 1
        BY <1>2, <3>3, <4>1
      <4>3. k - 1 \in 1 .. Len(old) /\ (k - 1) + 1 = k
        BY <4>2
      <4>4. old[k - 1] = m
        BY <1>2, <4>1, <4>3
      <4>5. QED
        BY <4>3, <4>4 DEF IsIn
    <3>4. QED
      BY <3>1, <3>2, <3>3
  <2>2. ASSUME NEW j \in Ifaces, NEW m \in Listeners
        PROVE  fate'[j][m] = IF j = i /\ m = l /\ fate[i][l] # "leaving" THEN "added"
                             ELSE fate[j][m]
    BY <1>1 DEF IInv, TypeInv, Round
  <2>3. QED
    BY <1>1, <1>2, <2>1, <2>2 DEF IInv, ListInv
<1>5. WalkInv'
  <2>1. SUFFICES ASSUME round.at = "listener" PROVE WalkInv'
    BY <1>1 DEF WalkInv
  <2>2. round.iface \in 1 .. Len(interfacesList) /\ Iface' = Iface /\ Iface \in Ifaces
    BY <1>1, <2>1, IfaceType DEF IInv, WalkInv, Iface
  <2>3. CASE Iface # i
    BY <1>1, <1>2, <2>1, <2>2, <2>3 DEF IInv, WalkInv
  <2>4. CASE Iface = i
    <3>1. /\ Len(due) \in Nat /\ Len(due) <= Len(old)
          /\ \A k \in 1 .. Len(due) : due[k] = old[Len(old) - Len(due) + k]
      BY <2>1, <2>4 DEF IInv, WalkInv, TypeInv, Round
    <3>2. ASSUME NEW k \in 1 .. Len(due)
          PROVE  due[k] = new[Len(new) - Len(due) + k]
      <4>1. Len(old) - Len(due) + k \in 1 .. Len(old)
        BY <1>2, <3>1
      <4>2. Len(new) - Len(due) + k = (Len(old) - Len(due) + k) + 1
        BY <1>2, <3>1
      <4>3. QED
        BY <1>2, <3>1, <4>1, <4>2
    <3>3. Len(due) <= Len(new)
      BY <1>2, <3>1
    <3>4. QED
      BY <1>1, <2>1, <2>2, <2>4, <3>2, <3>3 DEF IInv, WalkInv
  <2>5. QED
    BY <2>3, <2>4
<1>6. QED
  BY <1>3, <1>4, <1>5 DEF IInv

\* deleteProtocolListener() keeps the invariant.
LEMMA DeleteKeepsInv ==
  ASSUME IInv, NEW l \in Listeners, NEW i \in Ifaces, deleteListener(l, i)
  PROVE  IInv'
<1>1. /\ listenersDeleteList' = [listenersDeleteList EXCEPT ![i] = @ \cup {l}]
      /\ fate' = [fate EXCEPT ![i][l] = "leaving"]
      /\ UNCHANGED <<interfacesList, listenersList, round, due, called>>
  BY DEF deleteListener, walkVars
<1>2. TypeInv'
  BY <1>1 DEF IInv, TypeInv, Round
<1>3. ListInv'
  <2>1. ASSUME NEW j \in Ifaces, NEW m \in Listeners
        PROVE  /\ fate'[j][m] = IF j = i /\ m = l THEN "leaving" ELSE fate[j][m]
               /\ m \in listenersDeleteList'[j] <=>
                    m \in listenersDeleteList[j] \/ (j = i /\ m = l)
    BY <1>1 DEF IInv, TypeInv, Round
  <2>2. QED
    BY <1>1, <2>1 DEF IInv, ListInv
<1>4. WalkInv'
  BY <1>1 DEF IInv, WalkInv, Iface
<1>5. QED
  BY <1>2, <1>3, <1>4 DEF IInv

\* The listener that a walk calls next is the next of those due.
LEMMA ListenerIsDue ==
  ASSUME IInv, round.at = "listener", round.listener > 0
  PROVE  /\ Iface \in Ifaces /\ Listener \in Listeners
         /\ IsIn(Listener, listenersList[Iface])
         /\ Len(called) + 1 \in 1 .. Len(due)
         /\ Listener = due[Len(called) + 1]
<1> DEFINE list == listenersList[Iface]
<1>1. Iface \in Ifaces /\ list \in Seq(Listeners)
  BY IfaceType DEF IInv, WalkInv, TypeInv, Round
<1>2. \A k \in 1 .. Len(due) : due[k] = list[Len(list) - Len(due) + k]
  BY DEF IInv, WalkInv
<1>3. /\ Len(called) \in Nat /\ Len(due) \in Nat /\ Len(list) \in Nat
      /\ round.listener \in Nat /\ round.listener > 0
      /\ Len(due) <= Len(list) /\ round.listener + Len(called) = Len(due)
  BY <1>1 DEF IInv, TypeInv, Round, WalkInv
<1> DEFINE k == Len(called) + 1
           p == Len(list) - round.listener + 1
<1>4. k \in 1 .. Len(due) /\ p \in 1 .. Len(list) /\ Len(list) - Len(due) + k = p
  <2> HIDE DEF list
  <2>1. QED
    BY <1>3
<1>5. list[p] = due[k]
  <2> HIDE DEF list, k, p
  <2>1. QED
    BY <1>2, <1>4
<1>6. Listener = list[p]
  BY DEF Listener, At
<1> HIDE DEF list, k, p
<1>7. list[p] \in Listeners
  BY <1>1, <1>4
<1>8. QED
  BY <1>1, <1>4, <1>5, <1>6, <1>7 DEF IsIn, list, k, p

\* The end of a round keeps the invariant.
LEMMA WalkEndKeepsInv ==
  ASSUME IInv, WalkEnd
  PROVE  IInv'
<1>1. Iface \in Ifaces /\ round.iface \in 1 .. Len(interfacesList)
  BY IfaceType DEF IInv, WalkInv, WalkEnd
<1> DEFINE i == Iface
           list == listenersList[i]
           S == Listeners \ listenersDeleteList[i]
<1>2. /\ listenersList' = [listenersList EXCEPT ![i] = Filtered(list, S)]
      /\ listenersDeleteList' = [listenersDeleteList EXCEPT ![i] = {}]
      /\ fate' = [fate EXCEPT ![i] =
                    [l \in Listeners |-> IF @[l] = "leaving" THEN "gone" ELSE @[l]]]
      /\ round' = [round EXCEPT !.at = "iface", !.iface = @ - 1]
      /\ due' = << >> /\ called' = << >> /\ interfacesList' = interfacesList
  BY DEF WalkEnd, Removed, DeletionsDone
<1>3. list \in Seq(Listeners)
  BY <1>1 DEF IInv, TypeInv, Round
<1>4. /\ Filtered(list, S) \in Seq(Listeners)
      /\ \A l \in Listeners : IsIn(l, Filtered(list, S)) <=> IsIn(l, list) /\ l \in S
  <2> HIDE DEF list, S
  <2>1. QED
    BY <1>3, FilteredElements DEF IsIn
<1> HIDE DEF i, list, S
<1>5. i \in Ifaces
  BY <1>1 DEF i
<1>6. TypeInv'
  <2>1. /\ round' \in Round
        /\ round'.iface <= Len(interfacesList')
    <3>1. /\ round \in Round
          /\ Len(interfacesList) \in Nat
      BY DEF IInv, TypeInv, Round
    <3>2. round.iface - 1 \in Nat /\ round.iface - 1 <= Len(interfacesList)
      BY <1>1, <3>1
    <3>3. QED
      BY <1>2, <3>1, <3>2 DEF Round
  <2>2. QED
    BY <1>2, <1>4, <1>5, <2>1 DEF IInv, TypeInv, Round
<1>7. ListInv'
  <2>1. ASSUME NEW j \in Ifaces, NEW l \in Listeners
        PROVE  /\ j # i => /\ fate'[j][l] = fate[j][l]
                           /\ listenersList'[j] = listenersList[j]
                           /\ listenersDeleteList'[j] = listenersDeleteList[j]
               /\ j = i => /\ fate'[j][l] = IF fate[j][l] = "leaving" THEN "gone"
                                            ELSE fate[j][l]
                           /\ listenersList'[j] = Filtered(list, S)
                           /\ listenersDeleteList'[j] = {}
    BY <1>2, <1>5 DEF IInv, TypeInv, Round
  <2>2. \A l \in Listeners : l \in S <=> fate[i][l] # "leaving"
    BY <1>5 DEF IInv, ListInv, S
  <2>3. ASSUME NEW j \in Ifaces, NEW l \in Listeners
        PROVE  /\ fate'[j][l] = "leaving" <=> l \in listenersDeleteList'[j]
               /\ fate'[j][l] = "added" => IsIn(l, listenersList'[j])
               /\ fate'[j][l] \in {"never", "gone"} => ~IsIn(l, listenersList'[j])
    <3>1. CASE j # i
      BY <2>1, <3>1 DEF IInv, ListInv
    <3>2. CASE j = i
      <4>1. /\ fate[i][l] = "added" => IsIn(l, list)
            /\ fate[i][l] \in {"never", "gone"} => ~IsIn(l, list)
            /\ fate[i][l] \in {"never", "added", "leaving", "gone"}
        BY <1>5 DEF IInv, TypeInv, Round, ListInv, list
      <4>2. IsIn(l, Filtered(list, S)) <=> IsIn(l, list) /\ fate[i][l] # "leaving"
        BY <1>4, <2>2
      <4>3. QED
        BY <2>1, <3>2, <4>1, <4>2
    <3>3. QED
      BY <3>1, <3>2
  <2>4. QED
    BY <2>3 DEF ListInv
<1>8. WalkInv'
  BY <1>2 DEF IInv, TypeInv, Round, WalkInv
<1>9. QED
  BY <1>6, <1>7, <1>8 DEF IInv

\* The invariant of the lists rests on the lists and the fates alone.
LEMMA SameLists ==
  ASSUME ListInv, UNCHANGED listVars
  PROVE  ListInv'
BY DEF ListInv, listVars

\* Every step of a round keeps the invariant.
LEMMA RouteKeepsInv ==
  ASSUME IInv, Route
  PROVE  IInv'
<1>1. CASE RouteNothing
  BY <1>1
  DEF RouteNothing, vars, listVars, walkVars, IInv, TypeInv, Round, ListInv, WalkInv,
      Iface
<1>2. CASE RouteBegin
  <2>1. /\ round' = [at |-> "iface", iface |-> Len(interfacesList), listener |-> 0]
        /\ UNCHANGED <<interfacesList, listVars, walkVars>>
    BY <1>2 DEF RouteBegin
  <2>2. TypeInv' /\ ListInv'
    BY <2>1, SameLists DEF IInv, TypeInv, Round, listVars, walkVars
  <2>3. QED
    BY <2>1, <2>2 DEF IInv, WalkInv
<1>3. CASE PullOther
  <2>1. /\ round' = [round EXCEPT !.iface = @ - 1] /\ round.at = "iface"
        /\ UNCHANGED <<interfacesList, listVars, walkVars>>
    BY <1>3 DEF PullOther
  <2>2. /\ round.iface - 1 \in Nat /\ round.iface - 1 <= Len(interfacesList)
        /\ Len(interfacesList) \in Nat
    BY <1>3 DEF PullOther, IInv, TypeInv, Round
  <2>3. /\ round' \in Round /\ round'.at = "iface" /\ round'.iface = round.iface - 1
    BY <2>1, <2>2 DEF IInv, TypeInv, Round
  <2>4. TypeInv' /\ ListInv'
    BY <2>1, <2>2, <2>3, SameLists DEF IInv, TypeInv, Round, listVars, walkVars
  <2>5. QED
    BY <2>3, <2>4 DEF IInv, WalkInv
<1>4. CASE PullFrame
  <2>1. round.iface \in 1 .. Len(interfacesList) /\ Iface' = Iface
    BY <1>4 DEF PullFrame, IInv, TypeInv, Round, Iface
  <2>2. Iface \in Ifaces /\ listenersList[Iface] \in Seq(Listeners)
    BY <2>1, IfaceType DEF IInv, TypeInv, Round
  <2>3. /\ round' = [round EXCEPT !.at = "listener",
                                  !.listener = Len(listenersList[Iface])]
        /\ due' = listenersList[Iface] /\ called' = << >>
        /\ UNCHANGED <<interfacesList, listVars>>
    BY <1>4 DEF PullFrame
  <2>4. /\ round'.at = "listener" /\ round'.iface = round.iface
        /\ round'.listener = Len(due')
        /\ round' \in Round
    <3>1. Len(listenersList[Iface]) \in Nat /\ round \in Round
      BY <2>2 DEF IInv, TypeInv
    <3>2. QED
      BY <2>3, <3>1 DEF Round
  <2>5. ListInv'
    BY <2>3, SameLists DEF IInv
  <2>6. TypeInv'
    BY <2>2, <2>3, <2>4 DEF IInv, TypeInv, Round, listVars
  <2>7. WalkInv'
    BY <2>1, <2>2, <2>3, <2>4 DEF WalkInv, listVars
  <2>8. QED
    BY <2>5, <2>6, <2>7 DEF IInv
<1>5. CASE CallListener
  <2>1. Iface' = Iface /\ round.at = "listener" /\ round.listener > 0
    BY <1>5 DEF CallListener, IInv, TypeInv, Round, Iface
  <2>2. /\ Listener \in Listeners /\ Len(called) + 1 \in 1 .. Len(due)
        /\ Listener = due[Len(called) + 1]
    BY <2>1, ListenerIsDue
  <2>3. /\ called' \in Seq(Listeners) /\ Len(called') = Len(called) + 1
        /\ called'[Len(called) + 1] = Listener
        /\ \A k \in 1 .. Len(called) : called'[k] = called[k]
    BY <1>5, <2>2 DEF CallListener, IInv, TypeInv, Round
  <2>4. /\ round' = [round EXCEPT !.listener = @ - 1]
        /\ UNCHANGED <<interfacesList, listVars, due>>
    BY <1>5 DEF CallListener
  <2>5. /\ round'.at = "listener" /\ round'.iface = round.iface
        /\ round'.listener = round.listener - 1
        /\ round' \in Round
    <3>1. round.listener - 1 \in Nat /\ round \in Round
      BY <2>1 DEF IInv, TypeInv, Round
    <3>2. QED
      BY <2>1, <2>4, <3>1 DEF Round
  <2>6. ListInv'
    BY <2>4, SameLists DEF IInv
  <2>7. TypeInv'
    BY <2>3, <2>4, <2>5 DEF IInv, TypeInv, Round, listVars
  <2>8. \A k \in 1 .. Len(called') : called'[k] = due[k]
    <3>1. Len(called) \in Nat /\ \A k \in 1 .. Len(called) : called[k] = due[k]
      BY <2>1 DEF IInv, TypeInv, Round, WalkInv
    <3>2. \A k \in 1 .. Len(called') : k \in 1 .. Len(called) \/ k = Len(called) + 1
      BY <2>3, <3>1
    <3>3. QED
      BY <2>2, <2>3, <3>1, <3>2
  <2>9. round'.listener + Len(called') = Len(due)
    <3>1. /\ round.listener \in Nat /\ Len(called) \in Nat
          /\ round.listener + Len(called) = Len(due)
      BY <2>1 DEF IInv, TypeInv, Round, WalkInv
    <3>2. QED
      BY <2>3, <2>5, <3>1
  <2>10. WalkInv'
    BY <2>1, <2>4, <2>5, <2>8, <2>9 DEF listVars, IInv, WalkInv
  <2>11. QED
    BY <2>6, <2>7, <2>10 DEF IInv
<1>6. CASE WalkEnd
  BY <1>6, WalkEndKeepsInv
<1>7. CASE RouteEnd
  BY <1>7
  DEF RouteEnd, Idle, listVars, walkVars, IInv, TypeInv, Round, ListInv, WalkInv, Iface
<1>8. QED
  BY <1>1, <1>2, <1>3, <1>4, <1>5, <1>6, <1>7 DEF Route

\* The invariant is inductive.
LEMMA NextInv == IInv /\ [Next]_vars => IInv'
<1>1. SUFFICES ASSUME IInv, [Next]_vars PROVE IInv'
  OBVIOUS
<1>2. ASSUME NEW i \in Ifaces, addInterface(i) PROVE IInv'
  BY <1>1, <1>2, InterfaceKeepsInv
<1>3. ASSUME NEW i \in Ifaces, NEW l \in Listeners,
             addListener(l, i) \/ deleteListener(l, i)
      PROVE IInv'
  BY <1>1, <1>3, AddKeepsInv, DeleteKeepsInv
<1>4. CASE \/ \E i \in Ifaces : Plug(i)
           \/ \E inTimer, check \in BOOLEAN : start(inTimer, check)
           \/ LinkCheck \/ UNCHANGED vars
  <2>1. UNCHANGED <<interfacesList, listVars, round, walkVars>>
    BY <1>4 DEF Plug, start, LinkCheck, vars
  <2>2. QED
    BY <1>1, <2>1 DEF listVars, walkVars, IInv, TypeInv, Round, ListInv, WalkInv, Iface
<1>5. CASE Route
  BY <1>1, <1>5, RouteKeepsInv
<1>6. QED
  BY <1>1, <1>2, <1>3, <1>4, <1>5 DEF Next

\* The invariant holds in every state.
LEMMA SpecInv == Spec => []IInv
BY InitInv, NextInv, PTL DEF Spec

-----------------------------------------------------------------------------

\* A listener that was added while no deletion of it was pending stays registered
\* until it is deleted (addListener, deleteListener and routeFrames' remove_if).
THEOREM SpecAddedStaysRegistered == Spec => []AddedStaysRegistered
<1>1. ASSUME IInv, NEW i \in Ifaces, NEW l \in Listeners, fate[i][l] = "added"
      PROVE  l \in ToSet(listenersList[i])
  <2>1. PICK k \in 1 .. Len(listenersList[i]) : listenersList[i][k] = l
    BY <1>1 DEF IInv, ListInv, IsIn
  <2>2. listenersList[i] \in Seq(Listeners)
    BY <1>1 DEF IInv, TypeInv, Round
  <2>3. QED
    BY <2>1, <2>2 DEF ToSet
<1>2. IInv => AddedStaysRegistered
  BY <1>1 DEF AddedStaysRegistered
<1>3. QED
  BY <1>2, SpecInv, PTL

\* A listener that was deleted is called for no frame after the next one, whatever
\* the callbacks add and delete (routeFrames).
THEOREM SpecDeletedUncalled == Spec => DeletedUncalled
<1>1. IInv /\ CallListener => fate[Iface][Listener] # "gone"
  BY ListenerIsDue DEF CallListener, IInv, ListInv
<1>2. IInv => [CallListener => fate[Iface][Listener] # "gone"]_vars
  BY <1>1
<1>3. QED
  BY <1>2, SpecInv, PTL DEF DeletedUncalled

\* A walk calls the listeners that were registered when it began, each as often as
\* it was registered and in their order (routeFrames).
THEOREM SpecWalkCallsTheRegistered == Spec => WalkCallsTheRegistered
<1>1. ASSUME IInv, WalkEnd PROVE called = due
  <2>1. /\ Len(called) = Len(due)
        /\ \A k \in 1 .. Len(called) : called[k] = due[k]
    BY <1>1 DEF WalkEnd, IInv, TypeInv, Round, WalkInv
  <2>2. called \in Seq(Listeners) /\ due \in Seq(Listeners)
    BY <1>1 DEF IInv, TypeInv, Round
  <2>3. QED
    BY <2>1, <2>2
<1>2. IInv => [WalkEnd => called = due]_vars
  BY <1>1
<1>3. QED
  BY <1>2, SpecInv, PTL DEF WalkCallsTheRegistered

-----------------------------------------------------------------------------

\* The rest of the types: no interface is listed twice, and of each timer event
\* there is at most one.
RestInv ==
  /\ IsInjective(interfacesList)
  /\ link \in [Ifaces -> BOOLEAN] /\ plugged \in [Ifaces -> BOOLEAN]
  /\ isStarted \in BOOLEAN /\ routeFramesInTimer \in BOOLEAN /\ checkLink \in BOOLEAN
  /\ armed \in [{"route", "link"} -> 0 .. 1]

\* Only addInterface() changes the list, and it does not list what is listed.
LEMMA ListedOnce ==
  ASSUME TypeInv, IsInjective(interfacesList), Next
  PROVE  IsInjective(interfacesList')
<1>1. CASE UNCHANGED interfacesList
  BY <1>1 DEF IsInjective
<1>2. ASSUME NEW i \in Ifaces, addInterface(i) PROVE IsInjective(interfacesList')
  <2> DEFINE n == Len(interfacesList)
  <2>1. /\ interfacesList' = <<i>> \o interfacesList
        /\ \A k \in 1 .. n : interfacesList[k] # i
        /\ \A j, k \in 1 .. n : interfacesList[j] = interfacesList[k] => j = k
    <3>1. interfacesList' = <<i>> \o interfacesList /\ i \notin ToSet(interfacesList)
      BY <1>2 DEF addInterface
    <3>2. interfacesList \in Seq(Ifaces) /\ DOMAIN interfacesList = 1 .. n
      BY DEF TypeInv
    <3>3. QED
      BY <3>1, <3>2, Zenon DEF ToSet, IsInjective
  <2>2. /\ n \in Nat /\ DOMAIN interfacesList' = 1 .. n + 1
        /\ interfacesList'[1] = i
        /\ \A k \in 1 .. n : interfacesList'[k + 1] = interfacesList[k]
    BY <2>1, PushedFront DEF TypeInv
  <2> HIDE DEF n
  <2>3. ASSUME NEW k \in 1 .. n + 1, k # 1
        PROVE  k - 1 \in 1 .. n /\ interfacesList'[k] = interfacesList[k - 1]
    <3>1. k - 1 \in 1 .. n /\ (k - 1) + 1 = k
      BY <2>2, <2>3
    <3>2. QED
      BY <2>2, <3>1
  <2>4. SUFFICES ASSUME NEW j \in 1 .. n + 1, NEW k \in 1 .. n + 1,
                        interfacesList'[j] = interfacesList'[k]
                 PROVE  j = k
    BY <2>2 DEF IsInjective
  <2>5. CASE j = 1 \/ k = 1
    BY <2>1, <2>2, <2>3, <2>4, <2>5
  <2>6. CASE j # 1 /\ k # 1
    <3>1. j - 1 = k - 1
      BY <2>1, <2>3, <2>4, <2>6
    <3>2. QED
      BY <3>1
  <2>7. QED
    BY <2>5, <2>6
<1>3. QED
  BY <1>1, <1>2
  DEF Next, Plug, start, addListener, deleteListener, LinkCheck, Route, RouteNothing,
      RouteBegin, PullOther, PullFrame, CallListener, WalkEnd, RouteEnd, vars

\* The rest of the types is inductive.
LEMMA RestNextInv ==
  ASSUME TypeInv, RestInv, [Next]_vars
  PROVE  RestInv'
<1>1. CASE UNCHANGED vars
  BY <1>1 DEF RestInv, vars, startVars, IsInjective
<1>2. CASE Next
  <2>1. IsInjective(interfacesList')
    BY <1>2, ListedOnce DEF RestInv
  <2>2. /\ link' \in [Ifaces -> BOOLEAN]
        /\ plugged' \in [Ifaces -> BOOLEAN]
    BY <1>2
    DEF RestInv, Next, addInterface, Plug, start, addListener, deleteListener, LinkCheck,
        Route, RouteNothing, RouteBegin, PullOther, PullFrame, CallListener, WalkEnd,
        RouteEnd, vars
  <2>3. isStarted' \in BOOLEAN /\ routeFramesInTimer' \in BOOLEAN /\ checkLink' \in BOOLEAN
    BY <1>2
    DEF RestInv, Next, addInterface, Plug, start, addListener, deleteListener, LinkCheck,
        Route, RouteNothing, RouteBegin, PullOther, PullFrame, CallListener, WalkEnd,
        RouteEnd, vars, startVars
  <2>4. armed' \in [{"route", "link"} -> 0 .. 1]
    <3>1. CASE UNCHANGED armed
      BY <3>1 DEF RestInv
    <3>2. ASSUME NEW inTimer \in BOOLEAN, NEW check \in BOOLEAN, start(inTimer, check)
          PROVE  armed' \in [{"route", "link"} -> 0 .. 1]
      BY <3>2 DEF start
    <3>3. CASE RouteBegin \/ RouteEnd
      BY <3>3 DEF RouteBegin, RouteEnd, RestInv
    <3>4. QED
      BY <1>2, <3>1, <3>2, <3>3
      DEF Next, addInterface, Plug, addListener, deleteListener, LinkCheck, Route,
          RouteNothing, PullOther, PullFrame, CallListener, WalkEnd, vars
  <2>5. QED
    BY <2>1, <2>2, <2>3, <2>4 DEF RestInv
<1>3. QED
  BY <1>1, <1>2

\* Whatever is added, deleted, routed and plugged: the iterators of routeFrames() stay
\* in their lists, no interface is listed twice (addInterface), and each timer event
\* is set at most once (start, timerCallback).
THEOREM SpecTypeOK == Spec => []TypeOK
<1>1. ASSUME Init PROVE RestInv
  <2>1. IsInjective(interfacesList)
    BY <1>1 DEF Init, IsInjective
  <2>2. armed \in [{"route", "link"} -> 0 .. 1]
    <3>1. 0 \in 0 .. 1
      OBVIOUS
    <3>2. QED
      BY <1>1, <3>1, Zenon DEF Init
  <2>3. QED
    BY <1>1, <2>1, <2>2 DEF Init, RestInv
<1>2. IInv /\ RestInv /\ [Next]_vars => RestInv'
  BY RestNextInv DEF IInv
<1>3. ASSUME IInv, RestInv PROVE TypeOK
  <2>1. ASSUME round.at = "listener"
        PROVE  round.iface > 0 /\ round.listener <= Len(listenersList[Iface])
    <3>1. Iface \in Ifaces /\ round.iface \in 1 .. Len(interfacesList)
      BY <1>3, <2>1, IfaceType DEF IInv, WalkInv
    <3>2. /\ round.listener + Len(called) = Len(due)
          /\ Len(due) <= Len(listenersList[Iface])
      BY <1>3, <2>1 DEF IInv, WalkInv
    <3>3. /\ round.listener \in Nat /\ Len(called) \in Nat /\ Len(due) \in Nat
          /\ Len(listenersList[Iface]) \in Nat
      BY <1>3, <3>1 DEF IInv, TypeInv, Round
    <3>4. QED
      BY <3>1, <3>2, <3>3
  <2>2. /\ round.at \in {"idle", "iface", "listener"}
        /\ round.iface \in 0 .. Len(interfacesList) /\ round.listener \in Nat
    BY <1>3 DEF IInv, TypeInv, Round
  <2>3. QED
    BY <1>3, <2>1, <2>2 DEF IInv, TypeInv, RestInv, TypeOK
<1>4. QED
  BY <1>1, <1>2, <1>3, SpecInv, PTL DEF Spec

=============================================================================
