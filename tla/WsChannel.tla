------------------------------- MODULE WsChannel -------------------------------
(***************************************************************************)
(* The websocket channels of the bare-metal build: one channel for every   *)
(* uri, each with the list of its connections                              *)
(* (src/ethutilities/WsChannel.cpp).  lwIP's web server calls in, and the  *)
(* application that is called back may use the channels from there.        *)
(***************************************************************************)
EXTENDS Integers, Sequences, SequencesExt, ForwardList

CONSTANTS
  Uris,   \* of channels
  Pcbs,   \* addresses of lwIP's connection blocks, which are used again
  NoUri,  \* the connection is not a websocket
  Missed, \* it is one of a uri that had no channel when it was opened
  MaxListed \* bound: connections in the list of a channel

ASSUME WsAssumption ==
  /\ MaxListed \in Nat \ {0}
  /\ NoUri \notin Uris /\ NoUri \notin Pcbs
  /\ Missed \notin Uris \cup {NoUri}

VARIABLES
  wsChannelsList_, \* the uris of the channels, newest first
  wsCallback,      \* the channels with a callback_
  pcbsList_,       \* the connections of each channel, newest first
  pcbState,        \* lwIP: a closing one has got a FIN
  uriOf,           \* history: the uri of each websocket
  walk             \* where websocketCallback is

wsVars == <<wsChannelsList_, wsCallback, pcbsList_, pcbState, uriOf, walk>>

\* No call of websocketCallback is under way.
Idle == [pcb |-> NoUri, uri |-> NoUri, node |-> 0, erased |-> FALSE]

WsTypeOK ==
  /\ wsChannelsList_ \in Seq(Uris) /\ IsInjective(wsChannelsList_)
  /\ wsCallback \subseteq Uris
  /\ pcbsList_ \in [Uris -> Seq(Pcbs)]
  /\ pcbState \in [Pcbs -> {"closed", "established", "closing"}]
  /\ uriOf \in [Pcbs -> Uris \cup {NoUri, Missed}]
  /\ walk \in [pcb : Pcbs \cup {NoUri}, uri : Uris \cup {NoUri}, node : Nat,
               erased : BOOLEAN]

WsInit ==
  /\ wsChannelsList_ = << >>
  /\ wsCallback = {}
  /\ pcbsList_ = [u \in Uris |-> << >>]
  /\ pcbState = [p \in Pcbs |-> "closed"]
  /\ uriOf = [p \in Pcbs |-> NoUri]
  /\ walk = Idle

\* Mutant: only the newest channel is looked at.
IsNewest(u) == wsChannelsList_ # << >> /\ Head(wsChannelsList_) = u

HasChannel(u) == \E i \in DOMAIN wsChannelsList_ : wsChannelsList_[i] = u

-----------------------------------------------------------------------------
(* The application's calls, from the main loop or from within a callback.  *)

\* createWsChannel() makes one channel for a uri.
Create(u) ==
  /\ ~HasChannel(u)
  /\ wsChannelsList_' = <<u>> \o wsChannelsList_
  /\ UNCHANGED <<wsCallback, pcbsList_, pcbState, uriOf, walk>>

\* initialize() and deinitialize().
SetCallback(u) ==
  /\ HasChannel(u)
  /\ wsCallback' \in {wsCallback \cup {u}, wsCallback \ {u}}
  /\ UNCHANGED <<wsChannelsList_, pcbsList_, pcbState, uriOf, walk>>

\* Mutant: the connections that are open are removed.
StaysIfClosed(p) == pcbState[p] # "established"

Stays(p) == pcbState[p] = "established"

Staying == {p \in Pcbs : Stays(p)}

checkPcbs(u) == Filtered(pcbsList_[u], Staying)

\* tx() writes to what checkPcbs() has left, or to one connection.  The node
\* that websocketCallback stands on is erased if its connection is not open.
WsTx(u) ==
  /\ HasChannel(u)
  /\ pcbsList_' = [pcbsList_ EXCEPT ![u] = checkPcbs(u)]
  /\ walk' = IF walk.uri # u \/ walk.erased THEN walk
             ELSE [walk EXCEPT !.node = Len(Filtered(SubSeq(pcbsList_[u], 1, @), Staying)),
                               !.erased = ~Stays(walk.pcb)]
  /\ UNCHANGED <<wsChannelsList_, wsCallback, pcbState, uriOf>>

-----------------------------------------------------------------------------
(* lwIP.                                                                   *)

Accept(p) ==
  /\ pcbState[p] = "closed"
  /\ pcbState' = [pcbState EXCEPT ![p] = "established"]
  /\ UNCHANGED <<wsChannelsList_, wsCallback, pcbsList_, uriOf, walk>>

\* The peer closes, with or without data; then the block is free.
Close(p) ==
  /\ \/ /\ pcbState[p] = "established"
        /\ pcbState' = [pcbState EXCEPT ![p] = "closing"]
        /\ UNCHANGED uriOf
     \/ /\ pcbState[p] # "closed"
        /\ pcbState' = [pcbState EXCEPT ![p] = "closed"]
        /\ uriOf' = [uriOf EXCEPT ![p] = NoUri]
  /\ UNCHANGED <<wsChannelsList_, wsCallback, pcbsList_, walk>>

\* Mutant: the new connection takes the place of the others.
Alone(p, list) == <<p>>

PushFront(p, list) == <<p>> \o list

websocketOpenCallback(p, u) ==
  /\ pcbState[p] = "established" /\ uriOf[p] = NoUri
  /\ IF HasChannel(u)
     THEN /\ Len(checkPcbs(u)) < MaxListed
          /\ uriOf' = [uriOf EXCEPT ![p] = u]
          /\ pcbsList_' = [pcbsList_ EXCEPT ![u] = PushFront(p, checkPcbs(u))]
     ELSE /\ uriOf' = [uriOf EXCEPT ![p] = Missed]
          /\ UNCHANGED pcbsList_
  /\ UNCHANGED <<wsChannelsList_, wsCallback, pcbState, walk>>

\* The first node behind node n of channel u that has connection p and calls a
\* callback, in u or in a channel behind it; Idle when there is none.
NextNode(p, u, n) ==
  LET From(v) == IF v = u THEN n + 1 ELSE 1
      Place(v) == CHOOSE i \in DOMAIN wsChannelsList_ : wsChannelsList_[i] = v
      Found(v) == {k \in From(v) .. Len(pcbsList_[v]) : pcbsList_[v][k] = p}
      Channels == {v \in wsCallback : Place(v) >= Place(u) /\ Found(v) # {}}
  IN  IF Channels = {} THEN Idle
      ELSE LET v == CHOOSE v \in Channels : \A w \in Channels : Place(v) <= Place(w)
           IN  [pcb |-> p, uri |-> v, erased |-> FALSE,
                node |-> CHOOSE k \in Found(v) : \A j \in Found(v) : k <= j]

\* websocketCallback: data has come, perhaps in one segment with the FIN.
websocketCallback(p) ==
  /\ pcbState[p] # "closed" /\ uriOf[p] # NoUri
  /\ wsChannelsList_ # << >>
  /\ walk' = NextNode(p, Head(wsChannelsList_), 0)
  /\ walk' # Idle
  /\ UNCHANGED <<wsChannelsList_, wsCallback, pcbsList_, pcbState, uriOf>>

\* The application returns, and the loops go on from the node they stand on.  One
\* that is erased leads anywhere: the walk ends here.
CallbackDone ==
  /\ walk' = IF walk.erased THEN Idle ELSE NextNode(walk.pcb, walk.uri, walk.node)
  /\ UNCHANGED <<wsChannelsList_, wsCallback, pcbsList_, pcbState, uriOf>>

WsNext ==
  \/ \E u \in Uris : Create(u) \/ SetCallback(u) \/ WsTx(u)
  \/ walk = Idle /\ \E p \in Pcbs :
       \/ Accept(p) \/ Close(p) \/ websocketCallback(p)
       \/ \E u \in Uris : websocketOpenCallback(p, u)
  \/ walk # Idle /\ CallbackDone

WsSpec == WsInit /\ [][WsNext]_wsVars

-----------------------------------------------------------------------------
(* Properties.                                                             *)

\* A websocket that is open is in the list of its channel, so that a tx() to all
\* reaches it, whatever blocks have been closed and used again.
OpenIsListed ==
  \A p \in Pcbs, u \in Uris :
    pcbState[p] = "established" /\ uriOf[p] = u =>
      \E i \in DOMAIN pcbsList_[u] : pcbsList_[u][i] = p

\* The node that websocketCallback stands on while the application is called is
\* erased by nothing the application does there, as long as the connection is
\* open: only data that comes with the FIN makes the walk go astray.
WalkSafe ==
  walk # Idle /\ pcbState[walk.pcb] = "established" =>
    /\ ~walk.erased
    /\ walk.node \in DOMAIN pcbsList_[walk.uri]
    /\ pcbsList_[walk.uri][walk.node] = walk.pcb

=============================================================================
