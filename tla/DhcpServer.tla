------------------------------ MODULE DhcpServer ------------------------------
(***************************************************************************)
(* The DHCP server (src/ethutilities/DhcpServer.cpp), its clients and the  *)
(* network between them.                                                   *)
(*                                                                         *)
(* Entry i of the table is the i-th address of the pool (see DhcpPool).    *)
(* The clients are not part of the repository: they follow the state       *)
(* diagram of RFC 2131 with retransmissions, timeouts, reboots with a      *)
(* remembered address and moves between networks.  The link keeps the      *)
(* order of the messages of a client and may lose any of them.             *)
(***************************************************************************)
EXTENDS Integers, Sequences, FiniteSets

CONSTANTS
  Clients,    \* hardware addresses of the clients
  NULL,       \* no client, no address, no entry
  NumEntry,   \* config_.num_entry
  Foreign,    \* addresses of other networks
  MaxQueue,   \* bound: messages in flight in each direction of a client
  AllocFails, \* whether pbuf_alloc may fail
  Hasty       \* whether a client may time out with messages in flight

ASSUME DhcpAssumption ==
  /\ IsFiniteSet(Clients)
  /\ NumEntry \in Nat \ {0}
  /\ MaxQueue \in Nat \ {0}
  /\ NULL \notin Clients \cup Foreign \cup 1 .. NumEntry
  /\ Foreign \cap (1 .. NumEntry) = {}
  /\ AllocFails \in BOOLEAN /\ Hasty \in BOOLEAN

VARIABLES
  mac,      \* the client of each entry of config_.entries
  state,    \* each client's state
  addr,     \* the address it asks for, is bound to or remembers
  toServer, \* its messages to the server
  toClient  \* the server's messages to it

vars == <<mac, state, addr, toServer, toClient>>

Entries == 1 .. NumEntry
Addresses == Entries \cup Foreign

\* dp_xid as the client sees it: whether it is that of its present exchange.
Message(type, a, current) == [type |-> type, addr |-> a, current |-> current]

TypeOK ==
  /\ mac \in [Entries -> Clients \cup {NULL}]
  /\ state \in [Clients -> {"init", "selecting", "requesting", "bound"}]
  /\ addr \in [Clients -> Addresses \cup {NULL}]
  /\ toServer \in [Clients -> Seq([type : {"DISCOVER", "REQUEST", "INFORM"},
                                   addr : Addresses \cup {NULL},
                                   current : BOOLEAN])]
  /\ toClient \in [Clients -> Seq([type : {"OFFER", "ACK"}, addr : Entries,
                                   current : BOOLEAN])]
  /\ \A c \in Clients : Len(toServer[c]) <= MaxQueue /\ Len(toClient[c]) <= MaxQueue

Init ==
  /\ mac = [i \in Entries |-> NULL]
  /\ state = [c \in Clients |-> "init"]
  /\ addr = [c \in Clients |-> NULL]
  /\ toServer = [c \in Clients |-> << >>]
  /\ toClient = [c \in Clients |-> << >>]

-----------------------------------------------------------------------------
(* The server.                                                             *)

\* The search loops of the table stop at the first entry that matches.
FirstOf(S) ==
  IF S = {} THEN NULL ELSE CHOOSE i \in S : \A j \in S : i <= j

\* Mutant: the search stops one entry early.
entry_by_mac_short(c) == FirstOf({i \in 1 .. NumEntry - 1 : mac[i] = c})

entry_by_mac(c) == FirstOf({i \in Entries : mac[i] = c})

\* Mutant: the search for a vacant entry does not look at them.
vacant_first == 1

vacant_address == FirstOf({i \in Entries : mac[i] = NULL})

\* The table after free_entry() of the entry that is registered for c.
Freed(c) ==
  [i \in Entries |-> IF i = entry_by_mac(c) THEN NULL ELSE mac[i]]

\* Handle the oldest message of c, of the given type.
Recv(c, type) ==
  /\ toServer[c] # << >> /\ Head(toServer[c]).type = type
  /\ toServer' = [toServer EXCEPT ![c] = Tail(@)]

\* Answer that message: the reply is written over it and keeps its dp_xid.
Reply(c, type, i) ==
  /\ Len(toClient[c]) < MaxQueue
  /\ toClient' = [toClient EXCEPT
       ![c] = Append(@, Message(type, i, Head(toServer[c]).current))]

\* DHCPDISCOVER: offer the entry of the client, or the first vacant one.  The
\* offer reserves nothing.
Discover(c) ==
  LET entry == IF entry_by_mac(c) # NULL THEN entry_by_mac(c) ELSE vacant_address
  IN  /\ Recv(c, "DISCOVER")
      /\ \/ /\ entry # NULL
            /\ Reply(c, "OFFER", entry)
         \/ /\ entry = NULL \/ AllocFails
            /\ UNCHANGED toClient
      /\ UNCHANGED <<mac, state, addr>>

\* Mutant: the entry that is asked for is not looked at.
IsInPool(c, a) == a \in Entries

\* The pool has address a, and its entry is vacant after that.
IsVacant(c, a) == a \in Entries /\ Freed(c)[a] = NULL

\* Steps 2 to 6 of DHCPREQUEST and DHCPINFORM: the client's entry is freed,
\* and the one it asks for becomes its own if that is vacant then and there is
\* memory for the acknowledgement.  Otherwise there is no answer.
Register(c, a) ==
  \/ /\ IsVacant(c, a)
     /\ mac' = [Freed(c) EXCEPT ![a] = c]
     /\ Reply(c, "ACK", a)
  \/ /\ ~IsVacant(c, a) \/ AllocFails
     /\ mac' = Freed(c)
     /\ UNCHANGED toClient

Request(c) ==
  /\ Recv(c, "REQUEST")
  /\ Register(c, Head(toServer[c]).addr)
  /\ UNCHANGED <<state, addr>>

Inform(c) ==
  /\ Recv(c, "INFORM")
  /\ Register(c, Head(toServer[c]).addr)
  /\ UNCHANGED <<state, addr>>

-----------------------------------------------------------------------------
(* The clients and the network.                                            *)

Send(c, type, a) ==
  /\ Len(toServer[c]) < MaxQueue
  /\ toServer' = [toServer EXCEPT ![c] = Append(@, Message(type, a, TRUE))]

\* The messages in flight when the client chooses another dp_xid.
Old(messages) ==
  [i \in DOMAIN messages |-> [messages[i] EXCEPT !.current = FALSE]]

\* Send the first message of an exchange.
Start(c, type, a) ==
  /\ Len(toServer[c]) < MaxQueue
  /\ toServer' = [toServer EXCEPT ![c] = Append(Old(@), Message(type, a, TRUE))]
  /\ toClient' = [toClient EXCEPT ![c] = Old(@)]

\* A client waits for its answer; unless it is hasty, until the messages to it
\* and from it have arrived or are lost.
MayTimeOut(c) == Hasty \/ (toServer[c] = << >> /\ toClient[c] = << >>)

\* Look for a server.
SendDiscover(c) ==
  /\ state[c] = "init"
  /\ Start(c, "DISCOVER", NULL)
  /\ state' = [state EXCEPT ![c] = "selecting"]
  /\ addr' = [addr EXCEPT ![c] = NULL]
  /\ UNCHANGED mac

\* Ask for the remembered address after a restart.
Reboot(c) ==
  /\ state[c] = "init" /\ addr[c] # NULL
  /\ Start(c, "REQUEST", addr[c])
  /\ state' = [state EXCEPT ![c] = "requesting"]
  /\ UNCHANGED <<mac, addr>>

\* Repeat a message that was not answered yet.
Resend(c) ==
  /\ MayTimeOut(c)
  /\ \/ state[c] = "selecting" /\ Send(c, "DISCOVER", NULL)
     \/ state[c] = "requesting" /\ Send(c, "REQUEST", addr[c])
  /\ UNCHANGED <<mac, state, addr, toClient>>

SendInform(c) ==
  /\ state[c] = "bound"
  /\ Send(c, "INFORM", addr[c])
  /\ UNCHANGED <<mac, state, addr, toClient>>

Take(c) ==
  /\ toClient[c] # << >>
  /\ toClient' = [toClient EXCEPT ![c] = Tail(@)]

\* The client waits for message m.
IsAwaited(c, m) ==
  /\ m.current
  /\ \/ m.type = "OFFER" /\ state[c] = "selecting"
     \/ m.type = "ACK" /\ state[c] = "requesting" /\ m.addr = addr[c]

AcceptOffer(c) ==
  LET m == Head(toClient[c])
  IN  /\ Take(c)
      /\ IsAwaited(c, m) /\ m.type = "OFFER"
      /\ Send(c, "REQUEST", m.addr)
      /\ state' = [state EXCEPT ![c] = "requesting"]
      /\ addr' = [addr EXCEPT ![c] = m.addr]
      /\ UNCHANGED mac

AcceptAck(c) ==
  LET m == Head(toClient[c])
  IN  /\ Take(c)
      /\ IsAwaited(c, m) /\ m.type = "ACK"
      /\ state' = [state EXCEPT ![c] = "bound"]
      /\ UNCHANGED <<mac, addr, toServer>>

Ignore(c) ==
  /\ Take(c)
  /\ ~IsAwaited(c, Head(toClient[c]))
  /\ UNCHANGED <<mac, state, addr, toServer>>

\* Give up a request and start from the beginning.
Timeout(c) ==
  /\ state[c] \in {"selecting", "requesting"}
  /\ MayTimeOut(c)
  /\ state' = [state EXCEPT ![c] = "init"]
  /\ addr' = [addr EXCEPT ![c] = NULL]
  /\ UNCHANGED <<mac, toServer, toClient>>

\* Leave without a word (the server takes no notice of a DHCPRELEASE).
Leave(c) ==
  /\ state[c] = "bound"
  /\ state' = [state EXCEPT ![c] = "init"]
  /\ UNCHANGED <<mac, addr, toServer, toClient>>

\* Get an address in another network and come back.
Roam(c) ==
  /\ state[c] = "init"
  /\ \E a \in Foreign : addr' = [addr EXCEPT ![c] = a]
  /\ UNCHANGED <<mac, state, toServer, toClient>>

Lose(c) ==
  /\ \/ /\ toServer[c] # << >>
        /\ toServer' = [toServer EXCEPT ![c] = Tail(@)]
        /\ UNCHANGED toClient
     \/ /\ toClient[c] # << >>
        /\ toClient' = [toClient EXCEPT ![c] = Tail(@)]
        /\ UNCHANGED toServer
  /\ UNCHANGED <<mac, state, addr>>

-----------------------------------------------------------------------------

Next ==
  \E c \in Clients :
    \/ Discover(c) \/ Request(c) \/ Inform(c)
    \/ SendDiscover(c) \/ Reboot(c) \/ Resend(c) \/ SendInform(c)
    \/ AcceptOffer(c) \/ AcceptAck(c) \/ Ignore(c)
    \/ Timeout(c) \/ Leave(c) \/ Roam(c) \/ Lose(c)

Spec == Init /\ [][Next]_vars

\* The network does not lose every message of a kind, lwIP calls the server for
\* those it delivers, and a client neither stops asking nor waiting.
Fairness ==
  \A c \in Clients :
    /\ SF_vars(Discover(c)) /\ SF_vars(Request(c)) /\ WF_vars(Inform(c))
    /\ WF_vars(SendDiscover(c)) /\ SF_vars(Timeout(c))
    /\ SF_vars(AcceptOffer(c)) /\ SF_vars(AcceptAck(c)) /\ WF_vars(Ignore(c))

-----------------------------------------------------------------------------
(* Properties.                                                             *)

\* A client has at most one entry of the pool, whatever it asked for before.
OneEntryPerClient ==
  \A i, j \in Entries : mac[i] = mac[j] /\ mac[i] # NULL => i = j

\* The address a client uses is registered for it: neither a late message of
\* its own nor a message of another client takes it away.
BoundIsRegistered ==
  \A c \in Clients : state[c] = "bound" => mac[addr[c]] = c

\* No two clients use one address: a lease is for 24 hours ("lease time").
NoDuplicateAddress ==
  \A c, d \in Clients :
    state[c] = "bound" /\ state[d] = "bound" /\ addr[c] = addr[d] => c = d

\* With an address for every client, every client that starts gets one,
\* although offers reserve nothing and a refused request is not answered.
EventuallyBound ==
  \A c \in Clients : state[c] = "init" ~> state[c] = "bound"

=============================================================================
