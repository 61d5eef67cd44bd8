------------------------------- MODULE Binder -------------------------------
(***************************************************************************)
(* The sockets of a node (osdep/Binder.hpp).  refresh() on the main thread *)
(* makes the table of bindings follow the addresses of the machine, under  *)
(* a lock; any other thread that sends a packet                            *)
(* (nodeWirePacketSendFunction() in service/OneService.cpp) looks in the   *)
(* table without the lock whether the socket of its path is still there.   *)
(* A socket here is the pair of a UDP and a TCP socket, and a new one is   *)
(* told apart from every earlier one.                                      *)
(***************************************************************************)
EXTENDS Naturals

CONSTANTS
    LocalAddrs,   \* local addresses with a port
    Wildcard,     \* the wildcard addresses, bound if there is none
    MaxBindings,  \* ZT_BINDER_MAX_BINDINGS
    MaxSockets    \* bound: sockets ever opened

ASSUME BinderAssumption == MaxBindings \in Nat /\ MaxSockets \in Nat

NoSock == 0
Sockets == 1..MaxSockets
Indexes == 0..(MaxBindings - 1)
AtRest == [pc |-> "idle"]

VARIABLES
    bindings,  \* _bindings
    count,     \* _bindingCount
    open,      \* sockets that are open
    opened,    \* sockets ever opened
    refresh,   \* the main thread in refresh()
    sender,    \* a sending thread
    once,      \* history: the sender's socket has been open since its call began
    leaked     \* history: opened when the table was full

table == <<bindings, count>>
binderVars == <<table, open, opened, refresh, sender, once, leaked>>

BinderInit ==
    /\ bindings = [b \in Indexes |-> [addr |-> Wildcard, sock |-> NoSock]]
    /\ count = 0
    /\ open = {} /\ opened = 0
    /\ refresh = AtRest /\ sender = AtRest
    /\ once = FALSE /\ leaked = {}

Noted == once' = (once \/ (sender # AtRest /\ sender.sock \in open'))

(***************************************************************************)
(* refresh(): each step is what a thread without the lock can tell apart.  *)
(***************************************************************************)

(* The addresses that the system lists and shouldBindInterface() allows,   *)
(* or the wildcard if there is none.                                       *)
Refresh(listed) ==
    /\ refresh = AtRest
    /\ refresh' = [pc |-> "keep", b |-> 0, old |-> count,
                   addrs |-> IF listed = {} THEN {Wildcard} ELSE listed]
    /\ count' = 0
    /\ UNCHANGED <<bindings, open, opened, sender, leaked>> /\ Noted

(* A binding that is still valid moves to the front ...                    *)
Keep ==
    /\ refresh.pc = "keep" /\ refresh.b < refresh.old
    /\ bindings[refresh.b].addr \in refresh.addrs
    /\ bindings' = [bindings EXCEPT ![count] = bindings[refresh.b]]
    /\ refresh' = [refresh EXCEPT !.pc = "kept"]
    /\ UNCHANGED <<count, open, opened, sender, leaked>> /\ Noted

Kept ==
    /\ refresh.pc = "kept"
    /\ count' = count + 1
    /\ refresh' = [refresh EXCEPT !.pc = "keep", !.b = @ + 1]
    /\ UNCHANGED <<bindings, open, opened, sender, leaked>> /\ Noted

(* ... one that is not leaves its place, and is closed.                    *)
Drop ==
    /\ refresh.pc = "keep" /\ refresh.b < refresh.old
    /\ bindings[refresh.b].addr \notin refresh.addrs
    /\ refresh' = [pc |-> "close", b |-> refresh.b, old |-> refresh.old, addrs |-> refresh.addrs,
                   sock |-> bindings[refresh.b].sock]
    /\ bindings' = [bindings EXCEPT ![refresh.b].sock = NoSock]
    /\ UNCHANGED <<count, open, opened, sender, leaked>> /\ Noted

Close ==
    /\ refresh.pc = "close"
    /\ open' = open \ {refresh.sock}
    /\ refresh' = [pc |-> "keep", b |-> refresh.b + 1, old |-> refresh.old, addrs |-> refresh.addrs]
    /\ UNCHANGED <<table, opened, sender, leaked>> /\ Noted

Bound == {bindings[b].addr : b \in 0..(count - 1)}

KeptAll ==
    /\ refresh.pc = "keep" /\ refresh.b = refresh.old
    /\ refresh' = [pc |-> "bind", todo |-> refresh.addrs \ Bound]
    /\ UNCHANGED <<table, open, opened, sender, leaked>> /\ Noted

(* An address that is not bound gets a socket,                             *)
Bind(a) ==
    /\ refresh.pc = "bind" /\ a \in refresh.todo
    /\ opened < MaxSockets /\ opened' = opened + 1
    /\ open' = open \cup {opened'}
    /\ IF count < MaxBindings
         THEN /\ refresh' = [pc |-> "bound", todo |-> refresh.todo \ {a}, addr |-> a]
              /\ UNCHANGED leaked
         ELSE /\ refresh' = [refresh EXCEPT !.todo = @ \ {a}]
              /\ leaked' = leaked \cup {opened'}
    /\ UNCHANGED <<table, sender>> /\ Noted

BugEnter ==
    \/ /\ refresh.pc = "bound" /\ refresh' = [refresh EXCEPT !.pc = "entered"]
       /\ count' = count + 1
       /\ UNCHANGED <<bindings, open, opened, sender, leaked>> /\ Noted
    \/ /\ refresh.pc = "entered" /\ refresh' = [pc |-> "bind", todo |-> refresh.todo]
       /\ bindings' = [bindings EXCEPT ![count - 1] = [addr |-> refresh.addr, sock |-> opened]]
       /\ UNCHANGED <<count, open, opened, sender, leaked>> /\ Noted

(* and a place in the table, which is filled before it is counted.         *)
Enter ==
    \/ /\ refresh.pc = "bound" /\ refresh' = [refresh EXCEPT !.pc = "entered"]
       /\ bindings' = [bindings EXCEPT ![count] = [addr |-> refresh.addr, sock |-> opened]]
       /\ UNCHANGED <<count, open, opened, sender, leaked>> /\ Noted
    \/ /\ refresh.pc = "entered" /\ refresh' = [pc |-> "bind", todo |-> refresh.todo]
       /\ count' = count + 1
       /\ UNCHANGED <<bindings, open, opened, sender, leaked>> /\ Noted

(* udpBind() or tcpListen() fails.                                         *)
BindFails(a) ==
    /\ refresh.pc = "bind" /\ a \in refresh.todo
    /\ refresh' = [refresh EXCEPT !.todo = @ \ {a}]
    /\ UNCHANGED <<table, open, opened, sender, leaked>> /\ Noted

Refreshed ==
    /\ refresh.pc = "bind" /\ refresh.todo = {}
    /\ refresh' = AtRest
    /\ UNCHANGED <<table, open, opened, sender, leaked>> /\ Noted

(* closeAll(), when the service ends and nobody sends any more.            *)
CloseAll ==
    /\ refresh = AtRest /\ sender = AtRest
    /\ open' = open \ {bindings[b].sock : b \in 0..(count - 1)}
    /\ count' = 0
    /\ refresh' = [pc |-> "closed"]
    /\ UNCHANGED <<bindings, opened, sender, leaked>> /\ Noted

(***************************************************************************)
(* nodeWirePacketSendFunction() with the socket of a path.                 *)
(***************************************************************************)

(* isUdpSocketValid() reads the number of bindings,                        *)
Send(s) ==
    /\ refresh.pc # "closed"
    /\ sender = AtRest /\ s <= opened
    /\ sender' = [pc |-> "scan", sock |-> s, c |-> count, b |-> 0]
    /\ once' = (s \in open)
    /\ UNCHANGED <<table, open, opened, refresh, leaked>>

(* looks at them one by one,                                               *)
Scan ==
    /\ sender.pc = "scan"
    /\ sender' =
         IF sender.b = sender.c THEN [sender EXCEPT !.pc = "sendAll"]
         ELSE IF bindings[sender.b].sock = sender.sock THEN [sender EXCEPT !.pc = "check"]
         ELSE [sender EXCEPT !.b = @ + 1]
    /\ UNCHANGED <<table, open, opened, refresh, once, leaked>>

(* and at the number again.                                                *)
DoubleCheck ==
    /\ sender.pc = "check"
    /\ sender' = [sender EXCEPT !.pc = IF sender.b < count THEN "use" ELSE "sendAll"]
    /\ UNCHANGED <<table, open, opened, refresh, once, leaked>>

(* The packet goes out of this socket, or of all of them (udpSendAll(),    *)
(* under the lock).                                                        *)
UdpSend ==
    /\ sender.pc = "use" \/ (sender.pc = "sendAll" /\ refresh = AtRest)
    /\ sender' = AtRest
    /\ once' = FALSE
    /\ UNCHANGED <<table, open, opened, refresh, leaked>>

BinderNext ==
    \/ \E listed \in SUBSET LocalAddrs : Refresh(listed)
    \/ Keep \/ Kept \/ Drop \/ Close \/ KeptAll
    \/ \E a \in LocalAddrs \cup {Wildcard} : Bind(a) \/ BindFails(a)
    \/ Enter \/ Refreshed \/ CloseAll
    \/ \E s \in Sockets : Send(s)
    \/ Scan \/ DoubleCheck \/ UdpSend
    \/ refresh.pc = "closed" /\ UNCHANGED binderVars

BinderSpec == BinderInit /\ [][BinderNext]_binderVars
-----------------------------------------------------------------------------
(* isUdpSocketValid(), which takes no lock, says so only of a socket that  *)
(* was open during the call: no sequence of refreshes leaves a closed one  *)
(* where a later call finds it.  (It may have been closed since.)          *)
UsedWasOpen == sender.pc = "use" => once

(* Between refreshes, what udpSendAll() uses is open, one socket for each  *)
(* address, and nothing else is, but for what was bound when the table was *)
(* full: refresh() loses such a socket and does not close it.              *)
TableExact ==
    refresh = AtRest =>
        /\ open = {bindings[b].sock : b \in 0..(count - 1)} \cup leaked
        /\ \A b, c \in 0..(count - 1) :
              b # c => /\ bindings[b].sock # bindings[c].sock
                       /\ bindings[b].addr # bindings[c].addr

SocketsSound == UsedWasOpen /\ TableExact
=============================================================================
