--------------------------- MODULE ServiceProofs ---------------------------
(***************************************************************************)
(* Two parts of the service around the node, for every value of their      *)
(* constants.                                                              *)
(*                                                                         *)
(* Binder: SocketsSound for any addresses, any size of the table and any   *)
(* number of sockets.  The invariant says which entries of the table count *)
(* at each step of refresh(), that their sockets are open and all          *)
(* different, and what a scan without the lock may find.                   *)
(*                                                                         *)
(* Allocation: FileFollows and ClashNeedsHaste for any number of members,  *)
(* workers, pools, API calls and failures.  For the first, the invariant   *)
(* says what a thread between the two changes of a save has left in the    *)
(* file, and that it is the only one there unless the saves are torn; for  *)
(* the second, where the copies of a record are that may still be saved.   *)
(***************************************************************************)
EXTENDS Allocation, Binder, WellFoundedInduction, TLAPS

Places == LocalAddrs \cup {Wildcard}

(* What refresh() may be doing when n bindings are counted.                *)
RefreshOK(r, n) ==
    \/ r = AtRest \/ r \in [pc : {"closed"}]
    \/ /\ r \in [pc : {"keep", "kept"}, b : Nat, old : 0..MaxBindings, addrs : SUBSET Places]
       /\ n <= r.b /\ r.b <= r.old
       /\ r.pc = "kept" => r.b < r.old
    \/ /\ r \in [pc : {"close"}, b : Nat, old : 0..MaxBindings, addrs : SUBSET Places, sock : Nat]
       /\ n <= r.b /\ r.b < r.old
    \/ r \in [pc : {"bind"}, todo : SUBSET Places]
    \/ /\ r \in [pc : {"bound", "entered"}, todo : SUBSET Places, addr : Places]
       /\ n < MaxBindings /\ r.addr \notin r.todo

(* The entries that hold a socket then: those counted, those that          *)
(* refresh() has yet to look at, and the one it has filled but not counted.*)
Live(r, n) ==
    {i \in Indexes :
        \/ i < n
        \/ r.pc = "keep" /\ r.b <= i /\ i < r.old
        \/ r.pc \in {"kept", "close"} /\ r.b < i /\ i < r.old
        \/ r.pc \in {"kept", "entered"} /\ i = n}

(* The socket that is open but not in the table, on its way out or in; o   *)
(* is the last one opened.                                                 *)
Passing(r, o) ==
    IF r.pc = "close" THEN {r.sock} ELSE IF r.pc = "bound" THEN {o} ELSE {}

(* The addresses that are to get a socket.                                 *)
Pending(r) ==
    IF r.pc \in {"bind", "entered"} THEN r.todo
    ELSE IF r.pc = "bound" THEN r.todo \cup {r.addr} ELSE {}

(* The entries "live" of the table bs hold sockets that are open and not   *)
(* those of "apart", all different, for addresses that are all different   *)
(* and not "pending"; "os" are the sockets that are open, of o ever opened.*)
TableSound(bs, live, apart, pending, os, o) ==
    /\ apart \subseteq 1..o
    /\ \A i \in live :
         bs[i].sock \in 1..o /\ bs[i].sock \notin apart /\ bs[i].addr \notin pending
    /\ \A i, j \in live : i # j => bs[i].sock # bs[j].sock /\ bs[i].addr # bs[j].addr
    /\ os \subseteq 1..o
    /\ \A s \in 1..o : s \in os <=> s \in apart \/ \E i \in live : bs[i].sock = s

TableOK ==
    /\ leaked \cap Passing(refresh, opened) = {}
    /\ TableSound(bindings, Live(refresh, count), leaked \cup Passing(refresh, opened),
                  Pending(refresh), open, opened)

(* An entry that the scan can come to and that has its socket is one of    *)
(* when the call began, or was filled since: the socket has been open.     *)
SenderOK ==
    \/ sender = AtRest
    \/ /\ sender \in [pc : {"scan", "check", "use", "sendAll"}, sock : Nat \ {0},
                       c : 0..MaxBindings, b : Nat]
       /\ sender.b <= sender.c
       /\ sender.pc = "scan" =>
             \A i \in Indexes : i < sender.c /\ bindings[i].sock = sender.sock => once
       /\ sender.pc \in {"check", "use"} => once

BinderInv ==
    /\ bindings \in [Indexes -> [addr : Places, sock : Nat]]
    /\ count \in 0..MaxBindings
    /\ opened \in Nat
    /\ once \in BOOLEAN
    /\ RefreshOK(refresh, count)
    /\ refresh.pc # "closed" => TableOK
    /\ SenderOK

Entries == [addr : Places, sock : Nat]

-----------------------------------------------------------------------------
(* The sender while refresh() writes: only what is open, or nothing.       *)
LEMMA NotedKeeps ==
    ASSUME SenderOK, once \in BOOLEAN, Noted, sender' = sender,
           \A i \in Indexes : bindings'[i].sock \in {bindings[i].sock, NoSock} \cup open'
    PROVE  SenderOK' /\ once' \in BOOLEAN
  <1>1. once' \in BOOLEAN
    BY Zenon DEF Noted
  <1>2. once => once'
    BY Zenon DEF Noted
  <1>3. CASE sender = AtRest
    BY <1>1, <1>3 DEF SenderOK
  <1>4. CASE sender # AtRest
    <2>1. sender.sock \in open' => once'
      BY Zenon, <1>4 DEF Noted
    <2>2. ASSUME NEW i \in Indexes, sender.pc = "scan", i < sender.c,
                 bindings'[i].sock = sender.sock
          PROVE  once'
      <3>1. CASE bindings'[i].sock = bindings[i].sock
        BY <1>2, <1>4, <2>2, <3>1 DEF SenderOK
      <3>2. CASE bindings'[i].sock = NoSock
        <4>1. sender.sock \in Nat \ {0}
          BY <1>4 DEF SenderOK
        <4> QED
          BY <2>2, <3>2, <4>1 DEF NoSock
      <3>3. CASE bindings'[i].sock \in open'
        BY <2>1, <2>2, <3>3
      <3> QED
        BY <3>1, <3>2, <3>3
    <2> QED
      BY <1>1, <1>2, <1>4, <2>2 DEF SenderOK
  <1> QED
    BY <1>3, <1>4

-----------------------------------------------------------------------------
(* The records of refresh().                                               *)
Keeping(p, b, old, as) == [pc |-> p, b |-> b, old |-> old, addrs |-> as]
Closing(b, old, as, s) == [pc |-> "close", b |-> b, old |-> old, addrs |-> as, sock |-> s]
Binding(due) == [pc |-> "bind", todo |-> due]
Entering(p, due, a) == [pc |-> p, todo |-> due, addr |-> a]

(* The table is indexed from 0.                                            *)
LEMMA IndexesNat == Indexes \subseteq Nat /\ \A i \in Nat : i \in Indexes <=> i < MaxBindings
  BY BinderAssumption DEF Indexes

(* The loop over the old entries, as it is between two of them.            *)
LEMMA KeepingOK ==
    ASSUME NEW p \in {"keep", "kept"}, NEW b \in Nat, NEW old \in 0..MaxBindings,
           NEW as \in SUBSET Places, NEW n \in Nat,
           n <= b, b <= old, p = "kept" => b < old
    PROVE  RefreshOK(Keeping(p, b, old, as), n)
  <1> DEFINE r == Keeping(p, b, old, as)
  <1>1. r \in [pc : {"keep", "kept"}, b : Nat, old : 0..MaxBindings, addrs : SUBSET Places]
    BY Zenon DEF Keeping
  <1>2. r.b = b /\ r.old = old /\ r.pc = p
    BY Zenon DEF Keeping
  <1> QED
    BY Zenon, <1>1, <1>2 DEF RefreshOK

(* A refresh() in that loop has such a record.                             *)
LEMMA KeepingIs ==
    ASSUME NEW r, NEW n, RefreshOK(r, n), r.pc \in {"keep", "kept"}
    PROVE  \E b \in Nat, old \in 0..MaxBindings, as \in SUBSET Places :
             /\ r = Keeping(r.pc, b, old, as)
             /\ n <= b /\ b <= old /\ (r.pc = "kept" => b < old)
  <1>1. /\ r \in [pc : {"keep", "kept"}, b : Nat, old : 0..MaxBindings, addrs : SUBSET Places]
        /\ n <= r.b /\ r.b <= r.old
        /\ r.pc = "kept" => r.b < r.old
    BY DEF RefreshOK, AtRest
  <1>2. r = Keeping(r.pc, r.b, r.old, r.addrs)
    BY <1>1 DEF Keeping
  <1>3. r.b \in Nat /\ r.old \in 0..MaxBindings /\ r.addrs \in SUBSET Places
    BY <1>1
  <1> QED
    BY Zenon, <1>1, <1>2, <1>3

(* What counts before an old entry is looked at,                           *)
LEMMA KeepLive ==
    ASSUME NEW r, r.pc = "keep"
    PROVE  /\ Pending(r) = {} /\ \A o : Passing(r, o) = {}
           /\ \A n : \A i \in Indexes : i \in Live(r, n) <=> i < n \/ (r.b <= i /\ i < r.old)
  <1>1. r.pc \notin {"kept", "close"} /\ r.pc \notin {"kept", "entered"} /\ r.pc \notin {"bind", "entered"}
        /\ r.pc # "close" /\ r.pc # "bound"
    OBVIOUS
  <1>2. Pending(r) = {} /\ \A o : Passing(r, o) = {}
    BY Zenon, <1>1 DEF Passing, Pending
  <1>3. \A n : \A i \in Indexes : i \in Live(r, n) <=> i < n \/ (r.b <= i /\ i < r.old)
    BY Zenon, <1>1 DEF Live
  <1> QED
    BY Zenon, <1>2, <1>3

(* when it has been copied to its new place but is not counted,            *)
LEMMA KeptLive ==
    ASSUME NEW r, r.pc = "kept"
    PROVE  /\ Pending(r) = {} /\ \A o : Passing(r, o) = {}
           /\ \A n : \A i \in Indexes : i \in Live(r, n) <=> i < n \/ i = n \/ (r.b < i /\ i < r.old)
  <1>1. r.pc # "keep" /\ r.pc \in {"kept", "close"} /\ r.pc \in {"kept", "entered"}
        /\ r.pc # "close" /\ r.pc # "bound" /\ r.pc \notin {"bind", "entered"}
    OBVIOUS
  <1>2. Pending(r) = {} /\ \A o : Passing(r, o) = {}
    BY Zenon, <1>1 DEF Passing, Pending
  <1>3. \A n : \A i \in Indexes : i \in Live(r, n) <=> i < n \/ i = n \/ (r.b < i /\ i < r.old)
    BY Zenon, <1>1 DEF Live
  <1> QED
    BY Zenon, <1>2, <1>3

(* and when it has been dropped and its socket is to be closed.            *)
LEMMA CloseLive ==
    ASSUME NEW r, r.pc = "close"
    PROVE  /\ Pending(r) = {} /\ \A o : Passing(r, o) = {r.sock}
           /\ \A n : \A i \in Indexes : i \in Live(r, n) <=> i < n \/ (r.b < i /\ i < r.old)
  <1>1. r.pc # "keep" /\ r.pc \in {"kept", "close"} /\ r.pc \notin {"kept", "entered"}
        /\ r.pc # "bound" /\ r.pc \notin {"bind", "entered"}
    OBVIOUS
  <1>2. Pending(r) = {} /\ \A o : Passing(r, o) = {r.sock}
    BY Zenon, <1>1 DEF Passing, Pending
  <1>3. \A n : \A i \in Indexes : i \in Live(r, n) <=> i < n \/ (r.b < i /\ i < r.old)
    BY Zenon, <1>1 DEF Live
  <1> QED
    BY Zenon, <1>2, <1>3

(* The loop, at the socket of an entry that was dropped.                   *)
LEMMA ClosingOK ==
    ASSUME NEW b \in Nat, NEW old \in 0..MaxBindings, NEW as \in SUBSET Places, NEW s \in Nat,
           NEW n, n <= b, b < old
    PROVE  RefreshOK(Closing(b, old, as, s), n)
  <1> DEFINE r == Closing(b, old, as, s)
  <1>1. r.b = b /\ r.old = old
        /\ r \in [pc : {"close"}, b : Nat, old : 0..MaxBindings, addrs : SUBSET Places, sock : Nat]
    BY Zenon DEF Closing
  <1> QED
    BY Zenon, <1>1 DEF RefreshOK

(* A refresh() that is to close a socket has such a record.                *)
LEMMA ClosingIs ==
    ASSUME NEW r, NEW n, RefreshOK(r, n), r.pc = "close"
    PROVE  \E b \in Nat, old \in 0..MaxBindings, as \in SUBSET Places, s \in Nat :
             r = Closing(b, old, as, s) /\ n <= b /\ b < old
  <1>1. /\ r \in [pc : {"close"}, b : Nat, old : 0..MaxBindings, addrs : SUBSET Places, sock : Nat]
        /\ n <= r.b /\ r.b < r.old
    BY DEF RefreshOK, AtRest
  <1>2. r = Closing(r.b, r.old, r.addrs, r.sock)
    BY <1>1 DEF Closing
  <1>3. r.b \in Nat /\ r.old \in 0..MaxBindings /\ r.addrs \in SUBSET Places /\ r.sock \in Nat
    BY <1>1
  <1> QED
    BY Zenon, <1>1, <1>2, <1>3

(* The loop over the addresses that are new, between two of them.          *)
LEMMA BindingFacts ==
    ASSUME NEW due \in SUBSET Places, NEW n \in Nat, NEW r, r = Binding(due)
    PROVE  /\ RefreshOK(r, n) /\ r.pc = "bind" /\ r.todo = due
           /\ Pending(r) = due /\ \A o : Passing(r, o) = {}
           /\ \A i \in Indexes : i \in Live(r, n) <=> i < n
  <1>1. r.pc = "bind" /\ r.todo = due /\ r \in [pc : {"bind"}, todo : SUBSET Places]
    BY DEF Binding
  <1>2. Pending(r) = due /\ \A o : Passing(r, o) = {}
    BY <1>1 DEF Passing, Pending
  <1>3. RefreshOK(r, n)
    BY <1>1 DEF RefreshOK
  <1>4. \A i \in Indexes : i \in Live(r, n) <=> i < n
    BY <1>1 DEF Live
  <1> QED
    BY <1>1, <1>2, <1>3, <1>4

(* A refresh() in that loop has such a record.                             *)
LEMMA BindingIs ==
    ASSUME NEW r, NEW n, RefreshOK(r, n), r.pc = "bind"
    PROVE  r = Binding(r.todo) /\ r.todo \in SUBSET Places
  <1>1. r \in [pc : {"bind"}, todo : SUBSET Places]
    BY DEF RefreshOK, AtRest
  <1> QED
    BY <1>1 DEF Binding

(* A socket that is bound and not in the table counts for no entry;        *)
LEMMA BoundLive ==
    ASSUME NEW r, r.pc = "bound"
    PROVE  /\ Pending(r) = r.todo \cup {r.addr} /\ \A o : Passing(r, o) = {o}
           /\ \A n : \A i \in Indexes : i \in Live(r, n) <=> i < n
  <1>1. r.pc # "keep" /\ r.pc \notin {"kept", "close"} /\ r.pc \notin {"kept", "entered"}
        /\ r.pc # "close" /\ r.pc \notin {"bind", "entered"}
    OBVIOUS
  <1>2. Pending(r) = r.todo \cup {r.addr} /\ \A o : Passing(r, o) = {o}
    BY Zenon, <1>1 DEF Passing, Pending
  <1>3. \A n : \A i \in Indexes : i \in Live(r, n) <=> i < n
    BY Zenon, <1>1 DEF Live
  <1> QED
    BY Zenon, <1>2, <1>3

(* one that is in the table and not counted has the next entry.            *)
LEMMA EnteredLive ==
    ASSUME NEW r, r.pc = "entered"
    PROVE  /\ Pending(r) = r.todo /\ \A o : Passing(r, o) = {}
           /\ \A n : \A i \in Indexes : i \in Live(r, n) <=> i < n \/ i = n
  <1>1. r.pc # "keep" /\ r.pc \notin {"kept", "close"} /\ r.pc \in {"kept", "entered"}
        /\ r.pc # "close" /\ r.pc # "bound" /\ r.pc \in {"bind", "entered"}
    OBVIOUS
  <1>2. Pending(r) = r.todo /\ \A o : Passing(r, o) = {}
    BY Zenon, <1>1 DEF Passing, Pending
  <1>3. \A n : \A i \in Indexes : i \in Live(r, n) <=> i < n \/ i = n
    BY Zenon, <1>1 DEF Live
  <1> QED
    BY Zenon, <1>2, <1>3

(* The loop, at an address whose socket is bound.                          *)
LEMMA EnteringOK ==
    ASSUME NEW p \in {"bound", "entered"}, NEW due \in SUBSET Places, NEW a \in Places \ due,
           NEW n, n < MaxBindings
    PROVE  RefreshOK(Entering(p, due, a), n)
  <1> DEFINE r == Entering(p, due, a)
  <1>1. r.todo = due /\ r.addr = a
        /\ r \in [pc : {"bound", "entered"}, todo : SUBSET Places, addr : Places]
    BY Zenon DEF Entering
  <1> QED
    BY <1>1 DEF RefreshOK

(* A refresh() that has bound a socket has such a record.                  *)
LEMMA EnteringIs ==
    ASSUME NEW r, NEW n, RefreshOK(r, n), r.pc \in {"bound", "entered"}
    PROVE  /\ r = Entering(r.pc, r.todo, r.addr) /\ n < MaxBindings
           /\ r.todo \in SUBSET Places /\ r.addr \in Places \ r.todo
  <1>1. /\ r \in [pc : {"bound", "entered"}, todo : SUBSET Places, addr : Places]
        /\ n < MaxBindings /\ r.addr \notin r.todo
    BY DEF RefreshOK, AtRest
  <1> QED
    BY <1>1 DEF Entering

(* Between two calls of refresh() the counted entries count, no others.    *)
LEMMA RestFacts ==
    ASSUME NEW n \in Nat
    PROVE  /\ RefreshOK(AtRest, n) /\ AtRest.pc = "idle"
           /\ Pending(AtRest) = {} /\ \A o : Passing(AtRest, o) = {}
           /\ \A i \in Indexes : i \in Live(AtRest, n) <=> i < n
  <1>1. AtRest.pc = "idle"
    BY DEF AtRest
  <1>2. Pending(AtRest) = {} /\ \A o : Passing(AtRest, o) = {}
    BY <1>1 DEF Passing, Pending
  <1>3. RefreshOK(AtRest, n)
    BY DEF RefreshOK
  <1>4. \A i \in Indexes : i \in Live(AtRest, n) <=> i < n
    BY <1>1 DEF Live
  <1> QED
    BY <1>1, <1>2, <1>3, <1>4

(* Only entries of the table count.                                        *)
LEMMA LiveIn == \A r, n : Live(r, n) \subseteq Indexes
  BY DEF Live

(* It is enough to compare what counts index by index.                     *)
LEMMA SameLive ==
    ASSUME NEW r, NEW n, NEW q, NEW k,
           \A i \in Indexes : i \in Live(r, n) <=> i \in Live(q, k)
    PROVE  Live(r, n) = Live(q, k)
  BY LiveIn

-----------------------------------------------------------------------------
(* What the steps of refresh() do to the table.                            *)

(* Entries are moved, or nothing is.                                       *)
LEMMA Renumbered ==
    ASSUME NEW bs, NEW bs2, NEW L, NEW L2, NEW A, NEW P, NEW P2, NEW os, NEW o, NEW g,
           TableSound(bs, L, A, P, os, o),
           \A i \in L2 : g[i] \in L /\ bs2[i] = bs[g[i]] /\ bs2[i].addr \notin P2,
           \A i, j \in L2 : i # j => g[i] # g[j],
           \A i \in L : \E j \in L2 : g[j] = i
    PROVE  TableSound(bs2, L2, A, P2, os, o)
  <1>1. ASSUME NEW s \in 1..o
        PROVE  (\E i \in L : bs[i].sock = s) <=> (\E i \in L2 : bs2[i].sock = s)
    <2>1. ASSUME NEW i \in L, bs[i].sock = s PROVE \E j \in L2 : bs2[j].sock = s
      <3>1. PICK j \in L2 : g[j] = i
        BY Zenon
      <3>2. bs2[j].sock = s
        BY <2>1, <3>1
      <3> QED
        BY <3>2
    <2>2. ASSUME NEW j \in L2, bs2[j].sock = s PROVE \E i \in L : bs[i].sock = s
      <3>1. g[j] \in L /\ bs[g[j]].sock = s
        BY <2>2
      <3> QED
        BY <3>1
    <2> QED
      BY Zenon, <2>1, <2>2
  <1>2. \A s \in 1..o : s \in os <=> s \in A \/ \E i \in L2 : bs2[i].sock = s
    BY Zenon, <1>1 DEF TableSound
  <1>3. ASSUME NEW i \in L2, NEW j \in L2, i # j
        PROVE  bs2[i].sock # bs2[j].sock /\ bs2[i].addr # bs2[j].addr
    <2>1. g[i] \in L /\ g[j] \in L /\ g[i] # g[j] /\ bs2[i] = bs[g[i]] /\ bs2[j] = bs[g[j]]
      BY Zenon, <1>3
    <2>2. bs[g[i]].sock # bs[g[j]].sock /\ bs[g[i]].addr # bs[g[j]].addr
      BY Zenon, <2>1 DEF TableSound
    <2> QED
      BY Zenon, <2>1, <2>2
  <1>4. \A i \in L2 : bs2[i].sock \in 1..o /\ bs2[i].sock \notin A /\ bs2[i].addr \notin P2
    BY Zenon DEF TableSound
  <1> QED
    BY Zenon, <1>2, <1>3, <1>4 DEF TableSound

(* Addresses that are no longer to be bound may be forgotten.              *)
LEMMA SameTable ==
    ASSUME NEW bs, NEW L, NEW A, NEW P, NEW P2, NEW os, NEW o,
           TableSound(bs, L, A, P, os, o), \A i \in L : bs[i].addr \notin P2
    PROVE  TableSound(bs, L, A, P2, os, o)
  BY DEF TableSound

(* An entry is given up; its socket is on its way out.                     *)
LEMMA Dropped ==
    ASSUME NEW bs, NEW bs2, NEW L, NEW A, NEW P, NEW os, NEW o, NEW b \in L,
           TableSound(bs, L, A, P, os, o), \A i \in L \ {b} : bs2[i] = bs[i]
    PROVE  /\ TableSound(bs2, L \ {b}, A \cup {bs[b].sock}, {}, os, o)
           /\ bs[b].sock \notin A
  <1>1. bs[b].sock \in 1..o /\ bs[b].sock \notin A /\ A \subseteq 1..o
    BY Zenon DEF TableSound
  <1>2. ASSUME NEW i \in L \ {b}
        PROVE  /\ bs2[i].sock \in 1..o /\ bs2[i].sock \notin A \cup {bs[b].sock}
               /\ bs2[i].sock = bs[i].sock
    <2>1. i \in L /\ i # b /\ bs2[i] = bs[i]
      BY Zenon
    <2>2. bs[i].sock \in 1..o /\ bs[i].sock \notin A /\ bs[i].sock # bs[b].sock
      BY Zenon, <2>1 DEF TableSound
    <2> QED
      BY Zenon, <2>1, <2>2
  <1>3. ASSUME NEW i \in L \ {b}, NEW j \in L \ {b}, i # j
        PROVE  bs2[i].sock # bs2[j].sock /\ bs2[i].addr # bs2[j].addr
    BY ZenonT(30), <1>3 DEF TableSound
  <1>4. ASSUME NEW s \in 1..o
        PROVE  s \in os <=> s \in A \cup {bs[b].sock} \/ \E i \in L \ {b} : bs2[i].sock = s
    <2>1. s \in os <=> s \in A \/ \E i \in L : bs[i].sock = s
      BY Zenon DEF TableSound
    <2>2. (\E i \in L : bs[i].sock = s) <=> s = bs[b].sock \/ \E i \in L \ {b} : bs2[i].sock = s
      BY Zenon, <1>2
    <2> QED
      BY Zenon, <2>1, <2>2
  <1>5. A \cup {bs[b].sock} \subseteq 1..o /\ os \subseteq 1..o
    BY Zenon, <1>1 DEF TableSound
  <1> QED
    BY Zenon, <1>1, <1>2, <1>3, <1>4, <1>5 DEF TableSound

(* The socket on its way out is closed.                                    *)
LEMMA Closed ==
    ASSUME NEW bs, NEW L, NEW A, NEW P, NEW os, NEW o, NEW s, s \notin A,
           TableSound(bs, L, A \cup {s}, P, os, o)
    PROVE  TableSound(bs, L, A, P, os \ {s}, o)
  BY Zenon DEF TableSound

(* A new socket differs from those that were ever opened.                  *)
LEMMA Opened ==
    ASSUME NEW bs, NEW L, NEW A, NEW P, NEW P2 \in SUBSET P, NEW os, NEW o \in Nat,
           TableSound(bs, L, A, P, os, o)
    PROVE  TableSound(bs, L, A \cup {o + 1}, P2, os \cup {o + 1}, o + 1) /\ o + 1 \notin A
  BY DEF TableSound

(* The new socket gets an entry.                                           *)
LEMMA Entered ==
    ASSUME NEW bs, NEW bs2, NEW L, NEW A, NEW P, NEW P2 \in SUBSET P, NEW os, NEW o, NEW n, NEW a \in P \ P2,
           o \notin A, n \notin L, TableSound(bs, L, A \cup {o}, P, os, o),
           bs2[n].addr = a, bs2[n].sock = o, \A i \in L : bs2[i] = bs[i]
    PROVE  TableSound(bs2, L \cup {n}, A, P2, os, o)
  BY DEF TableSound

-----------------------------------------------------------------------------
(* refresh(), step by step                                                 *)
LEMMA CountNat == BinderInv => count \in Nat /\ count <= MaxBindings
  BY BinderAssumption DEF BinderInv

(* refresh() begins: all entries are to be looked at, none is counted.     *)
LEMMA RefreshKeeps ==
    ASSUME BinderInv, NEW listed \in SUBSET LocalAddrs, Refresh(listed)
    PROVE  BinderInv'
  <1>1. PICK as \in SUBSET Places : as = IF listed = {} THEN {Wildcard} ELSE listed
    BY Zenon DEF Places
  <1>2. refresh = AtRest /\ refresh' = Keeping("keep", 0, count, as) /\ count' = 0
        /\ UNCHANGED <<bindings, open, opened, sender, leaked>> /\ Noted
    BY Zenon, <1>1 DEF Refresh, Keeping
  <1>3. count \in 0..MaxBindings /\ count \in Nat /\ 0 \in Nat /\ 0 \in 0..MaxBindings
        /\ 0 <= 0 /\ 0 <= count
    BY BinderAssumption DEF BinderInv
  <1>4. RefreshOK(refresh', count')
    BY Zenon, <1>2, <1>3, KeepingOK
  <1>5. Passing(refresh', opened') = {} /\ Pending(refresh') = {} /\ refresh'.pc = "keep"
        /\ \A i \in Indexes : i \in Live(refresh', count') <=> i < 0 \/ (0 <= i /\ i < count)
    <2>1. count' \in Nat /\ refresh' = Keeping("keep", 0, count, as) /\ 0 \in Nat /\ count \in Nat
      BY <1>2, <1>3
    <2>2. Passing(refresh', opened') = {} /\ Pending(refresh') = {} /\ refresh'.pc = "keep"
          /\ \A i \in Indexes : i \in Live(refresh', count') <=> i < count' \/ (0 <= i /\ i < count)
      <3>1. refresh'.pc = "keep" /\ refresh'.b = 0 /\ refresh'.old = count
        BY Zenon, <1>2 DEF Keeping
      <3> QED
        BY Zenon, <3>1, KeepLive
    <2> QED
      BY Zenon, <1>2, <2>2
  <1>6. refresh.pc = "idle" /\ Passing(refresh, opened) = {}
        /\ \A i \in Indexes : i \in Live(refresh, count) <=> i < count
    BY Zenon, <1>2, <1>3, RestFacts
  <1>7. Live(refresh', count') = Live(refresh, count)
    <2>1. \A i \in Indexes : i \in Live(refresh', count') <=> i \in Live(refresh, count)
      BY <1>3, <1>5, <1>6, IndexesNat
    <2> QED
      BY <2>1, SameLive
  <1>8. TableOK'
    BY Zenon, <1>2, <1>5, <1>6, <1>7, SameTable DEF BinderInv, TableOK
  <1>9. SenderOK' /\ once' \in BOOLEAN
    BY Zenon, <1>2, NotedKeeps DEF BinderInv
  <1> QED
    BY Zenon, <1>2, <1>3, <1>4, <1>8, <1>9 DEF BinderInv

(* A step that neither fills nor empties an entry.                         *)
LEMMA Untouched ==
    ASSUME BinderInv, refresh.pc # "closed",
           UNCHANGED <<bindings, open, opened, sender, leaked>>, Noted,
           count' \in 0..MaxBindings, RefreshOK(refresh', count'),
           \A i \in Indexes : i \in Live(refresh', count') <=> i \in Live(refresh, count),
           Passing(refresh, opened) = {}, Passing(refresh', opened') = {},
           \A i \in Live(refresh, count) : bindings[i].addr \notin Pending(refresh')
    PROVE  BinderInv'
  <1>1. Live(refresh', count') = Live(refresh, count)
    BY SameLive
  <1>2. TableOK'
    BY Zenon, <1>1, SameTable DEF BinderInv, TableOK
  <1>3. SenderOK' /\ once' \in BOOLEAN
    BY Zenon, NotedKeeps DEF BinderInv
  <1> QED
    BY Zenon, <1>2, <1>3 DEF BinderInv

(* No entry that counts has an address still to be bound.                  *)
LEMMA NotPending ==
    ASSUME BinderInv, refresh.pc # "closed"
    PROVE  \A i \in Live(refresh, count) : bindings[i].addr \notin Pending(refresh)
  BY Zenon DEF BinderInv, TableOK, TableSound

(* The entry copied to its new place is counted.                           *)
LEMMA KeptKeeps ==
    ASSUME BinderInv, Kept
    PROVE  BinderInv'
  <1>1. refresh.pc = "kept"
    BY DEF Kept
  <1>2. PICK b \in Nat, old \in 0..MaxBindings, as \in SUBSET Places :
            refresh = Keeping("kept", b, old, as) /\ count <= b /\ b < old
    BY Zenon, <1>1, KeepingIs DEF BinderInv
  <1>3. UNCHANGED <<bindings, open, opened, sender, leaked>> /\ Noted
    BY DEF Kept
  <1>4. PICK c : c = b + 1
    OBVIOUS
  <1>n. PICK n : n = count'
    OBVIOUS
  <1>a. refresh' = Keeping("keep", c, old, as)
    BY Zenon, <1>2, <1>4 DEF Kept, Keeping
  <1>b. n = count + 1
    BY <1>n DEF Kept
  <1>c. count \in Nat /\ old \in Nat
    BY CountNat, BinderAssumption
  <1>d. n \in Nat /\ c \in Nat
    BY <1>4, <1>b, <1>c
  <1>e. count' \in 0..MaxBindings /\ n <= c /\ c <= old
    BY <1>2, <1>4, <1>n, <1>b, <1>c, BinderAssumption
  <1>5. RefreshOK(refresh', n)
    BY Zenon, <1>a, <1>d, <1>e, KeepingOK
  <1>6. Passing(refresh, opened) = {}
        /\ \A i \in Indexes : i \in Live(refresh, count) <=> i < count \/ i = count \/ (b < i /\ i < old)
    <2>1. refresh.pc = "kept" /\ refresh.b = b /\ refresh.old = old
      BY Zenon, <1>2 DEF Keeping
    <2> QED
      BY <2>1, KeptLive
  <1>7. Passing(refresh', opened') = {} /\ Pending(refresh') = {}
        /\ \A i \in Indexes : i \in Live(refresh', n) <=> i < n \/ (c <= i /\ i < old)
    <2>1. refresh'.pc = "keep" /\ refresh'.b = c /\ refresh'.old = old
      BY Zenon, <1>a DEF Keeping
    <2> QED
      BY <2>1, KeepLive
  <1>8. ASSUME NEW i \in Indexes
        PROVE  i \in Live(refresh', n) <=> i \in Live(refresh, count)
    <2>1. i \in Nat
      BY IndexesNat
    <2>2. i < n <=> i < count \/ i = count
      BY <1>b, <1>c, <1>d, <2>1
    <2>3. c <= i <=> b < i
      BY <1>4, <2>1
    <2> QED
      BY Zenon, <1>6, <1>7, <2>2, <2>3
  <1>9. \A i \in Live(refresh, count) : bindings[i].addr \notin Pending(refresh')
    BY <1>7
  <1> QED
    BY ZenonT(30), <1>1, <1>3, <1>e, <1>5, <1>6, <1>7, <1>8, <1>9, <1>n, Untouched

(* No old entry is left: what is listed and has no entry is to be bound.   *)
LEMMA KeptAllKeeps ==
    ASSUME BinderInv, KeptAll
    PROVE  BinderInv'
  <1>1. refresh.pc = "keep" /\ refresh.b = refresh.old
    BY DEF KeptAll
  <1>2. PICK b \in Nat, old \in 0..MaxBindings, as \in SUBSET Places :
            refresh = Keeping("keep", b, old, as) /\ count <= b /\ b <= old
    BY ZenonT(30), <1>1, KeepingIs DEF BinderInv
  <1>3. refresh.addrs = as /\ b = old
    BY <1>1, <1>2 DEF Keeping
  <1>4. refresh' = Binding(as \ Bound) /\ as \ Bound \in SUBSET Places
        /\ UNCHANGED <<bindings, count, open, opened, sender, leaked>> /\ Noted
    BY Zenon, <1>3 DEF KeptAll, Binding, table
  <1>a. count \in Nat /\ old \in Nat
    BY CountNat, BinderAssumption
  <1>5. count' \in Nat /\ count' \in 0..MaxBindings
    BY <1>4, <1>a DEF BinderInv
  <1>6. Passing(refresh, opened) = {}
        /\ \A i \in Indexes : i \in Live(refresh, count) <=> i < count \/ (b <= i /\ i < old)
    <2>1. refresh.pc = "keep" /\ refresh.b = b /\ refresh.old = old
      BY Zenon, <1>2 DEF Keeping
    <2> QED
      BY <2>1, KeepLive
  <1>7. Passing(refresh', opened') = {} /\ Pending(refresh') = as \ Bound
        /\ RefreshOK(refresh', count')
        /\ \A i \in Indexes : i \in Live(refresh', count') <=> i < count'
    BY Zenon, <1>4, <1>5, BindingFacts
  <1>8. ASSUME NEW i \in Indexes
        PROVE  (i \in Live(refresh', count') <=> i \in Live(refresh, count))
               /\ (i \in Live(refresh, count) => i \in 0..(count - 1))
    <2>1. i \in Nat
      BY IndexesNat
    <2>2. (b <= i /\ i < old) = FALSE /\ (i < count => i \in 0..(count - 1)) /\ count' = count
      BY <1>3, <1>4, <1>a, <2>1
    <2> QED
      BY Zenon, <1>6, <1>7, <2>2
  <1>9. ASSUME NEW i \in Live(refresh, count) PROVE bindings[i].addr \notin Pending(refresh')
    <2>1. bindings[i].addr \in Bound
      BY Zenon, <1>8, LiveIn DEF Bound
    <2> QED
      BY Zenon, <1>7, <2>1
  <1> QED
    BY Zenon, <1>1, <1>4, <1>5, <1>6, <1>7, <1>8, <1>9, Untouched

(* An address that cannot be bound is skipped.                             *)
LEMMA BindFailsKeeps ==
    ASSUME BinderInv, NEW a, BindFails(a)
    PROVE  BinderInv'
  <1>1. refresh.pc = "bind"
    BY DEF BindFails
  <1>2. PICK due \in SUBSET Places : refresh = Binding(due)
    BY Zenon, <1>1, BindingIs DEF BinderInv
  <1>3. refresh' = Binding(due \ {a}) /\ due \ {a} \in SUBSET Places
        /\ UNCHANGED <<bindings, count, open, opened, sender, leaked>> /\ Noted
    BY <1>2 DEF BindFails, Binding, table
  <1>4. count \in Nat /\ count' \in Nat /\ count' \in 0..MaxBindings /\ count' = count
    BY <1>3, CountNat, BinderAssumption DEF BinderInv
  <1>5. Passing(refresh, opened) = {} /\ Pending(refresh) = due
        /\ \A i \in Indexes : i \in Live(refresh, count) <=> i < count
    BY Zenon, <1>2, <1>4, BindingFacts
  <1>6. Passing(refresh', opened') = {} /\ Pending(refresh') = due \ {a}
        /\ RefreshOK(refresh', count')
        /\ \A i \in Indexes : i \in Live(refresh', count') <=> i < count'
    BY Zenon, <1>3, <1>4, BindingFacts
  <1>7. \A i \in Indexes : i \in Live(refresh', count') <=> i \in Live(refresh, count)
    BY Zenon, <1>4, <1>5, <1>6
  <1>8. \A i \in Live(refresh, count) : bindings[i].addr \notin Pending(refresh')
    BY <1>1, <1>5, <1>6, NotPending
  <1> QED
    BY ZenonT(30), <1>1, <1>3, <1>4, <1>5, <1>6, <1>7, <1>8, Untouched

(* No address is left: refresh() ends.                                     *)
LEMMA RefreshedKeeps ==
    ASSUME BinderInv, Refreshed
    PROVE  BinderInv'
  <1>1. refresh.pc = "bind"
    BY DEF Refreshed
  <1>2. PICK due \in SUBSET Places : refresh = Binding(due)
    BY Zenon, <1>1, BindingIs DEF BinderInv
  <1>3. refresh' = AtRest
        /\ UNCHANGED <<bindings, count, open, opened, sender, leaked>> /\ Noted
    BY <1>2 DEF Refreshed, table
  <1>4. count \in Nat /\ count' \in Nat /\ count' \in 0..MaxBindings /\ count' = count
    BY <1>3, CountNat, BinderAssumption DEF BinderInv
  <1>5. Passing(refresh, opened) = {}
        /\ \A i \in Indexes : i \in Live(refresh, count) <=> i < count
    BY Zenon, <1>2, <1>4, BindingFacts
  <1>6. Passing(refresh', opened') = {} /\ Pending(refresh') = {}
        /\ RefreshOK(refresh', count')
        /\ \A i \in Indexes : i \in Live(refresh', count') <=> i < count'
    BY Zenon, <1>3, <1>4, RestFacts
  <1>7. \A i \in Indexes : i \in Live(refresh', count') <=> i \in Live(refresh, count)
    BY Zenon, <1>4, <1>5, <1>6
  <1>8. \A i \in Live(refresh, count) : bindings[i].addr \notin Pending(refresh')
    BY <1>6
  <1> QED
    BY ZenonT(30), <1>1, <1>3, <1>4, <1>5, <1>6, <1>7, <1>8, Untouched

(* An old entry whose address is listed moves down.                        *)
LEMMA KeepKeeps ==
    ASSUME BinderInv, Keep
    PROVE  BinderInv'
  <1>1. refresh.pc = "keep"
    BY DEF Keep
  <1>2. PICK b \in Nat, old \in 0..MaxBindings, as \in SUBSET Places :
            refresh = Keeping("keep", b, old, as) /\ count <= b /\ b <= old
    BY ZenonT(30), <1>1, KeepingIs DEF BinderInv
  <1>3. b < old /\ bindings' = [bindings EXCEPT ![count] = bindings[b]]
        /\ refresh' = Keeping("kept", b, old, as)
        /\ UNCHANGED <<count, open, opened, sender, leaked>> /\ Noted
    BY Zenon, <1>2 DEF Keep, Keeping
  <1>4. count \in Indexes /\ b \in Indexes /\ count \in Nat /\ old \in Nat
    BY <1>2, <1>3, CountNat, IndexesNat, BinderAssumption
  <1>5. bindings' \in [Indexes -> Entries]
        /\ bindings'[count] = bindings[b]
        /\ \A i \in Indexes \ {count} : bindings'[i] = bindings[i]
    BY <1>3, <1>4 DEF BinderInv, Entries
  <1>6. RefreshOK(refresh', count')
    BY Zenon, <1>2, <1>3, <1>4, KeepingOK
  <1>7. Passing(refresh, opened) = {} /\ Pending(refresh) = {}
        /\ \A i \in Indexes : i \in Live(refresh, count) <=> i < count \/ (b <= i /\ i < old)
    <2>1. refresh.pc = "keep" /\ refresh.b = b /\ refresh.old = old
      BY Zenon, <1>2 DEF Keeping
    <2> QED
      BY <2>1, KeepLive
  <1>8. Passing(refresh', opened') = {} /\ Pending(refresh') = {} /\ refresh'.pc = "kept"
        /\ \A i \in Indexes : i \in Live(refresh', count') <=> i < count \/ i = count \/ (b < i /\ i < old)
    <2>1. refresh'.pc = "kept" /\ refresh'.b = b /\ refresh'.old = old
      BY Zenon, <1>3 DEF Keeping
    <2>2. count' = count
      BY <1>3
    <2> QED
      BY <2>1, <2>2, KeptLive
  <1>9. PICK L : L = Live(refresh, count)
    OBVIOUS
  <1>10. PICK M : M = Live(refresh', count')
    OBVIOUS
  <1>11. L \subseteq Indexes /\ M \subseteq Indexes /\ \A i \in Indexes : i \in Nat
    BY Zenon, <1>9, <1>10, LiveIn, IndexesNat
  <1>12. /\ \A i \in Indexes : i \in L <=> i < count \/ (b <= i /\ i < old)
         /\ \A i \in Indexes : i \in M <=> i < count \/ i = count \/ (b < i /\ i < old)
    BY <1>7, <1>8, <1>9, <1>10
  <1>13. b \in L
    BY <1>3, <1>4, <1>12
  <1>14. TableSound(bindings, L, leaked, {}, open, opened)
    <2>1. TableSound(bindings, L, leaked \cup {}, {}, open, opened)
      BY Zenon, <1>1, <1>7, <1>9 DEF BinderInv, TableOK
    <2> QED
      BY <2>1
  <1>15. PICK g : g = [i \in M |-> IF i = count THEN b ELSE i]
    BY Zenon
  <1>16. ASSUME NEW i \in M
         PROVE  g[i] \in L /\ bindings'[i] = bindings[g[i]] /\ bindings'[i].addr \notin {}
    <2>1. CASE i = count
      BY <1>5, <1>13, <1>15, <2>1
    <2>2. CASE i # count
      <3>1. i \in Indexes /\ g[i] = i
        BY <1>11, <1>15, <2>2
      <3>2. i \in L
        BY <1>4, <1>11, <1>12, <2>2, <3>1
      <3> QED
        BY <1>5, <2>2, <3>1, <3>2
    <2> QED
      BY <2>1, <2>2
  <1>17. \A i, j \in M : i # j => g[i] # g[j]
    BY <1>2, <1>4, <1>11, <1>12, <1>15
  <1>18. ASSUME NEW i \in L PROVE \E j \in M : g[j] = i
    <2>1. i \in Indexes /\ i \in Nat
      BY <1>11
    <2>2. CASE i = b
      <3>1. count \in M
        BY <1>4, <1>12
      <3> QED
        BY <1>15, <2>2, <3>1
    <2>3. CASE i # b
      <3>1. i \in M /\ i # count
        BY <1>2, <1>4, <1>12, <2>1, <2>3
      <3> QED
        BY <1>15, <3>1
    <2> QED
      BY <2>2, <2>3
  <1>19. TableSound(bindings', M, leaked, {}, open, opened)
    BY <1>14, <1>16, <1>17, <1>18, Renumbered
  <1>20. TableOK'
    <2>1. leaked' \cap {} = {} /\ leaked' \cup {} = leaked
      BY <1>3
    <2> QED
      BY Zenon, <1>3, <1>8, <1>10, <1>19, <2>1 DEF TableOK
  <1>21. bindings[b].sock \in open
    BY <1>13, <1>14 DEF TableSound
  <1>22. \A i \in Indexes : bindings'[i].sock \in {bindings[i].sock, NoSock} \cup open'
    BY <1>3, <1>5, <1>21
  <1>23. SenderOK' /\ once' \in BOOLEAN
    BY Zenon, <1>3, <1>22, NotedKeeps DEF BinderInv
  <1> QED
    BY Zenon, <1>3, <1>5, <1>6, <1>20, <1>23 DEF BinderInv, Entries

(* An old entry whose address is not listed is cleared.                    *)
LEMMA DropKeeps ==
    ASSUME BinderInv, Drop
    PROVE  BinderInv'
  <1>1. refresh.pc = "keep"
    BY DEF Drop
  <1>2. PICK b \in Nat, old \in 0..MaxBindings, as \in SUBSET Places :
            refresh = Keeping("keep", b, old, as) /\ count <= b /\ b <= old
    BY Zenon, <1>1, KeepingIs DEF BinderInv
  <1>3. refresh.pc = "keep" /\ refresh.b = b /\ refresh.old = old /\ refresh.addrs = as
    BY Zenon, <1>2 DEF Keeping
  <1>4. PICK s : s = bindings[b].sock
    OBVIOUS
  <1>5. b < old /\ bindings' = [bindings EXCEPT ![b].sock = NoSock]
        /\ refresh' = Closing(b, old, as, s)
        /\ UNCHANGED <<count, open, opened, sender, leaked>> /\ Noted
    BY Zenon, <1>3, <1>4 DEF Drop, Closing
  <1>6. b \in Indexes /\ count \in Nat /\ old \in Nat
    BY <1>2, <1>5, CountNat, IndexesNat, BinderAssumption
  <1>7. bindings' \in [Indexes -> Entries] /\ bindings'[b].sock = NoSock /\ s \in Nat
        /\ \A i \in Indexes \ {b} : bindings'[i] = bindings[i]
    BY <1>4, <1>5, <1>6 DEF BinderInv, Entries, NoSock
  <1>8. RefreshOK(refresh', count')
    BY Zenon, <1>2, <1>5, <1>7, ClosingOK
  <1>9. Passing(refresh, opened) = {} /\ Pending(refresh) = {}
        /\ \A i \in Indexes : i \in Live(refresh, count) <=> i < count \/ (b <= i /\ i < old)
    BY <1>3, KeepLive
  <1>10. Passing(refresh', opened') = {s} /\ Pending(refresh') = {} /\ refresh'.pc = "close"
         /\ \A i \in Indexes : i \in Live(refresh', count') <=> i < count \/ (b < i /\ i < old)
    <2>1. refresh'.pc = "close" /\ refresh'.b = b /\ refresh'.old = old /\ refresh'.sock = s
          /\ count' = count
      BY <1>5 DEF Closing
    <2> QED
      BY <2>1, CloseLive
  <1>11. PICK L : L = Live(refresh, count)
    OBVIOUS
  <1>12. PICK M : M = Live(refresh', count')
    OBVIOUS
  <1>13. L \subseteq Indexes /\ M \subseteq Indexes
    BY Zenon, <1>11, <1>12, LiveIn
  <1>14. ASSUME NEW i \in Indexes PROVE i \in M <=> i \in L /\ i # b
    <2>1. i \in Nat
      BY IndexesNat
    <2>2. i < count \/ (b < i /\ i < old) <=> (i < count \/ (b <= i /\ i < old)) /\ i # b
      BY <1>2, <1>6, <2>1
    <2> QED
      BY Zenon, <1>9, <1>10, <1>11, <1>12, <2>2
  <1>15. M = L \ {b}
    BY <1>13, <1>14
  <1>16. b \in L
    <2>1. b <= b
      OBVIOUS
    <2> QED
      BY Zenon, <1>5, <1>6, <1>9, <1>11, <2>1
  <1>17. TableSound(bindings, L, leaked, {}, open, opened)
    <2>1. TableSound(bindings, L, leaked \cup {}, {}, open, opened)
      BY Zenon, <1>1, <1>9, <1>11 DEF BinderInv, TableOK
    <2> QED
      BY <2>1
  <1>18. TableSound(bindings', M, leaked \cup {s}, {}, open, opened) /\ s \notin leaked
    <2>1. \A i \in L \ {b} : bindings'[i] = bindings[i]
      BY <1>7, <1>13
    <2> QED
      BY Zenon, <1>4, <1>15, <1>16, <1>17, <2>1, Dropped
  <1>19. TableOK'
    <2>1. leaked' \cap {s} = {}
      BY <1>5, <1>18
    <2> QED
      BY Zenon, <1>5, <1>10, <1>12, <1>18, <2>1 DEF TableOK
  <1>20. \A i \in Indexes : bindings'[i].sock \in {bindings[i].sock, NoSock} \cup open'
    BY <1>7
  <1>21. SenderOK' /\ once' \in BOOLEAN
    BY Zenon, <1>5, <1>20, NotedKeeps DEF BinderInv
  <1> QED
    BY Zenon, <1>5, <1>7, <1>8, <1>19, <1>21 DEF BinderInv, Entries

(* Its socket is closed, and the next old entry is looked at.              *)
LEMMA CloseKeeps ==
    ASSUME BinderInv, Close
    PROVE  BinderInv'
  <1>1. refresh.pc = "close"
    BY DEF Close
  <1>2. PICK b \in Nat, old \in 0..MaxBindings, as \in SUBSET Places, s \in Nat :
            refresh = Closing(b, old, as, s) /\ count <= b /\ b < old
    BY Zenon, <1>1, ClosingIs DEF BinderInv
  <1>3. refresh.b = b /\ refresh.old = old /\ refresh.addrs = as /\ refresh.sock = s
    BY Zenon, <1>2 DEF Closing
  <1>4. PICK c : c = b + 1
    OBVIOUS
  <1>5. open' = open \ {s} /\ refresh' = Keeping("keep", c, old, as)
        /\ UNCHANGED <<bindings, count, opened, sender, leaked>> /\ Noted
    BY Zenon, <1>3, <1>4 DEF Close, Keeping, table
  <1>6. count \in Nat /\ old \in Nat /\ c \in Nat /\ count <= c /\ c <= old
    BY <1>2, <1>4, CountNat, BinderAssumption
  <1>7. RefreshOK(refresh', count')
    BY Zenon, <1>5, <1>6, KeepingOK
  <1>8. Passing(refresh, opened) = {s} /\ Pending(refresh) = {}
        /\ \A i \in Indexes : i \in Live(refresh, count) <=> i < count \/ (b < i /\ i < old)
    BY <1>1, <1>3, CloseLive
  <1>9. Passing(refresh', opened') = {} /\ Pending(refresh') = {} /\ refresh'.pc = "keep"
        /\ \A i \in Indexes : i \in Live(refresh', count') <=> i < count \/ (c <= i /\ i < old)
    <2>1. refresh'.pc = "keep" /\ refresh'.b = c /\ refresh'.old = old /\ count' = count
      BY Zenon, <1>5 DEF Keeping
    <2> QED
      BY <2>1, KeepLive
  <1>10. Live(refresh', count') = Live(refresh, count)
    <2>1. ASSUME NEW i \in Indexes
          PROVE  i \in Live(refresh', count') <=> i \in Live(refresh, count)
      <3>1. i \in Nat
        BY IndexesNat
      <3>2. c <= i <=> b < i
        BY <1>4, <3>1
      <3> QED
        BY Zenon, <1>8, <1>9, <3>2
    <2> QED
      BY <2>1, SameLive
  <1>11. TableSound(bindings, Live(refresh, count), leaked \cup {s}, {}, open, opened)
         /\ leaked \cap {s} = {}
    BY Zenon, <1>1, <1>8 DEF BinderInv, TableOK
  <1>12. TableSound(bindings, Live(refresh, count), leaked, {}, open', opened)
    BY <1>5, <1>11, Closed
  <1>13. TableOK'
    <2>1. leaked' \cap {} = {} /\ leaked' \cup {} = leaked
      BY <1>5
    <2> QED
      BY Zenon, <1>5, <1>9, <1>10, <1>12, <2>1 DEF TableOK
  <1>14. SenderOK' /\ once' \in BOOLEAN
    BY Zenon, <1>5, NotedKeeps DEF BinderInv
  <1> QED
    BY Zenon, <1>5, <1>7, <1>13, <1>14 DEF BinderInv

(* A socket is bound; if the table has no room for it, it leaks.           *)
LEMMA BindKeeps ==
    ASSUME BinderInv, NEW a, Bind(a)
    PROVE  BinderInv'
  <1>1. refresh.pc = "bind"
    BY DEF Bind
  <1>2. PICK due \in SUBSET Places : refresh = Binding(due)
    BY Zenon, <1>1, BindingIs DEF BinderInv
  <1>3. refresh.todo = due
    BY <1>2 DEF Binding
  <1>4. PICK o : o = opened + 1
    OBVIOUS
  <1>5. opened' = o /\ open' = open \cup {o} /\ a \in due
        /\ UNCHANGED <<bindings, count, sender>> /\ Noted
    BY Zenon, <1>3, <1>4 DEF Bind, table
  <1>6. count \in Nat /\ opened \in Nat /\ o \in Nat /\ count <= MaxBindings
    BY <1>4, CountNat DEF BinderInv
  <1>7. Passing(refresh, opened) = {} /\ Pending(refresh) = due
        /\ \A i \in Indexes : i \in Live(refresh, count) <=> i < count
    BY Zenon, <1>2, <1>6, BindingFacts
  <1>8. PICK L : L = Live(refresh, count)
    OBVIOUS
  <1>9. TableSound(bindings, L, leaked, due, open, opened)
    <2>1. TableSound(bindings, L, leaked \cup {}, due, open, opened)
      BY Zenon, <1>1, <1>7, <1>8 DEF BinderInv, TableOK
    <2> QED
      BY <2>1
  <1>10. ASSUME NEW P2 \in SUBSET due
         PROVE  TableSound(bindings, L, leaked \cup {o}, P2, open', o) /\ o \notin leaked
    BY <1>4, <1>5, <1>6, <1>9, Opened
  <1>11. SenderOK' /\ once' \in BOOLEAN
    BY Zenon, <1>5, NotedKeeps DEF BinderInv
  <1>12. CASE count < MaxBindings
    <2>1. refresh' = Entering("bound", due \ {a}, a) /\ leaked' = leaked
      BY Zenon, <1>3, <1>12 DEF Bind, Entering
    <2>2. due \ {a} \in SUBSET Places /\ a \in Places \ (due \ {a}) /\ "bound" \in {"bound", "entered"}
      BY <1>5
    <2>3. count' = count /\ count' < MaxBindings
      BY <1>5, <1>12
    <2>4. RefreshOK(refresh', count')
      BY <2>1, <2>2, <2>3, EnteringOK
    <2>5. refresh'.pc = "bound" /\ refresh'.todo = due \ {a} /\ refresh'.addr = a
      BY Zenon, <2>1 DEF Entering
    <2>6. Pending(refresh') = (due \ {a}) \cup {a} /\ Passing(refresh', opened') = {o}
          /\ \A i \in Indexes : i \in Live(refresh', count') <=> i < count
      BY <1>5, <2>3, <2>5, BoundLive
    <2>7. Live(refresh', count') = L
      <3>1. \A i \in Indexes : i \in Live(refresh', count') <=> i \in Live(refresh, count)
        BY Zenon, <1>7, <2>6
      <3> QED
        BY <1>8, <3>1, SameLive
    <2>8. TableSound(bindings, L, leaked \cup {o}, (due \ {a}) \cup {a}, open', o) /\ leaked \cap {o} = {}
      BY <1>5, <1>10
    <2>9. TableOK'
      BY Zenon, <1>5, <2>1, <2>6, <2>7, <2>8 DEF TableOK
    <2> QED
      BY Zenon, <1>5, <1>6, <1>11, <2>4, <2>9 DEF BinderInv
  <1>13. CASE ~(count < MaxBindings)
    <2>1. refresh' = Binding(due \ {a}) /\ leaked' = leaked \cup {o} /\ due \ {a} \in SUBSET Places
      BY <1>2, <1>4, <1>13 DEF Bind, Binding
    <2>2. count' = count /\ count' \in Nat
      BY <1>5, <1>6
    <2>3. RefreshOK(refresh', count') /\ Pending(refresh') = due \ {a} /\ Passing(refresh', opened') = {}
          /\ \A i \in Indexes : i \in Live(refresh', count') <=> i < count'
      BY Zenon, <2>1, <2>2, BindingFacts
    <2>4. Live(refresh', count') = L
      <3>1. \A i \in Indexes : i \in Live(refresh', count') <=> i \in Live(refresh, count)
        BY Zenon, <1>7, <2>2, <2>3
      <3> QED
        BY <1>8, <3>1, SameLive
    <2>5. TableSound(bindings, L, leaked', due \ {a}, open', o)
          /\ leaked' \cap {} = {} /\ leaked' \cup {} = leaked'
      BY <1>10, <2>1
    <2>6. TableOK'
      BY Zenon, <1>5, <2>3, <2>4, <2>5 DEF TableOK
    <2> QED
      BY Zenon, <1>5, <1>6, <1>11, <2>3, <2>6 DEF BinderInv
  <1> QED
    BY <1>12, <1>13

(* Its entry is filled, and then counted.                                  *)
LEMMA EnterKeeps ==
    ASSUME BinderInv, Enter
    PROVE  BinderInv'
  <1>1. CASE refresh.pc = "bound"
    <2>1. PICK due \in SUBSET Places : due = refresh.todo
      BY Zenon, <1>1, EnteringIs DEF BinderInv
    <2>2. PICK a \in Places \ due : refresh = Entering("bound", due, a) /\ count < MaxBindings
      BY Zenon, <1>1, <2>1, EnteringIs DEF BinderInv
    <2>3. refresh.todo = due /\ refresh.addr = a
      BY Zenon, <2>2 DEF Entering
    <2>4. refresh' = Entering("entered", due, a)
          /\ bindings' = [bindings EXCEPT ![count] = [addr |-> a, sock |-> opened]]
          /\ UNCHANGED <<count, open, opened, sender, leaked>> /\ Noted
      BY <1>1, <2>2, <2>3 DEF Enter, Entering
    <2>5. count \in Nat /\ opened \in Nat /\ count \in Indexes
      BY <2>2, CountNat, IndexesNat DEF BinderInv
    <2>6. bindings' \in [Indexes -> Entries] /\ bindings'[count].addr = a /\ bindings'[count].sock = opened
          /\ \A i \in Indexes \ {count} : bindings'[i] = bindings[i]
      BY <2>4, <2>5 DEF BinderInv, Entries
    <2>7. RefreshOK(refresh', count')
      BY <2>2, <2>4, EnteringOK
    <2>8. Pending(refresh) = due \cup {a} /\ Passing(refresh, opened) = {opened}
          /\ \A i \in Indexes : i \in Live(refresh, count) <=> i < count
      BY <1>1, <2>3, BoundLive
    <2>9. refresh'.pc = "entered" /\ refresh'.todo = due /\ count' = count
      BY Zenon, <2>4 DEF Entering
    <2>10. Pending(refresh') = due /\ Passing(refresh', opened') = {}
           /\ \A i \in Indexes : i \in Live(refresh', count') <=> i < count \/ i = count
      BY <2>9, EnteredLive
    <2>11. PICK L : L = Live(refresh, count)
      OBVIOUS
    <2>12. PICK M : M = Live(refresh', count')
      OBVIOUS
    <2>13. L \subseteq Indexes /\ M \subseteq Indexes
      BY Zenon, <2>11, <2>12, LiveIn
    <2>14. count \notin L
      BY <2>5, <2>8, <2>11
    <2>15. M = L \cup {count}
      <3>1. \A i \in Indexes : i \in M <=> i \in L \/ i = count
        BY Zenon, <2>8, <2>10, <2>11, <2>12
      <3> QED
        BY Zenon, <2>5, <2>13, <3>1
    <2>16. TableSound(bindings, L, leaked \cup {opened}, due \cup {a}, open, opened)
           /\ leaked \cap {opened} = {}
      BY Zenon, <1>1, <2>8, <2>11 DEF BinderInv, TableOK
    <2>17. TableSound(bindings', M, leaked, due, open, opened)
      <3>1. \A i \in L : bindings'[i] = bindings[i]
        BY <2>6, <2>13, <2>14
      <3>2. opened \notin leaked /\ a \in (due \cup {a}) \ due /\ due \in SUBSET (due \cup {a})
        BY <2>16
      <3> QED
        BY <2>6, <2>14, <2>15, <2>16, <3>1, <3>2, Entered
    <2>18. TableOK'
      <3>1. leaked' \cap {} = {} /\ leaked' \cup {} = leaked
        BY <2>4
      <3> QED
        BY Zenon, <2>4, <2>10, <2>12, <2>17, <3>1 DEF TableOK
    <2>19. opened \in open
      BY <2>16 DEF TableSound
    <2>20. \A i \in Indexes : bindings'[i].sock \in {bindings[i].sock, NoSock} \cup open'
      BY <2>4, <2>6, <2>19
    <2>21. SenderOK' /\ once' \in BOOLEAN
      BY Zenon, <2>4, <2>20, NotedKeeps DEF BinderInv
    <2> QED
      BY Zenon, <2>4, <2>6, <2>7, <2>18, <2>21 DEF BinderInv, Entries
  <1>2. CASE refresh.pc = "entered"
    <2>1. PICK due \in SUBSET Places : due = refresh.todo
      BY Zenon, <1>2, EnteringIs DEF BinderInv
    <2>2. refresh.todo = due /\ count < MaxBindings
      BY Zenon, <1>2, <2>1, EnteringIs DEF BinderInv
    <2>3. refresh' = Binding(due) /\ count' = count + 1
          /\ UNCHANGED <<bindings, open, opened, sender, leaked>> /\ Noted
      BY <1>2, <2>2 DEF Enter, Binding
    <2>4. count \in Nat /\ count' \in 0..MaxBindings
      BY <2>2, <2>3, CountNat, BinderAssumption
    <2>5. PICK n \in Nat : n = count'
      BY <2>4
    <2>6. Pending(refresh) = due /\ Passing(refresh, opened) = {}
          /\ \A i \in Indexes : i \in Live(refresh, count) <=> i < count \/ i = count
      BY <1>2, <2>2, EnteredLive
    <2>7. RefreshOK(refresh', n) /\ Pending(refresh') = due /\ Passing(refresh', opened') = {}
          /\ \A i \in Indexes : i \in Live(refresh', n) <=> i < n
      <3>1. refresh' = Binding(due)
        BY <2>3
      <3> QED
        BY Zenon, <3>1, BindingFacts
    <2>8. ASSUME NEW i \in Indexes
          PROVE  i \in Live(refresh', count') <=> i \in Live(refresh, count)
      <3>1. i < n <=> i < count \/ i = count
        BY <2>3, <2>4, <2>5, IndexesNat
      <3> QED
        BY Zenon, <2>5, <2>6, <2>7, <3>1
    <2>9. \A i \in Live(refresh, count) : bindings[i].addr \notin Pending(refresh')
      BY <1>2, <2>6, <2>7, NotPending
    <2> QED
      BY Zenon, <1>2, <2>3, <2>4, <2>5, <2>6, <2>7, <2>8, <2>9, Untouched
  <1> QED
    BY <1>1, <1>2 DEF Enter

(* closeAll(), after which nothing is sent any more.                       *)
LEMMA CloseAllKeeps ==
    ASSUME BinderInv, CloseAll
    PROVE  BinderInv'
  <1>1. count' = 0 /\ refresh' = [pc |-> "closed"] /\ sender' = sender /\ sender = AtRest
        /\ bindings' = bindings /\ opened' = opened /\ Noted
    BY DEF CloseAll
  <1>2. RefreshOK(refresh', count') /\ refresh'.pc = "closed"
    BY <1>1 DEF RefreshOK
  <1>3. SenderOK'
    BY <1>1 DEF SenderOK
  <1>4. once' \in BOOLEAN
    BY Zenon, <1>1 DEF Noted
  <1>5. count' \in 0..MaxBindings
    BY <1>1, BinderAssumption
  <1> QED
    BY Zenon, <1>1, <1>2, <1>3, <1>4, <1>5 DEF BinderInv

-----------------------------------------------------------------------------
(* The sending thread                                                      *)
LEMMA SenderKeeps ==
    ASSUME BinderInv, UNCHANGED <<table, open, opened, refresh, leaked>>, SenderOK', once' \in BOOLEAN
    PROVE  BinderInv'
  <1>1. bindings' = bindings /\ count' = count
    BY Zenon DEF table
  <1>2. TableOK => TableOK'
    BY Zenon, <1>1 DEF TableOK
  <1> QED
    BY Zenon, <1>1, <1>2 DEF BinderInv

(* A counted binding has an open socket.                                   *)
LEMMA CountedOpen ==
    ASSUME BinderInv, refresh.pc # "closed", NEW i \in Indexes, i < count
    PROVE  bindings[i].sock \in open
  <1>1. i \in Live(refresh, count)
    BY Zenon DEF Live
  <1> QED
    BY Zenon, <1>1 DEF BinderInv, TableOK, TableSound

(* isUdpSocketValid() begins with the number of bindings of then.          *)
LEMMA SendKeeps ==
    ASSUME BinderInv, NEW s \in Sockets, Send(s)
    PROVE  BinderInv'
  <1>1. sender' = [pc |-> "scan", sock |-> s, c |-> count, b |-> 0] /\ once' = (s \in open)
        /\ UNCHANGED <<table, open, opened, refresh, leaked>> /\ refresh.pc # "closed"
    BY Zenon DEF Send
  <1>2. bindings' = bindings
    BY <1>1 DEF table
  <1>3. s \in Nat \ {0} /\ count \in 0..MaxBindings /\ 0 \in Nat /\ 0 <= count
    BY BinderAssumption DEF Sockets, BinderInv
  <1>4. sender' \in [pc : {"scan", "check", "use", "sendAll"}, sock : Nat \ {0},
                      c : 0..MaxBindings, b : Nat]
        /\ sender'.pc = "scan" /\ sender'.b = 0 /\ sender'.c = count /\ sender'.sock = s
    BY <1>1, <1>3
  <1>5. ASSUME NEW i \in Indexes, i < sender'.c, bindings'[i].sock = sender'.sock
        PROVE  once'
    BY Zenon, <1>1, <1>2, <1>4, <1>5, CountedOpen
  <1>6. SenderOK'
    BY <1>3, <1>4, <1>5 DEF SenderOK
  <1>7. once' \in BOOLEAN
    <2>1. once' = (s \in open)
      BY <1>1
    <2> QED
      BY <2>1
  <1> QED
    BY Zenon, <1>1, <1>6, <1>7, SenderKeeps

(* The scan goes on, or has found the socket.                              *)
LEMMA ScanKeeps ==
    ASSUME BinderInv, Scan
    PROVE  BinderInv'
  <1>1. sender.pc = "scan" /\ UNCHANGED <<table, open, opened, refresh, once, leaked>>
    BY DEF Scan
  <1>2. sender \in [pc : {"scan", "check", "use", "sendAll"}, sock : Nat \ {0},
                     c : 0..MaxBindings, b : Nat]
        /\ sender.b <= sender.c
        /\ \A i \in Indexes : i < sender.c /\ bindings[i].sock = sender.sock => once
    BY <1>1 DEF BinderInv, SenderOK, AtRest
  <1>3. bindings' = bindings /\ once' = once /\ once' \in BOOLEAN
    BY <1>1 DEF table, BinderInv
  <1>4. CASE sender.b = sender.c
    <2>1. sender' = [sender EXCEPT !.pc = "sendAll"]
      BY Zenon, <1>4 DEF Scan
    <2>2. SenderOK'
      BY <1>2, <1>4, <2>1 DEF SenderOK
    <2> QED
      BY Zenon, <1>1, <1>3, <2>2, SenderKeeps
  <1>5. CASE sender.b # sender.c /\ bindings[sender.b].sock = sender.sock
    <2>1. sender' = [sender EXCEPT !.pc = "check"]
      BY Zenon, <1>5 DEF Scan
    <2>2. sender.b \in Indexes /\ sender.b < sender.c
      BY <1>2, <1>5, IndexesNat, BinderAssumption
    <2>3. once'
      BY Zenon, <1>2, <1>3, <1>5, <2>2
    <2>4. SenderOK'
      BY <1>2, <2>1, <2>3 DEF SenderOK
    <2> QED
      BY Zenon, <1>1, <1>3, <2>4, SenderKeeps
  <1>6. CASE sender.b # sender.c /\ bindings[sender.b].sock # sender.sock
    <2>1. sender' = [sender EXCEPT !.b = @ + 1]
      BY Zenon, <1>6 DEF Scan
    <2>2. sender' \in [pc : {"scan", "check", "use", "sendAll"}, sock : Nat \ {0},
                        c : 0..MaxBindings, b : Nat]
          /\ sender'.b = sender.b + 1 /\ sender'.c = sender.c /\ sender'.sock = sender.sock
          /\ sender'.pc = "scan"
      BY <1>1, <1>2, <2>1
    <2>3. sender'.b <= sender'.c
      BY <1>2, <1>6, <2>2, BinderAssumption
    <2>4. \A i \in Indexes : i < sender'.c /\ bindings'[i].sock = sender'.sock => once'
      BY Zenon, <1>2, <1>3, <2>2
    <2>5. SenderOK'
      BY Zenon, <2>2, <2>3, <2>4 DEF SenderOK
    <2> QED
      BY Zenon, <1>1, <1>3, <2>5, SenderKeeps
  <1> QED
    BY Zenon, <1>4, <1>5, <1>6

(* The second look, at the number of bindings.                             *)
LEMMA DoubleCheckKeeps ==
    ASSUME BinderInv, DoubleCheck
    PROVE  BinderInv'
  <1>1. sender.pc = "check" /\ UNCHANGED <<table, open, opened, refresh, once, leaked>>
    BY DEF DoubleCheck
  <1>2. sender \in [pc : {"scan", "check", "use", "sendAll"}, sock : Nat \ {0},
                     c : 0..MaxBindings, b : Nat]
        /\ sender.b <= sender.c /\ once
    BY <1>1 DEF BinderInv, SenderOK, AtRest
  <1>3. once' = once /\ once' \in BOOLEAN
    BY <1>1 DEF BinderInv
  <1>4. PICK p \in {"use", "sendAll"} : sender' = [sender EXCEPT !.pc = p]
    BY Zenon DEF DoubleCheck
  <1>5. SenderOK'
    BY <1>2, <1>3, <1>4 DEF SenderOK
  <1> QED
    BY Zenon, <1>1, <1>3, <1>5, SenderKeeps

(* The datagram is handed to the socket.                                   *)
LEMMA UdpSendKeeps ==
    ASSUME BinderInv, UdpSend
    PROVE  BinderInv'
  <1>1. sender' = AtRest /\ once' = FALSE /\ UNCHANGED <<table, open, opened, refresh, leaked>>
    BY Zenon DEF UdpSend
  <1>2. SenderOK' /\ once' \in BOOLEAN
    BY Zenon, <1>1 DEF SenderOK
  <1> QED
    BY Zenon, <1>1, <1>2, SenderKeeps

-----------------------------------------------------------------------------
(* At first the table is empty.                                            *)
LEMMA InitIInv == BinderInit => BinderInv
  <1> SUFFICES ASSUME BinderInit PROVE BinderInv
    OBVIOUS
  <1>1. bindings \in [Indexes -> [addr : Places, sock : Nat]] /\ count = 0
    BY DEF BinderInit, Places, NoSock
  <1>2. count \in 0..MaxBindings /\ opened \in Nat /\ count \in Nat /\ refresh = AtRest
    BY BinderAssumption DEF BinderInit
  <1>a. once \in BOOLEAN /\ SenderOK
    BY Zenon DEF BinderInit, SenderOK
  <1>3. RefreshOK(refresh, count) /\ Pending(refresh) = {} /\ Passing(refresh, opened) = {}
        /\ \A i \in Indexes : i \in Live(refresh, count) <=> i < count
    BY Zenon, <1>2, RestFacts
  <1>4. Live(refresh, count) = {}
    <2>1. ASSUME NEW i \in Indexes PROVE ~(i < count)
      BY <1>1, IndexesNat
    <2> QED
      BY Zenon, <1>3, <2>1, LiveIn
  <1>5. TableOK
    BY <1>3, <1>4 DEF TableOK, TableSound, BinderInit
  <1> QED
    BY Zenon, <1>1, <1>2, <1>a, <1>3, <1>5 DEF BinderInv

(* Every step of refresh() and of a sender preserves the invariant.        *)
LEMMA NextIInv == BinderInv /\ [BinderNext]_binderVars => BinderInv'
  <1> SUFFICES ASSUME BinderInv, [BinderNext]_binderVars PROVE BinderInv'
    OBVIOUS
  <1>1. CASE UNCHANGED binderVars
    <2>1. UNCHANGED <<table, open, opened, refresh, leaked>> /\ sender' = sender /\ once' = once
          /\ bindings' = bindings
      BY <1>1 DEF binderVars, table
    <2>2. SenderOK' /\ once' \in BOOLEAN
      BY Zenon, <2>1 DEF BinderInv, SenderOK
    <2> QED
      BY Zenon, <2>1, <2>2, SenderKeeps
  <1>2. CASE \E listed \in SUBSET LocalAddrs : Refresh(listed)
    BY Zenon, <1>2, RefreshKeeps
  <1>3. CASE Keep \/ Kept \/ Drop \/ Close \/ KeptAll
    BY Zenon, <1>3, KeepKeeps, KeptKeeps, DropKeeps, CloseKeeps, KeptAllKeeps
  <1>4. CASE \E a \in LocalAddrs \cup {Wildcard} : Bind(a) \/ BindFails(a)
    BY Zenon, <1>4, BindKeeps, BindFailsKeeps
  <1>5. CASE Enter \/ Refreshed \/ CloseAll
    BY Zenon, <1>5, EnterKeeps, RefreshedKeeps, CloseAllKeeps
  <1>6. CASE \E s \in Sockets : Send(s)
    BY Zenon, <1>6, SendKeeps
  <1>7. CASE Scan \/ DoubleCheck \/ UdpSend
    BY Zenon, <1>7, ScanKeeps, DoubleCheckKeeps, UdpSendKeeps
  <1> QED
    BY Zenon, <1>1, <1>2, <1>3, <1>4, <1>5, <1>6, <1>7 DEF BinderNext

(* The invariant implies what the run checks.                              *)
LEMMA IInvSound == BinderInv => SocketsSound
  <1> SUFFICES ASSUME BinderInv PROVE SocketsSound
    OBVIOUS
  <1>1. UsedWasOpen
    BY DEF UsedWasOpen, BinderInv, SenderOK, AtRest
  <1>2. ASSUME refresh = AtRest PROVE TableExact
    <2> DEFINE I == 0..(count - 1)
    <2>1. count \in Nat /\ count <= MaxBindings
      BY CountNat
    <2>2. refresh.pc # "closed" /\ Passing(refresh, opened) = {}
          /\ \A i \in Indexes : i \in Live(refresh, count) <=> i < count
      BY <1>2, <2>1, RestFacts
    <2>3. Live(refresh, count) = I
      <3>1. ASSUME NEW i \in I PROVE i \in Indexes /\ i < count
        <4>1. i \in Nat /\ i < count /\ i < MaxBindings
          BY <2>1, BinderAssumption
        <4> QED
          BY Zenon, <4>1, IndexesNat
      <3>2. \A i \in Indexes : i < count => i \in I
        BY <2>1, IndexesNat
      <3> QED
        BY Zenon, <2>2, <3>1, <3>2, LiveIn
    <2>4. TableSound(bindings, I, leaked, Pending(refresh), open, opened)
      <3>1. TableSound(bindings, I, leaked \cup {}, Pending(refresh), open, opened)
        BY ZenonT(30), <2>2, <2>3 DEF BinderInv, TableOK
      <3> QED
        BY <3>1
    <2>5. open = {bindings[b].sock : b \in I} \cup leaked
      <3>1. ASSUME NEW s \in open PROVE s \in {bindings[b].sock : b \in I} \cup leaked
        BY ZenonT(30), <2>4 DEF TableSound
      <3>2. ASSUME NEW s \in leaked PROVE s \in open
        BY Zenon, <2>4 DEF TableSound
      <3>3. ASSUME NEW b \in I PROVE bindings[b].sock \in open
        BY Zenon, <2>4 DEF TableSound
      <3> QED
        BY Zenon, <3>1, <3>2, <3>3
    <2>6. ASSUME NEW b \in I, NEW c \in I, b # c
          PROVE  bindings[b].sock # bindings[c].sock /\ bindings[b].addr # bindings[c].addr
      BY Zenon, <2>4, <2>6 DEF TableSound
    <2> QED
      BY Zenon, <2>5, <2>6 DEF TableExact
  <1> QED
    BY Zenon, <1>1, <1>2 DEF SocketsSound, TableExact

(* Whatever refresh() and a sending thread do to each other: a packet goes *)
(* out of one socket only if that was open during the call, and between    *)
(* refreshes exactly the sockets of the table are open, one per address.   *)
THEOREM SocketsAlwaysSound == BinderSpec => []SocketsSound
  <1>1. BinderInit => BinderInv
    BY InitIInv
  <1>2. BinderInv /\ [BinderNext]_binderVars => BinderInv'
    BY NextIInv
  <1>3. BinderInv => SocketsSound
    BY IInvSound
  <1> QED
    BY <1>1, <1>2, <1>3, PTL DEF BinderSpec

-----------------------------------------------------------------------------
(* The records and the addresses of Allocation.                            *)

Shape(x) ==
    \/ x = Idle \/ x = [pc |-> "note"]
    \/ \E m \in Members : x = [pc |-> "erase", m |-> m]
    \/ \E p \in {"write", "store"} : \E m \in Members : \E r :
         x = [pc |-> p, m |-> m, rec |-> r]

Functions ==
    /\ mem = [m \in Members |-> mem[m]]
    /\ file = [m \in Members |-> file[m]]
    /\ torn = [m \in Members |-> torn[m]]
    /\ thread = [t \in Threads |-> thread[t]]
    /\ \A t \in Threads : Shape(thread[t])

(* What t is about to make of the record.                                  *)
Intends(t) == IF thread[t].pc = "erase" THEN None ELSE thread[t].rec

Saved(m) ==
    ~torn[m] =>
        /\ \A t \in Threads : Between(t, m) => file[m] = Intends(t)
        /\ \A t, u \in Threads : Between(t, m) /\ Between(u, m) => t = u
        /\ (\A t \in Threads : ~Between(t, m)) => file[m] = mem[m]

SaveInv == Functions /\ \A m \in Members : Saved(m)

(* A thread in the middle of a save or an erasure has a member.            *)
LEMMA HasMember ==
    ASSUME NEW x, Shape(x), x.pc \in {"write", "store", "erase"}
    PROVE  x.m \in Members
  <1>1. x # Idle
    BY DEF Idle
  <1>2. x # [pc |-> "note"]
    OBVIOUS
  <1>3. ASSUME NEW m \in Members, x = [pc |-> "erase", m |-> m] PROVE x.m \in Members
    BY <1>3
  <1>4. ASSUME NEW p, NEW m \in Members, NEW r, x = [pc |-> p, m |-> m, rec |-> r]
        PROVE  x.m \in Members
    BY <1>4
  <1> QED
    BY <1>1, <1>2, <1>3, <1>4, Zenon DEF Shape

(* What a thread that is about to call writeRaw() looks like.              *)
LEMMA WriteShape ==
    ASSUME NEW m \in Members, NEW r, NEW x, x = [pc |-> "write", m |-> m, rec |-> r]
    PROVE  Shape(x) /\ x.pc = "write"
  <1>1. Shape(x)
    BY Zenon DEF Shape
  <1> QED
    BY <1>1

(* Initially file and memory agree and no thread is at work.               *)
LEMMA InitSaved == AllocationInit => SaveInv
  <1> SUFFICES ASSUME AllocationInit PROVE SaveInv
    OBVIOUS
  <1>1. Functions
    BY DEF AllocationInit, Functions, Shape, Threads
  <1>2. \A t \in Threads, m \in Members : ~Between(t, m)
    BY DEF AllocationInit, Between, Idle
  <1> QED
    BY Zenon, <1>1, <1>2 DEF SaveInv, Saved, AllocationInit

(* A step of thread t that leaves files and records alone, between no two  *)
(* changes of a save before or after, preserves the invariant.             *)
LEMMA Aside ==
    ASSUME SaveInv, NEW t \in Threads, Shape(thread'[t]),
           thread'[t].pc \notin {"store", "erase"}, thread[t].pc \notin {"store", "erase"},
           thread' = [thread EXCEPT ![t] = thread'[t]], UNCHANGED <<mem, file, torn>>
    PROVE  SaveInv'
  <1>1. \A u \in Threads \ {t} : thread'[u] = thread[u]
    BY DEF SaveInv, Functions
  <1>2. thread' = [u \in Threads |-> thread'[u]]
    BY DEF SaveInv, Functions
  <1>3. \A u \in Threads : Shape(thread'[u])
    BY <1>1 DEF SaveInv, Functions
  <1>4. Functions'
    BY Zenon, <1>2, <1>3 DEF SaveInv, Functions, Threads, Shape
  <1>5. \A u \in Threads, m \in Members : Between(u, m)' <=> Between(u, m)
    BY <1>1 DEF Between
  <1>6. \A u \in Threads, m \in Members : Between(u, m) => Intends(u)' = Intends(u)
    BY <1>1 DEF Between, Intends
  <1>7. ASSUME NEW m \in Members PROVE Saved(m)'
    BY <1>5, <1>6, <1>7 DEF SaveInv, Saved, Threads
  <1> QED
    BY <1>4, <1>7 DEF SaveInv

(* So does a step that changes only what the invariant does not speak of.  *)
LEMMA NothingMoves ==
    ASSUME SaveInv, UNCHANGED <<mem, file, torn, thread>>
    PROVE  SaveInv'
  <1>1. Functions'
    <2>1. \A u \in Threads : Shape(thread'[u])
      BY DEF SaveInv, Functions
    <2> QED
      BY Zenon, <2>1 DEF SaveInv, Functions, Threads, Shape
  <1>2. \A u \in Threads, m \in Members :
          (Between(u, m)' <=> Between(u, m)) /\ Intends(u)' = Intends(u)
    BY DEF Between, Intends
  <1>3. ASSUME NEW m \in Members PROVE Saved(m)'
    BY <1>2, <1>3 DEF SaveInv, Saved, Threads
  <1> QED
    BY <1>1, <1>3 DEF SaveInv

(* writeRaw() starts a save: what the file has is what the thread intends, *)
(* and if another is between its changes the saves are torn.               *)
LEMMA WriteRawSaves ==
    ASSUME SaveInv, NEW t \in Threads, NEW ok \in BOOLEAN, WriteRaw(t, ok)
    PROVE  SaveInv'
  <1>a. thread[t].m \in Members
    <2>1. Shape(thread[t]) /\ thread[t].pc = "write"
      BY DEF SaveInv, Functions, WriteRaw
    <2> QED
      BY <2>1, HasMember
  <1>0. PICK m \in Members : m = thread[t].m
    BY <1>a
  <1>r. PICK r : r = thread[t].rec
    OBVIOUS
  <1>1. thread[t].pc = "write"
    BY DEF WriteRaw
  <1>2. /\ thread' = [u \in Threads |-> thread'[u]]
        /\ thread'[t] = [pc |-> "store", m |-> m, rec |-> r]
        /\ \A u \in Threads \ {t} : thread'[u] = thread[u]
    BY <1>0, <1>r DEF SaveInv, Functions, WriteRaw
  <1>3. /\ file' = [n \in Members |-> file'[n]]
        /\ torn' = [n \in Members |-> torn'[n]]
        /\ torn'[m] = (~ok \/ AnotherBetween(t, m))
        /\ ok => file'[m] = r
        /\ \A n \in Members \ {m} : file'[n] = file[n] /\ torn'[n] = torn[n]
        /\ mem' = mem
    BY Zenon, <1>0, <1>r, <1>1 DEF SaveInv, Functions, WriteRaw
  <1>4. \A u \in Threads : Shape(thread'[u])
    BY <1>0, <1>r, <1>1, <1>2 DEF SaveInv, Functions, Shape
  <1>5. Functions'
    BY Zenon, <1>2, <1>3, <1>4 DEF SaveInv, Functions, Shape, Threads
  <1>6. Between(t, m)' /\ Intends(t)' = r /\ \A n \in Members \ {m} : ~Between(t, n)'
    BY <1>2 DEF Between, Intends
  <1>7. \A n \in Members : ~Between(t, n)
    BY <1>1 DEF Between
  <1>8. \A u \in Threads \ {t} : Intends(u)' = Intends(u) /\ \A n \in Members : Between(u, n)' <=> Between(u, n)
    BY <1>2 DEF Between, Intends
  <1>9. Saved(m)'
    BY Zenon, <1>1, <1>3, <1>6, <1>8 DEF Saved, AnotherBetween, Threads
  <1>10. ASSUME NEW n \in Members \ {m} PROVE Saved(n)'
    BY <1>3, <1>6, <1>7, <1>8, <1>10 DEF SaveInv, Saved, Threads
  <1> QED
    BY <1>5, <1>9, <1>10 DEF SaveInv

(* The record becomes what the file has, if the save was not torn.         *)
LEMMA StoreSaves ==
    ASSUME SaveInv, NEW t \in Threads, NEW m \in Members, Between(t, m),
           thread' = [thread EXCEPT ![t] = thread'[t]], Shape(thread'[t]),
           thread'[t].pc \notin {"store", "erase"},
           mem' = [mem EXCEPT ![m] = Intends(t)], UNCHANGED <<file, torn>>
    PROVE  SaveInv'
  <1>2. /\ thread' = [u \in Threads |-> thread'[u]]
        /\ \A u \in Threads \ {t} : thread'[u] = thread[u]
    BY DEF SaveInv, Functions
  <1>3. /\ mem' = [n \in Members |-> mem'[n]]
        /\ mem'[m] = Intends(t)
        /\ \A n \in Members \ {m} : mem'[n] = mem[n]
    BY DEF SaveInv, Functions
  <1>4. \A u \in Threads : Shape(thread'[u])
    BY <1>2 DEF SaveInv, Functions
  <1>5. Functions'
    BY Zenon, <1>2, <1>3, <1>4 DEF SaveInv, Functions, Shape, Threads
  <1>6. \A n \in Members : ~Between(t, n)'
    BY DEF Between
  <1>7. \A n \in Members \ {m} : ~Between(t, n)
    BY DEF Between
  <1>8. \A u \in Threads \ {t} : Intends(u)' = Intends(u) /\ \A n \in Members : Between(u, n)' <=> Between(u, n)
    BY <1>2 DEF Between, Intends
  <1>9. Saved(m)'
    BY <1>3, <1>6, <1>8 DEF SaveInv, Saved, Threads
  <1>10. ASSUME NEW n \in Members \ {m} PROVE Saved(n)'
    BY <1>3, <1>6, <1>7, <1>8, <1>10 DEF SaveInv, Saved, Threads
  <1> QED
    BY <1>5, <1>9, <1>10 DEF SaveInv

(* eraseNetworkMember() starts with the file, as a save does.              *)
LEMMA DeleteSaves ==
    ASSUME SaveInv, NEW m \in Members, DeleteMember(m)
    PROVE  SaveInv'
  <1>1. "api" \in Threads /\ thread["api"].pc = "idle"
    BY DEF Threads, DeleteMember, Idle
  <1>2. /\ thread' = [u \in Threads |-> thread'[u]]
        /\ thread'["api"] = [pc |-> "erase", m |-> m]
        /\ \A u \in Threads \ {"api"} : thread'[u] = thread[u]
    BY <1>1 DEF SaveInv, Functions, DeleteMember
  <1>3. /\ file' = [n \in Members |-> file'[n]]
        /\ torn' = [n \in Members |-> torn'[n]]
        /\ torn'[m] = AnotherBetween("api", m)
        /\ file'[m] = None
        /\ \A n \in Members \ {m} : file'[n] = file[n] /\ torn'[n] = torn[n]
        /\ mem' = mem
    BY Zenon DEF SaveInv, Functions, DeleteMember
  <1>4. \A u \in Threads : Shape(thread'[u])
    BY <1>2 DEF SaveInv, Functions, Shape
  <1>5. Functions'
    BY Zenon, <1>2, <1>3, <1>4 DEF SaveInv, Functions, Shape, Threads
  <1>6. Between("api", m)' /\ Intends("api")' = None /\ \A n \in Members \ {m} : ~Between("api", n)'
    BY <1>2 DEF Between, Intends
  <1>7. \A n \in Members : ~Between("api", n)
    BY <1>1 DEF Between
  <1>8. \A u \in Threads \ {"api"} : Intends(u)' = Intends(u) /\ \A n \in Members : Between(u, n)' <=> Between(u, n)
    BY <1>2 DEF Between, Intends
  <1>9. Saved(m)'
    BY <1>1, <1>3, <1>6, <1>8 DEF Saved, AnotherBetween, Threads
  <1>10. ASSUME NEW n \in Members \ {m} PROVE Saved(n)'
    BY <1>3, <1>6, <1>7, <1>8, <1>10 DEF SaveInv, Saved, Threads
  <1> QED
    BY <1>5, <1>9, <1>10 DEF SaveInv

(* Every step preserves the invariant, one case per action of Next.        *)
LEMMA NextSaves ==
    ASSUME SaveInv, [AllocationNext]_allocationVars
    PROVE  SaveInv'
  <1>1. ASSUME NEW w \in Workers, NEW m \in Members, NEW g \in BOOLEAN, Request(w, m, g)
        PROVE  SaveInv'
    <2>1. w \in Threads /\ thread[w].pc = "idle"
      BY <1>1 DEF Threads, Request, Idle
    <2>2. \E r : thread' = [thread EXCEPT ![w] = [pc |-> "write", m |-> m, rec |-> r]]
      BY Zenon, <1>1 DEF Request
    <2>3. /\ \E r : thread'[w] = [pc |-> "write", m |-> m, rec |-> r]
          /\ thread' = [thread EXCEPT ![w] = thread'[w]]
      BY Zenon, <2>1, <2>2 DEF SaveInv, Functions
    <2>4. Shape(thread'[w]) /\ thread'[w].pc = "write"
      BY <2>3, WriteShape, Zenon
    <2>5. UNCHANGED <<mem, file, torn>>
      BY <1>1 DEF Request
    <2> QED
      BY <2>1, <2>3, <2>4, <2>5, Aside
  <1>2. ASSUME NEW m \in Members, NEW auth \in BOOLEAN, PostMember(m, auth)
        PROVE  SaveInv'
    <2>1. "api" \in Threads /\ thread["api"].pc = "idle"
      BY <1>2 DEF Threads, PostMember, Idle
    <2>2. UNCHANGED <<mem, file, torn>>
      BY <1>2 DEF PostMember
    <2>3. CASE thread' = thread
      BY <2>2, <2>3, NothingMoves
    <2>4. CASE thread' # thread
      <3>1. \E r : thread' = [thread EXCEPT !["api"] = [pc |-> "write", m |-> m, rec |-> r]]
        BY Zenon, <1>2, <2>4 DEF PostMember
      <3>2. /\ \E r : thread'["api"] = [pc |-> "write", m |-> m, rec |-> r]
            /\ thread' = [thread EXCEPT !["api"] = thread'["api"]]
        BY Zenon, <2>1, <3>1 DEF SaveInv, Functions
      <3>3. Shape(thread'["api"]) /\ thread'["api"].pc = "write"
        BY <3>2, WriteShape, Zenon
      <3> QED
        BY <2>1, <2>2, <3>2, <3>3, Aside
    <2> QED
      BY <2>3, <2>4
  <1>3. ASSUME NEW t \in Threads, RecomputeSummaryInfo(t)
        PROVE  SaveInv'
    <2>1. thread[t].pc = "note" /\ thread' = [thread EXCEPT ![t] = Idle]
          /\ UNCHANGED <<mem, file, torn>>
      BY <1>3 DEF RecomputeSummaryInfo
    <2>2. thread'[t] = Idle
      BY <2>1 DEF SaveInv, Functions
    <2>3. Shape(thread'[t]) /\ thread'[t].pc \notin {"store", "erase"}
      BY <2>2 DEF Shape, Idle
    <2>4. thread' = [thread EXCEPT ![t] = thread'[t]] /\ thread[t].pc \notin {"store", "erase"}
      BY Zenon, <2>1, <2>2
    <2> QED
      BY Zenon, <2>1, <2>3, <2>4, Aside
  <1>4. ASSUME NEW t \in Threads, Store(t)
        PROVE  SaveInv'
    <2>1. Shape(thread[t]) /\ thread[t].pc = "store"
      BY <1>4 DEF SaveInv, Functions, Store
    <2>2. thread[t].m \in Members
      BY <2>1, HasMember
    <2>3. PICK m \in Members : m = thread[t].m
      BY <2>2
    <2>4. Between(t, m) /\ Intends(t) = thread[t].rec
      BY <2>1, <2>3 DEF Between, Intends
    <2>5. thread'[t] = [pc |-> "note"]
      BY <1>4 DEF Store, SaveInv, Functions
    <2>6. /\ thread' = [thread EXCEPT ![t] = thread'[t]]
          /\ mem' = [mem EXCEPT ![m] = Intends(t)] /\ UNCHANGED <<file, torn>>
      BY Zenon, <1>4, <2>3, <2>4, <2>5 DEF Store
    <2>7. Shape(thread'[t]) /\ thread'[t].pc \notin {"store", "erase"}
      BY <2>5 DEF Shape
    <2> QED
      BY Zenon, <2>4, <2>6, <2>7, StoreSaves
  <1>5. CASE Erase
    <2>1. "api" \in Threads /\ Shape(thread["api"]) /\ thread["api"].pc = "erase"
      BY <1>5 DEF SaveInv, Functions, Erase, Threads
    <2>2. thread["api"].m \in Members
      BY <2>1, HasMember
    <2>3. PICK m \in Members : m = thread["api"].m
      BY <2>2
    <2>4. Between("api", m) /\ Intends("api") = None
      BY <2>1, <2>3 DEF Between, Intends
    <2>5. thread'["api"] = Idle
      BY <1>5, <2>1 DEF Erase, SaveInv, Functions
    <2>6. /\ thread' = [thread EXCEPT !["api"] = thread'["api"]]
          /\ mem' = [mem EXCEPT ![m] = Intends("api")] /\ UNCHANGED <<file, torn>>
      BY Zenon, <1>5, <2>3, <2>4, <2>5 DEF Erase
    <2>7. Shape(thread'["api"]) /\ thread'["api"].pc \notin {"store", "erase"}
      BY <2>5 DEF Shape, Idle
    <2> QED
      BY Zenon, <2>1, <2>4, <2>6, <2>7, StoreSaves
  <1>6. CASE TakeToDo \/ Summarize \/ UNCHANGED allocationVars
    BY <1>6, NothingMoves DEF TakeToDo, Summarize, allocationVars
  <1> QED
    BY <1>1, <1>2, <1>3, <1>4, <1>5, <1>6, WriteRawSaves, DeleteSaves DEF AllocationNext

(* What saveNetworkMember() and eraseNetworkMember() promise without a     *)
(* lock over both changes: file and record agree once nobody is between    *)
(* them, whatever the threads, unless a write failed or saves overlapped.  *)
THEOREM FileAlwaysFollows == AllocationSpec => []FileFollows
  <1>1. SaveInv => FileFollows
    BY DEF SaveInv, Saved, FileFollows
  <1> QED
    BY <1>1, InitSaved, NextSaves, PTL DEF AllocationSpec

-----------------------------------------------------------------------------
(* Assignments that clash                                                  *)

IsRecord(r) == r = [auth |-> r.auth, ips |-> r.ips]

(* t has a copy of m's record that it is about to save.                    *)
Carries(t, m) == thread[t].pc \in {"write", "store"} /\ thread[t].m = m

(* m's record, or a copy on its way to become it, has the address.         *)
Has(m, ip) ==
    ip \in mem[m].ips \/ \E t \in Threads : Carries(t, m) /\ ip \in thread[t].rec.ips

(* A member that nobody put out is authorized wherever its record is.      *)
Stays(m) ==
    /\ IsRecord(mem[m]) /\ mem[m].auth = TRUE
    /\ \A t \in Threads : Carries(t, m) => IsRecord(thread[t].rec) /\ thread[t].rec.auth = TRUE
    /\ \A t \in Threads : thread[t].pc = "erase" => thread[t].m # m

(* The summary is right, or somebody is about to see to it.                *)
Summed ==
    todo \/ summing \/ (\E t \in Threads : thread[t].pc = "note") \/ allocated = AllocatedIps

(* Of two members that last got an address when nothing else was going on, *)
(* one has lost it.                                                        *)
Apart ==
    \A m, n \in Members \ lapsed : \A ip :
        m # n /\ <<m, ip>> \in calm /\ <<n, ip>> \in calm => ~(Has(m, ip) /\ Has(n, ip))

ClashInv == (\A m \in Members \ lapsed : Stays(m)) /\ Summed /\ Apart

(* A set of numbers has a least one.                                       *)
LEMMA LeastOf ==
    ASSUME NEW S \in SUBSET Nat, S # {}
    PROVE  \E x \in S : \A y \in S : x <= y
  <1>1. PICK x \in S : \A y \in S : ~(<<y, x>> \in OpToRel(<, Nat))
    BY NatLessThanWellFounded, WFMin, Zenon
  <1>2. ASSUME NEW y \in S PROVE x <= y
    <2>1. x \in Nat /\ y \in Nat
      BY Zenon
    <2>2. y < x => <<y, x>> \in OpToRel(<, Nat)
      BY <2>1 DEF OpToRel
    <2>3. ~(y < x)
      BY Zenon, <1>1, <2>2
    <2> QED
      BY <2>1, <2>3
  <1> QED
    BY Zenon, <1>2

(* The search never comes up with an address that is taken.                *)
LEMMA NotTaken ==
    ASSUME NEW m, NEW taken
    PROVE  \A ip \in AutoAssigned(m, taken) : ip \notin taken
  <1> DEFINE having == {p \in DOMAIN Pools : Found(Pools[p], m, taken) # {}}
             p == CHOOSE q \in having : \A o \in having : q <= o
             k == CHOOSE j \in Found(Pools[p], m, taken) :
                     \A i \in Found(Pools[p], m, taken) : j <= i
  <1>1. CASE having = {}
    BY Zenon, <1>1 DEF AutoAssigned
  <1>2. CASE having # {}
    <2>1. having \in SUBSET Nat
      BY AllocationAssumption
    <2>2. \E q \in having : \A o \in having : q <= o
      BY Zenon, <1>2, <2>1, LeastOf
    <2>3. p \in having
      BY Zenon, <2>2
    <2> HIDE DEF p
    <2>4. Pools[p].start \in Nat /\ Pools[p].end \in Nat
      <3>1. p \in DOMAIN Pools
        BY Zenon, <2>3
      <3>2. PICK q : q = p
        OBVIOUS
      <3>3. q \in 1..Len(Pools)
        BY <3>1, <3>2, AllocationAssumption
      <3>s. PICK S : S = [start : Nat, end : Nat]
        BY Zenon
      <3>p. Pools \in Seq(S)
        BY Zenon, <3>s, AllocationAssumption
      <3>4. Pools[q] \in [start : Nat, end : Nat]
        <4>1. Pools[q] \in S
          BY <3>3, <3>p
        <4> QED
          BY Zenon, <3>s, <4>1
      <3>5. Pools[q].start \in Nat /\ Pools[q].end \in Nat
        BY <3>4
      <3> QED
        BY Zenon, <3>2, <3>5
    <2>5. Found(Pools[p], m, taken) \in SUBSET Nat
      BY <2>4 DEF Found, Trials
    <2>6. \E j \in Found(Pools[p], m, taken) : \A i \in Found(Pools[p], m, taken) : j <= i
      BY Zenon, <2>3, <2>5, LeastOf
    <2>7. k \in Found(Pools[p], m, taken)
      BY Zenon, <2>6
    <2>8. Trial(Pools[p], m, k) \notin taken
      BY Zenon, <2>7 DEF Found, Usable
    <2>9. AutoAssigned(m, taken) = {Trial(Pools[p], m, k)}
      BY Zenon, <1>2 DEF AutoAssigned, p
    <2> QED
      BY Zenon, <2>8, <2>9
  <1> QED
    BY <1>1, <1>2

-----------------------------------------------------------------------------
(* A step of one thread: what it may do to the records and their copies.   *)
LEMMA StaysAfter ==
    ASSUME Functions, NEW t \in Threads, thread' = [thread EXCEPT ![t] = thread'[t]],
           lapsed \subseteq lapsed', \A n \in Members \ lapsed : Stays(n),
           \A n \in Members \ lapsed' :
             /\ IsRecord(mem'[n]) /\ mem'[n].auth = TRUE
             /\ thread'[t].pc \in {"write", "store"} /\ thread'[t].m = n =>
                  IsRecord(thread'[t].rec) /\ thread'[t].rec.auth = TRUE
             /\ thread'[t].pc = "erase" => thread'[t].m # n
    PROVE  \A n \in Members \ lapsed' : Stays(n)'
  <1>1. \A u \in Threads \ {t} : thread'[u] = thread[u]
    BY DEF Functions
  <1>2. ASSUME NEW n \in Members \ lapsed', NEW u \in Threads
        PROVE  /\ Carries(u, n)' => IsRecord(thread'[u].rec) /\ thread'[u].rec.auth = TRUE
               /\ thread'[u].pc = "erase" => thread'[u].m # n
    <2>1. CASE u = t
      BY Zenon, <1>2, <2>1 DEF Carries
    <2>2. CASE u # t
      <3>1. thread'[u] = thread[u] /\ Stays(n)
        BY Zenon, <1>1, <2>2
      <3> QED
        BY Zenon, <3>1 DEF Stays, Carries
    <2> QED
      BY Zenon, <2>1, <2>2
  <1> QED
    BY Zenon, <1>2 DEF Stays, IsRecord, Threads

(* An address that a step of t brings to a member was on its way to it.    *)
LEMMA HasAfter ==
    ASSUME Functions, NEW t \in Threads, thread' = [thread EXCEPT ![t] = thread'[t]],
           NEW n, NEW ip, ip \in mem'[n].ips => Has(n, ip),
           thread'[t].pc \in {"write", "store"} /\ thread'[t].m = n /\ ip \in thread'[t].rec.ips =>
             Has(n, ip)
    PROVE  Has(n, ip)' => Has(n, ip)
  <1>1. \A u \in Threads \ {t} : thread'[u] = thread[u]
    BY DEF Functions
  <1>2. ASSUME NEW u \in Threads, Carries(u, n)', ip \in thread'[u].rec.ips PROVE Has(n, ip)
    <2>1. CASE u = t
      BY Zenon, <1>2, <2>1 DEF Carries
    <2>2. CASE u # t
      BY Zenon, <1>1, <1>2, <2>2 DEF Carries, Has
    <2> QED
      BY <2>1, <2>2
  <1> QED
    BY Zenon, <1>2 DEF Has, Threads

(* Steps that bring no calm address to a member keep them apart.           *)
LEMMA ApartAfter ==
    ASSUME Apart, lapsed \subseteq lapsed', calm' \subseteq calm,
           \A n \in Members \ lapsed' : \A ip : <<n, ip>> \in calm' => (Has(n, ip)' => Has(n, ip))
    PROVE  Apart'
  BY Zenon DEF Apart

(* A thread that neither takes a copy nor saves one changes no assignment. *)
LEMMA ClashAside ==
    ASSUME SaveInv, ClashInv, NEW t \in Threads, thread' = [thread EXCEPT ![t] = thread'[t]],
           thread'[t].pc \notin {"write", "store", "erase"}, UNCHANGED <<mem, calm, lapsed>>, Summed'
    PROVE  ClashInv'
  <1>1. Functions /\ (\A n \in Members \ lapsed : Stays(n)) /\ Apart
    BY Zenon DEF SaveInv, ClashInv
  <1>2. \A n \in Members \ lapsed' :
          /\ IsRecord(mem'[n]) /\ mem'[n].auth = TRUE
          /\ thread'[t].pc \in {"write", "store"} /\ thread'[t].m = n =>
               IsRecord(thread'[t].rec) /\ thread'[t].rec.auth = TRUE
          /\ thread'[t].pc = "erase" => thread'[t].m # n
    BY Zenon, <1>1 DEF Stays, IsRecord
  <1>3. \A n \in Members \ lapsed' : Stays(n)'
    BY Zenon, <1>1, <1>2, StaysAfter
  <1>4. ASSUME NEW n, NEW ip PROVE Has(n, ip)' => Has(n, ip)
    <2>1. ip \in mem'[n].ips => Has(n, ip)
      BY Zenon DEF Has
    <2> QED
      BY Zenon, <1>1, <2>1, HasAfter
  <1>5. Apart'
    BY Zenon, <1>1, <1>4, ApartAfter
  <1> QED
    BY Zenon, <1>3, <1>5 DEF ClashInv

(* A request: the address it adds is no longer calm, or is nobody's.       *)
LEMMA RequestClash ==
    ASSUME SaveInv, ClashInv, NEW w \in Workers, NEW m \in Members, NEW g \in BOOLEAN, Request(w, m, g)
    PROVE  ClashInv'
  <1> DEFINE old == IF mem[m] = None THEN Record(FALSE, {}) ELSE mem[m]
             needs == old.auth /\ ~\E ip \in old.ips : Managed(ip)
  <1>0. PICK new : new = (IF needs THEN AutoAssigned(m, allocated) ELSE {})
    BY Zenon
  <1>o. PICK o : o = old
    BY Zenon
  <1>r. PICK rec : rec = [o EXCEPT !.ips = @ \cup new]
    BY Zenon
  <1>1. Functions /\ (\A n \in Members \ lapsed : Stays(n)) /\ Summed /\ Apart /\ w \in Threads
    BY Zenon DEF SaveInv, ClashInv, Threads
  <1>2. /\ thread[w] = Idle
        /\ thread' = [thread EXCEPT ![w] = [pc |-> "write", m |-> m, rec |-> rec]]
        /\ calm' = IF Quiet THEN calm \cup {<<m, ip>> : ip \in new} ELSE calm \ {<<m, ip>> : ip \in new}
        /\ UNCHANGED <<mem, allocated, todo, summing, lapsed>>
    BY Zenon, <1>0, <1>o, <1>r DEF Request
  <1>3. /\ thread'[w] = [pc |-> "write", m |-> m, rec |-> rec]
        /\ thread' = [thread EXCEPT ![w] = thread'[w]]
        /\ \A u \in Threads \ {w} : thread'[u] = thread[u]
    BY Zenon, <1>1, <1>2 DEF Functions
  <1>4. thread'[w].pc = "write" /\ thread'[w].m = m /\ thread'[w].rec = rec
    BY <1>3
  <1>5. ASSUME m \notin lapsed PROVE IsRecord(rec) /\ rec.auth = TRUE /\ rec.ips = mem[m].ips \cup new
    <2>1. IsRecord(mem[m]) /\ mem[m].auth = TRUE
      BY Zenon, <1>1, <1>5 DEF Stays
    <2>2. mem[m] # None
      BY <2>1 DEF IsRecord, None
    <2>x. PICK x : x = mem[m].ips
      OBVIOUS
    <2>3. o = [auth |-> TRUE, ips |-> x]
      BY Zenon, <1>o, <2>1, <2>2, <2>x DEF IsRecord
    <2>4. rec = [auth |-> TRUE, ips |-> x \cup new]
      BY Zenon, <1>r, <2>3
    <2>5. IsRecord(rec) /\ rec.auth = TRUE /\ rec.ips = x \cup new
      BY <2>4 DEF IsRecord
    <2> QED
      BY Zenon, <2>x, <2>5
  <1>6. \A n \in Members \ lapsed' :
          /\ IsRecord(mem'[n]) /\ mem'[n].auth = TRUE
          /\ thread'[w].pc \in {"write", "store"} /\ thread'[w].m = n =>
               IsRecord(thread'[w].rec) /\ thread'[w].rec.auth = TRUE
          /\ thread'[w].pc = "erase" => thread'[w].m # n
    <2>1. thread'[w].pc # "erase"
      BY <1>4
    <2>2. \A n \in Members \ lapsed' : IsRecord(mem'[n]) /\ mem'[n].auth = TRUE
      BY Zenon, <1>1, <1>2 DEF Stays, IsRecord
    <2>3. m \notin lapsed' => IsRecord(thread'[w].rec) /\ thread'[w].rec.auth = TRUE
      BY Zenon, <1>2, <1>4, <1>5 DEF IsRecord
    <2> QED
      BY Zenon, <1>4, <2>1, <2>2, <2>3
  <1>7. \A n \in Members \ lapsed' : Stays(n)'
    BY Zenon, <1>1, <1>2, <1>3, <1>6, StaysAfter
  <1>8. Summed'
    <2>1. AllocatedIps' = AllocatedIps
      BY Zenon, <1>2 DEF AllocatedIps, Authorized
    <2>2. ASSUME NEW t \in Threads, thread[t].pc = "note" PROVE thread'[t].pc = "note"
      <3>1. t # w
        BY <1>2, <2>2 DEF Idle
      <3> QED
        BY Zenon, <1>3, <2>2, <3>1
    <2> QED
      BY Zenon, <1>1, <1>2, <2>1, <2>2 DEF Summed, Threads
  <1>9. ASSUME NEW n \in Members \ lapsed, NEW ip, ~(n = m /\ ip \in new)
        PROVE  Has(n, ip)' => Has(n, ip)
    <2>1. ip \in mem'[n].ips => Has(n, ip)
      BY Zenon, <1>2 DEF Has
    <2>2. thread'[w].pc \in {"write", "store"} /\ thread'[w].m = n /\ ip \in thread'[w].rec.ips => Has(n, ip)
      BY Zenon, <1>4, <1>5, <1>9 DEF Has
    <2> QED
      BY Zenon, <1>1, <1>3, <2>1, <2>2, HasAfter
  <1>10. Apart'
    <2>1. CASE ~Quiet
      <3>1. \A n, ip : <<n, ip>> \in calm' => <<n, ip>> \in calm /\ ~(n = m /\ ip \in new)
        BY Zenon, <1>2, <2>1
      <3> QED
        BY Zenon, <1>1, <1>2, <1>9, <3>1 DEF Apart
    <2>2. CASE Quiet
      <3>1. allocated = AllocatedIps
        BY <1>1, <2>2 DEF Quiet, Summed, Idle
      <3>2. \A ip \in new : ip \notin AllocatedIps
        BY Zenon, <1>0, <3>1, NotTaken
      <3>3. ASSUME NEW n \in Members \ lapsed, NEW ip, Has(n, ip) PROVE ip \in AllocatedIps
        <4>1. \A t \in Threads : ~Carries(t, n)
          BY <2>2 DEF Quiet, Carries, Idle
        <4>2. ip \in mem[n].ips
          BY Zenon, <3>3, <4>1 DEF Has
        <4>3. IsRecord(mem[n]) /\ mem[n].auth = TRUE
          BY Zenon, <1>1 DEF Stays
        <4>4. mem[n] # None
          BY <4>3 DEF IsRecord, None
        <4>5. n \in Authorized
          BY Zenon, <4>3, <4>4 DEF Authorized
        <4> QED
          BY Zenon, <4>2, <4>5 DEF AllocatedIps
      <3>4. ASSUME NEW n \in Members \ lapsed, NEW ip, n # m PROVE ~(ip \in new /\ Has(n, ip)')
        BY Zenon, <1>9, <3>2, <3>3, <3>4
      <3>5. \A n, ip : <<n, ip>> \in calm' => <<n, ip>> \in calm \/ (n = m /\ ip \in new)
        <4>1. ASSUME NEW n, NEW ip, <<n, ip>> \in calm', <<n, ip>> \notin calm PROVE n = m /\ ip \in new
          <5>1. PICK i \in new : <<n, ip>> = <<m, i>>
            BY Zenon, <1>2, <2>2, <4>1
          <5> QED
            BY <5>1
        <4> QED
          BY Zenon, <4>1
      <3>6. ASSUME NEW n \in Members \ lapsed, NEW k \in Members \ lapsed, NEW ip, n # k,
                   <<n, ip>> \in calm', <<k, ip>> \in calm', Has(n, ip)', Has(k, ip)'
            PROVE  FALSE
        <4>1. ip \notin new
          BY Zenon, <3>4, <3>6
        <4> QED
          BY Zenon, <1>1, <1>9, <3>5, <3>6, <4>1 DEF Apart
      <3> QED
        BY Zenon, <1>2, <3>6 DEF Apart
    <2> QED
      BY Zenon, <2>1, <2>2
  <1> QED
    BY Zenon, <1>7, <1>8, <1>10 DEF ClashInv

(* The API's call: a member it puts out is not looked at any more, a       *)
(* member it lets in keeps what it has.                                    *)
LEMMA PostClash ==
    ASSUME SaveInv, ClashInv, NEW m \in Members, NEW auth \in BOOLEAN, PostMember(m, auth)
    PROVE  ClashInv'
  <1> DEFINE old == IF mem[m] = None THEN Record(FALSE, {}) ELSE mem[m]
  <1>o. PICK o : o = old
    BY Zenon
  <1>r. PICK rec : rec = [o EXCEPT !.auth = auth]
    BY Zenon
  <1>0. PICK t : t = "api"
    OBVIOUS
  <1>1. Functions /\ (\A n \in Members \ lapsed : Stays(n)) /\ Summed /\ Apart /\ t \in Threads
    BY Zenon, <1>0 DEF SaveInv, ClashInv, Threads
  <1>2. /\ thread[t] = Idle
        /\ thread' = thread \/ thread' = [thread EXCEPT ![t] = [pc |-> "write", m |-> m, rec |-> rec]]
        /\ UNCHANGED <<mem, allocated, todo, summing, calm>>
        /\ lapsed \subseteq lapsed' /\ (m \notin lapsed' => auth = TRUE)
    BY Zenon, <1>0, <1>o, <1>r DEF PostMember
  <1>3. /\ thread' = [thread EXCEPT ![t] = thread'[t]]
        /\ thread'[t] = Idle \/ thread'[t] = [pc |-> "write", m |-> m, rec |-> rec]
        /\ \A u \in Threads \ {t} : thread'[u] = thread[u]
    BY <1>1, <1>2 DEF Functions
  <1>4. \/ thread'[t].pc = "idle"
        \/ thread'[t].pc = "write" /\ thread'[t].m = m /\ thread'[t].rec = rec
    BY <1>3 DEF Idle
  <1>5. ASSUME m \notin lapsed' PROVE IsRecord(rec) /\ rec.auth = TRUE /\ rec.ips = mem[m].ips
    <2>1. IsRecord(mem[m]) /\ mem[m].auth = TRUE /\ auth = TRUE
      BY ZenonT(30), <1>1, <1>2, <1>5 DEF Stays
    <2>2. mem[m] # None
      BY <2>1 DEF IsRecord, None
    <2>x. PICK x : x = mem[m].ips
      OBVIOUS
    <2>3. o = [auth |-> TRUE, ips |-> x]
      BY Zenon, <1>o, <2>1, <2>2, <2>x DEF IsRecord
    <2>4. rec = [auth |-> TRUE, ips |-> x]
      BY Zenon, <1>r, <2>1, <2>3
    <2>5. IsRecord(rec) /\ rec.auth = TRUE /\ rec.ips = x
      BY <2>4 DEF IsRecord
    <2> QED
      BY Zenon, <2>x, <2>5
  <1>6. \A n \in Members \ lapsed' :
          /\ IsRecord(mem'[n]) /\ mem'[n].auth = TRUE
          /\ thread'[t].pc \in {"write", "store"} /\ thread'[t].m = n =>
               IsRecord(thread'[t].rec) /\ thread'[t].rec.auth = TRUE
          /\ thread'[t].pc = "erase" => thread'[t].m # n
    <2>1. thread'[t].pc # "erase" /\ (thread'[t].pc \in {"write", "store"} =>
             thread'[t].m = m /\ thread'[t].rec = rec)
      BY <1>4
    <2>2. \A n \in Members \ lapsed' : IsRecord(mem'[n]) /\ mem'[n].auth = TRUE
      BY Zenon, <1>1, <1>2 DEF Stays, IsRecord
    <2> QED
      BY Zenon, <1>5, <2>1, <2>2 DEF IsRecord
  <1>7. \A n \in Members \ lapsed' : Stays(n)'
    BY Zenon, <1>1, <1>2, <1>3, <1>6, StaysAfter
  <1>8. Summed'
    <2>1. AllocatedIps' = AllocatedIps
      BY ZenonT(30), <1>2 DEF AllocatedIps, Authorized
    <2>2. ASSUME NEW u \in Threads, thread[u].pc = "note" PROVE thread'[u].pc = "note"
      <3>1. u # t
        BY <1>2, <2>2 DEF Idle
      <3> QED
        BY Zenon, <1>3, <2>2, <3>1
    <2> QED
      BY Zenon, <1>1, <1>2, <2>1, <2>2 DEF Summed, Threads
  <1>9. ASSUME NEW n \in Members \ lapsed', NEW ip PROVE Has(n, ip)' => Has(n, ip)
    <2>1. ip \in mem'[n].ips => Has(n, ip)
      BY Zenon, <1>2 DEF Has
    <2>2. ASSUME thread'[t].pc \in {"write", "store"}, thread'[t].m = n, ip \in thread'[t].rec.ips
          PROVE  Has(n, ip)
      <3>1. n = m /\ thread'[t].rec = rec
        BY <1>4, <2>2
      <3> QED
        BY Zenon, <1>5, <2>2, <3>1 DEF Has
    <2> QED
      BY Zenon, <1>1, <1>3, <2>1, <2>2, HasAfter
  <1>10. Apart'
    BY Zenon, <1>1, <1>2, <1>9, ApartAfter
  <1> QED
    BY Zenon, <1>7, <1>8, <1>10 DEF ClashInv

(* eraseNetworkMember(): from here on the member is not looked at.         *)
LEMMA DeleteClash ==
    ASSUME SaveInv, ClashInv, NEW m \in Members, DeleteMember(m)
    PROVE  ClashInv'
  <1>0. PICK t : t = "api"
    OBVIOUS
  <1>1. Functions /\ (\A n \in Members \ lapsed : Stays(n)) /\ Summed /\ Apart /\ t \in Threads
    BY Zenon, <1>0 DEF SaveInv, ClashInv, Threads
  <1>2. /\ thread[t] = Idle
        /\ thread' = [thread EXCEPT ![t] = [pc |-> "erase", m |-> m]]
        /\ UNCHANGED <<mem, allocated, todo, summing, calm>>
        /\ lapsed' = lapsed \cup {m}
    BY Zenon, <1>0 DEF DeleteMember
  <1>3. /\ thread' = [thread EXCEPT ![t] = thread'[t]]
        /\ thread'[t] = [pc |-> "erase", m |-> m]
        /\ \A u \in Threads \ {t} : thread'[u] = thread[u]
    BY <1>1, <1>2 DEF Functions
  <1>4. thread'[t].pc = "erase" /\ thread'[t].m = m
    BY <1>3
  <1>5. thread'[t].pc \notin {"write", "store"}
    BY <1>4
  <1>6. \A n \in Members \ lapsed' :
          /\ IsRecord(mem'[n]) /\ mem'[n].auth = TRUE
          /\ thread'[t].pc \in {"write", "store"} /\ thread'[t].m = n =>
               IsRecord(thread'[t].rec) /\ thread'[t].rec.auth = TRUE
          /\ thread'[t].pc = "erase" => thread'[t].m # n
    BY Zenon, <1>1, <1>2, <1>4, <1>5 DEF Stays, IsRecord
  <1>7. \A n \in Members \ lapsed' : Stays(n)'
    BY Zenon, <1>1, <1>2, <1>3, <1>6, StaysAfter
  <1>8. Summed'
    <2>1. AllocatedIps' = AllocatedIps
      BY Zenon, <1>2 DEF AllocatedIps, Authorized
    <2>2. ASSUME NEW u \in Threads, thread[u].pc = "note" PROVE thread'[u].pc = "note"
      <3>1. u # t
        BY <1>2, <2>2 DEF Idle
      <3> QED
        BY Zenon, <1>3, <2>2, <3>1
    <2> QED
      BY Zenon, <1>1, <1>2, <2>1, <2>2 DEF Summed, Threads
  <1>9. ASSUME NEW n, NEW ip PROVE Has(n, ip)' => Has(n, ip)
    <2>1. ip \in mem'[n].ips => Has(n, ip)
      BY Zenon, <1>2 DEF Has
    <2> QED
      BY Zenon, <1>1, <1>3, <1>5, <2>1, HasAfter
  <1>10. Apart'
    BY Zenon, <1>1, <1>2, <1>9, ApartAfter
  <1> QED
    BY Zenon, <1>7, <1>8, <1>10 DEF ClashInv

(* The record in memory goes; its member is not looked at.                 *)
LEMMA EraseClash ==
    ASSUME SaveInv, ClashInv, Erase
    PROVE  ClashInv'
  <1>0. PICK t : t = "api"
    OBVIOUS
  <1>1. Functions /\ (\A n \in Members \ lapsed : Stays(n)) /\ Summed /\ Apart /\ t \in Threads
    BY Zenon, <1>0 DEF SaveInv, ClashInv, Threads
  <1>2. /\ thread[t].pc = "erase"
        /\ mem' = [mem EXCEPT ![thread[t].m] = None]
        /\ todo' = (todo \/ mem[thread[t].m] # None)
        /\ thread' = [thread EXCEPT ![t] = Idle]
        /\ UNCHANGED <<allocated, summing, calm, lapsed>>
    BY Zenon, <1>0 DEF Erase
  <1>m. PICK m : m = thread[t].m
    OBVIOUS
  <1>a. m \in Members
    BY Zenon, <1>1, <1>2, <1>m, HasMember DEF Functions
  <1>3. /\ thread' = [thread EXCEPT ![t] = thread'[t]] /\ thread'[t] = Idle
        /\ \A u \in Threads \ {t} : thread'[u] = thread[u]
    BY <1>1, <1>2 DEF Functions
  <1>4. mem'[m] = None /\ \A n \in Members \ {m} : mem'[n] = mem[n]
    BY <1>1, <1>2, <1>a, <1>m DEF Functions
  <1>5. thread'[t].pc \notin {"write", "store", "erase"}
    BY <1>3 DEF Idle
  <1>6. m \in lapsed
    BY Zenon, <1>1, <1>2, <1>a, <1>m DEF Stays
  <1>7. \A n \in Members \ lapsed' : n # m /\ mem'[n] = mem[n]
    BY Zenon, <1>2, <1>4, <1>6
  <1>8. \A n \in Members \ lapsed' :
          /\ IsRecord(mem'[n]) /\ mem'[n].auth = TRUE
          /\ thread'[t].pc \in {"write", "store"} /\ thread'[t].m = n =>
               IsRecord(thread'[t].rec) /\ thread'[t].rec.auth = TRUE
          /\ thread'[t].pc = "erase" => thread'[t].m # n
    BY Zenon, <1>1, <1>2, <1>5, <1>7 DEF Stays, IsRecord
  <1>9. \A n \in Members \ lapsed' : Stays(n)'
    BY Zenon, <1>1, <1>2, <1>3, <1>8, StaysAfter
  <1>10. Summed'
    <2>1. CASE mem[m] # None
      BY Zenon, <1>2, <1>m, <2>1 DEF Summed
    <2>2. CASE mem[m] = None
      <3>1. \A n \in Members : mem'[n] = mem[n]
        BY Zenon, <1>4, <2>2
      <3>2. Authorized' = Authorized
        BY <3>1 DEF Authorized
      <3>3. AllocatedIps' = AllocatedIps
        BY <3>1, <3>2 DEF AllocatedIps, Authorized
      <3>4. ASSUME NEW u \in Threads, thread[u].pc = "note" PROVE thread'[u].pc = "note"
        <4>1. u # t
          BY <1>2, <3>4
        <4> QED
          BY Zenon, <1>3, <3>4, <4>1
      <3> QED
        BY Zenon, <1>1, <1>2, <3>3, <3>4 DEF Summed, Threads
    <2> QED
      BY Zenon, <2>1, <2>2
  <1>11. ASSUME NEW n \in Members \ lapsed', NEW ip PROVE Has(n, ip)' => Has(n, ip)
    <2>1. ip \in mem'[n].ips => Has(n, ip)
      BY Zenon, <1>7 DEF Has
    <2> QED
      BY Zenon, <1>1, <1>3, <1>5, <2>1, HasAfter
  <1>12. Apart'
    BY Zenon, <1>1, <1>2, <1>11, ApartAfter
  <1> QED
    BY Zenon, <1>9, <1>10, <1>12 DEF ClashInv

(* writeRaw() changes the file; the copy is still on its way.              *)
LEMMA WriteClash ==
    ASSUME SaveInv, ClashInv, NEW t \in Threads, NEW ok \in BOOLEAN, WriteRaw(t, ok)
    PROVE  ClashInv'
  <1>m. PICK m : m = thread[t].m
    OBVIOUS
  <1>r. PICK r : r = thread[t].rec
    OBVIOUS
  <1>1. Functions /\ (\A n \in Members \ lapsed : Stays(n)) /\ Summed /\ Apart
    BY Zenon DEF SaveInv, ClashInv
  <1>2. /\ thread[t].pc = "write"
        /\ thread' = [thread EXCEPT ![t] = [pc |-> "store", m |-> m, rec |-> r]]
        /\ UNCHANGED <<mem, allocated, todo, summing, calm, lapsed>>
    BY Zenon, <1>m, <1>r DEF WriteRaw
  <1>3. /\ thread' = [thread EXCEPT ![t] = thread'[t]]
        /\ thread'[t] = [pc |-> "store", m |-> m, rec |-> r]
        /\ \A u \in Threads \ {t} : thread'[u] = thread[u]
    BY <1>1, <1>2 DEF Functions
  <1>4. thread'[t].pc = "store" /\ thread'[t].m = m /\ thread'[t].rec = r
    BY <1>3
  <1>5. thread'[t].pc # "erase" /\ Carries(t, m)
    BY <1>2, <1>4, <1>m DEF Carries
  <1>6. \A n \in Members \ lapsed' :
          /\ IsRecord(mem'[n]) /\ mem'[n].auth = TRUE
          /\ thread'[t].pc \in {"write", "store"} /\ thread'[t].m = n =>
               IsRecord(thread'[t].rec) /\ thread'[t].rec.auth = TRUE
          /\ thread'[t].pc = "erase" => thread'[t].m # n
    <2>1. m \in Members \ lapsed => IsRecord(r) /\ r.auth = TRUE
      BY Zenon, <1>1, <1>5, <1>r DEF Stays
    <2>2. \A n \in Members \ lapsed' : IsRecord(mem'[n]) /\ mem'[n].auth = TRUE
      BY Zenon, <1>1, <1>2 DEF Stays, IsRecord
    <2> QED
      BY Zenon, <1>2, <1>4, <1>5, <2>1, <2>2
  <1>7. \A n \in Members \ lapsed' : Stays(n)'
    BY Zenon, <1>1, <1>2, <1>3, <1>6, StaysAfter
  <1>8. Summed'
    <2>1. AllocatedIps' = AllocatedIps
      BY Zenon, <1>2 DEF AllocatedIps, Authorized
    <2>2. ASSUME NEW u \in Threads, thread[u].pc = "note" PROVE thread'[u].pc = "note"
      <3>1. u # t
        BY <1>2, <2>2
      <3> QED
        BY Zenon, <1>3, <2>2, <3>1
    <2> QED
      BY Zenon, <1>1, <1>2, <2>1, <2>2 DEF Summed, Threads
  <1>9. ASSUME NEW n, NEW ip PROVE Has(n, ip)' => Has(n, ip)
    <2>1. ip \in mem'[n].ips => Has(n, ip)
      BY Zenon, <1>2 DEF Has
    <2>2. thread'[t].pc \in {"write", "store"} /\ thread'[t].m = n /\ ip \in thread'[t].rec.ips => Has(n, ip)
      BY Zenon, <1>4, <1>5, <1>r DEF Has
    <2> QED
      BY Zenon, <1>1, <1>3, <2>1, <2>2, HasAfter
  <1>10. Apart'
    BY Zenon, <1>1, <1>2, <1>9, ApartAfter
  <1> QED
    BY Zenon, <1>7, <1>8, <1>10 DEF ClashInv

(* The copy becomes the record, whatever the record was meanwhile.         *)
LEMMA StoreClash ==
    ASSUME SaveInv, ClashInv, NEW t \in Threads, Store(t)
    PROVE  ClashInv'
  <1>m. PICK m : m = thread[t].m
    OBVIOUS
  <1>1. Functions /\ (\A n \in Members \ lapsed : Stays(n)) /\ Summed /\ Apart
    BY Zenon DEF SaveInv, ClashInv
  <1>2. /\ thread[t].pc = "store"
        /\ mem' = [mem EXCEPT ![m] = thread[t].rec]
        /\ thread' = [thread EXCEPT ![t] = [pc |-> "note"]]
        /\ UNCHANGED <<calm, lapsed>>
    BY Zenon, <1>m DEF Store
  <1>a. m \in Members
    BY Zenon, <1>1, <1>2, <1>m, HasMember DEF Functions
  <1>3. /\ thread' = [thread EXCEPT ![t] = thread'[t]]
        /\ thread'[t] = [pc |-> "note"]
        /\ \A u \in Threads \ {t} : thread'[u] = thread[u]
    BY <1>1, <1>2 DEF Functions
  <1>4. mem'[m] = thread[t].rec /\ \A n \in Members \ {m} : mem'[n] = mem[n]
    BY <1>1, <1>2, <1>a DEF Functions
  <1>5. thread'[t].pc = "note" /\ thread'[t].pc \notin {"write", "store", "erase"}
    BY <1>3
  <1>6. Carries(t, m)
    BY <1>2, <1>m DEF Carries
  <1>7. \A n \in Members \ lapsed' : IsRecord(mem'[n]) /\ mem'[n].auth = TRUE
    <2>1. m \in Members \ lapsed => IsRecord(thread[t].rec) /\ thread[t].rec.auth = TRUE
      BY Zenon, <1>1, <1>6 DEF Stays
    <2>2. \A n \in Members \ lapsed : IsRecord(mem[n]) /\ mem[n].auth = TRUE
      BY Zenon, <1>1 DEF Stays
    <2>3. \A n \in Members \ lapsed : n # m => mem'[n] = mem[n]
      BY Zenon, <1>4
    <2> QED
      BY Zenon, <1>2, <1>4, <2>1, <2>2, <2>3 DEF IsRecord
  <1>8. \A n \in Members \ lapsed' :
          /\ IsRecord(mem'[n]) /\ mem'[n].auth = TRUE
          /\ thread'[t].pc \in {"write", "store"} /\ thread'[t].m = n =>
               IsRecord(thread'[t].rec) /\ thread'[t].rec.auth = TRUE
          /\ thread'[t].pc = "erase" => thread'[t].m # n
    BY Zenon, <1>5, <1>7
  <1>9. \A n \in Members \ lapsed' : Stays(n)'
    BY Zenon, <1>1, <1>2, <1>3, <1>8, StaysAfter
  <1>10. Summed'
    BY Zenon, <1>5 DEF Summed, Threads
  <1>11. ASSUME NEW n \in Members \ lapsed', NEW ip PROVE Has(n, ip)' => Has(n, ip)
    <2>1. ip \in mem'[n].ips => Has(n, ip)
      BY Zenon, <1>4, <1>6 DEF Has
    <2> QED
      BY Zenon, <1>1, <1>3, <1>5, <2>1, HasAfter
  <1>12. Apart'
    BY Zenon, <1>1, <1>2, <1>11, ApartAfter
  <1> QED
    BY Zenon, <1>9, <1>10, <1>12 DEF ClashInv

(* A step that changes no record and no thread leaves all as it is.        *)
LEMMA ClashStill ==
    ASSUME ClashInv, UNCHANGED <<mem, thread, calm, lapsed>>, Summed'
    PROVE  ClashInv'
  <1>1. \A n, ip : Has(n, ip)' <=> Has(n, ip)
    BY Zenon DEF Has, Carries, Threads
  <1>2. Apart'
    BY Zenon, <1>1 DEF Apart, ClashInv
  <1>3. \A n \in Members \ lapsed' : Stays(n)'
    BY Zenon DEF Stays, Carries, IsRecord, Threads, ClashInv
  <1> QED
    BY Zenon, <1>2, <1>3 DEF ClashInv

(* Every step preserves the invariant.                                     *)
LEMMA NextClash ==
    ASSUME SaveInv, ClashInv, [AllocationNext]_allocationVars
    PROVE  ClashInv'
  <1>1. ASSUME NEW t \in Threads, RecomputeSummaryInfo(t) PROVE ClashInv'
    <2>1. thread' = [thread EXCEPT ![t] = Idle] /\ todo' = TRUE /\ UNCHANGED <<mem, calm, lapsed>>
      BY Zenon, <1>1 DEF RecomputeSummaryInfo
    <2>2. thread'[t] = Idle /\ thread' = [thread EXCEPT ![t] = thread'[t]]
      BY <2>1 DEF SaveInv, Functions
    <2>3. thread'[t].pc \notin {"write", "store", "erase"}
      BY <2>2 DEF Idle
    <2>4. Summed'
      BY Zenon, <2>1 DEF Summed
    <2> QED
      BY Zenon, <2>1, <2>2, <2>3, <2>4, ClashAside
  <1>2. CASE TakeToDo
    <2>1. Summed' /\ UNCHANGED <<mem, thread, calm, lapsed>>
      BY Zenon, <1>2 DEF TakeToDo, Summed
    <2> QED
      BY Zenon, <2>1, ClashStill
  <1>3. CASE Summarize
    <2>1. allocated' = AllocatedIps /\ UNCHANGED <<mem, thread, calm, lapsed>>
      BY Zenon, <1>3 DEF Summarize
    <2>2. Summed'
      BY Zenon, <2>1 DEF Summed, AllocatedIps, Authorized
    <2> QED
      BY Zenon, <2>1, <2>2, ClashStill
  <1>4. CASE UNCHANGED allocationVars
    <2>1. UNCHANGED <<mem, thread, calm, lapsed, todo, summing, allocated>>
      BY Zenon, <1>4 DEF allocationVars
    <2>2. Summed'
      BY Zenon, <2>1 DEF ClashInv, Summed, AllocatedIps, Authorized, Threads
    <2> QED
      BY Zenon, <2>1, <2>2, ClashStill
  <1> QED
    BY Zenon, <1>1, <1>2, <1>3, <1>4, RequestClash, PostClash, DeleteClash, EraseClash, WriteClash, StoreClash
       DEF AllocationNext

(* At first nobody has an address.                                         *)
LEMMA InitClash == AllocationInit => ClashInv
  <1> SUFFICES ASSUME AllocationInit PROVE ClashInv
    OBVIOUS
  <1>1. \A t \in Threads : thread[t] = Idle /\ thread[t].pc = "idle"
    BY DEF AllocationInit, Idle
  <1>2. \A n \in Members : mem[n] = [auth |-> TRUE, ips |-> {}]
    BY DEF AllocationInit, Record
  <1>3. \A n \in Members : IsRecord(mem[n]) /\ mem[n].auth = TRUE /\ mem[n].ips = {}
    BY <1>2 DEF IsRecord
  <1>4. \A t \in Threads : thread[t].pc \notin {"write", "store", "erase"}
    BY <1>1
  <1>5. \A n \in Members : Stays(n)
    BY Zenon, <1>3, <1>4 DEF Stays, Carries
  <1>6. AllocatedIps = {}
    BY <1>3 DEF AllocatedIps, Authorized
  <1>7. Summed
    BY Zenon, <1>6 DEF Summed, AllocationInit
  <1>8. Apart
    BY Zenon DEF Apart, AllocationInit
  <1> QED
    BY Zenon, <1>5, <1>7, <1>8 DEF ClashInv

(* What the summary is good for without a lock over reading it and saving  *)
(* the record: two members that stayed authorized share an address only if *)
(* one of the two assignments was made while something was on its way,     *)
(* for any number of members, workers, pools and calls.                    *)
THEOREM ClashesNeedHaste == AllocationSpec => []ClashNeedsHaste
  <1>1. ClashInv => ClashNeedsHaste
    <2> SUFFICES ASSUME ClashInv, NEW m \in Authorized \ lapsed, NEW n \in Authorized \ lapsed, m # n,
                        NEW ip \in mem[m].ips \cap mem[n].ips
                 PROVE  <<m, ip>> \notin calm \/ <<n, ip>> \notin calm
      BY Zenon DEF ClashNeedsHaste
    <2>1. Has(m, ip) /\ Has(n, ip)
      BY Zenon DEF Has
    <2>2. m \in Members \ lapsed /\ n \in Members \ lapsed
      BY Zenon DEF Authorized
    <2> QED
      BY Zenon, <2>1, <2>2 DEF ClashInv, Apart
  <1>2. SaveInv /\ ClashInv /\ [AllocationNext]_allocationVars => SaveInv' /\ ClashInv'
    BY NextSaves, NextClash, Zenon
  <1>3. AllocationInit => SaveInv /\ ClashInv
    BY InitSaved, InitClash, Zenon
  <1> QED
    BY <1>1, <1>2, <1>3, PTL DEF AllocationSpec
=============================================================================
