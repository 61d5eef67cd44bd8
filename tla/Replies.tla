------------------------------ MODULE Replies ------------------------------
(***************************************************************************)
(* Which answers a node waits for, node/Node.hpp: expectReplyTo() notes a  *)
(* packet's number in a ring, expectingReplyTo() looks it up.  A bucket of *)
(* rings has a pointer that any sending thread increments without a lock:  *)
(* reading it and writing it back are two steps.  One bucket is modelled,  *)
(* as the buckets are independent.                                         *)
(***************************************************************************)
EXTENDS Naturals, Sequences

CONSTANTS
    SendThreads,
    RingSize,   \* ZT_EXPECTING_REPLIES_BUCKET_MASK2 + 1
    Pointer,    \* the number of values of a bucket's pointer, a uint8_t
    MaxIds      \* bound: packets sent

(* The pointer wraps where the ring does.                                  *)
ASSUME RepliesAssumption ==
    RingSize \in Nat \ {0} /\ Pointer \in Nat \ {0} /\ Pointer % RingSize = 0

VARIABLES
    ring,       \* _expectingRepliesTo[bucket]
    ptr,        \* _expectingRepliesToBucketPtr[bucket]
    noting,     \* per thread, where it is in expectReplyTo()
    next,       \* the next packet's number; numbers do not repeat
    noted       \* history: the numbers noted, in order, with [id, alone]

repliesVars == <<ring, ptr, noting, next, noted>>

Outside == [pc |-> "idle"]

RepliesInit ==
    /\ ring = [i \in 0..(RingSize - 1) |-> 0]
    /\ ptr = 0
    /\ noting = [t \in SendThreads |-> Outside]
    /\ next = 1
    /\ noted = <<>>

Others(t) == {o \in SendThreads \ {t} : noting[o] # Outside}

(* expectReplyTo(): read the pointer, write it back, write the slot.       *)
Load(t) ==
    /\ noting[t] = Outside /\ next <= MaxIds
    /\ noting' = [o \in SendThreads |->
         IF o = t THEN [pc |-> "increment", id |-> next, at |-> ptr, alone |-> Others(t) = {}]
         ELSE IF noting[o] = Outside THEN Outside
         ELSE [noting[o] EXCEPT !.alone = FALSE]]
    /\ next' = next + 1
    /\ UNCHANGED <<ring, ptr, noted>>

Increment(t) ==
    /\ noting[t].pc = "increment"
    /\ ptr' = (noting[t].at + 1) % Pointer
    /\ noting' = [noting EXCEPT ![t].pc = "write"]
    /\ UNCHANGED <<ring, next, noted>>

BugSlot(i) == i % (RingSize - 1)

Slot(i) == i % RingSize

Write(t) ==
    /\ noting[t].pc = "write"
    /\ ring' = [ring EXCEPT ![Slot(noting[t].at)] = noting[t].id]
    /\ noted' = Append(noted, [id |-> noting[t].id, alone |-> noting[t].alone])
    /\ noting' = [noting EXCEPT ![t] = Outside]
    /\ UNCHANGED <<ptr, next>>

AllNoted == next > MaxIds /\ (\A t \in SendThreads : noting[t] = Outside) /\ UNCHANGED repliesVars

RepliesNext == AllNoted \/ \E t \in SendThreads : Load(t) \/ Increment(t) \/ Write(t)

RepliesSpec == RepliesInit /\ [][RepliesNext]_repliesVars

ExpectingReplyTo(id) == \E i \in DOMAIN ring : ring[i] = id

-----------------------------------------------------------------------------
(* An answer is let through if its request is among the last RingSize of   *)
(* its bucket, provided that no two threads were in expectReplyTo() at once *)
(* since it was noted (nor are now): the pointer's wrap loses none.        *)
RecentExpected ==
    (\A t \in SendThreads : noting[t] = Outside) =>
        \A k \in DOMAIN noted :
            /\ k > Len(noted) - RingSize
            /\ \A j \in k..Len(noted) : noted[j].alone
            => ExpectingReplyTo(noted[k].id)
=============================================================================
