----------------------------- MODULE PeerProofs -----------------------------
(***************************************************************************)
(* What the code relies on about a peer's paths holds for any number of    *)
(* paths and families and whatever the timeouts are; a path in use is kept *)
(* alive whatever the periods are, related as the code's are; and so is a  *)
(* multicast group's list of the peers that subscribe to it.               *)
(***************************************************************************)
EXTENDS PeerPaths, Keepalive, Multicast, FiniteSetTheorems, TLAPS

(* A silenced path that is still in its slot waits there for a packet.     *)
SilencedWaits == \A f \in Families : slot[f].p \in silenced => slot[f].lr = Never

(* The inductive invariant: ResetSilences alone forgets that a silenced    *)
(* path may sit in a slot, and LrMeansPath keeps a reset well-typed.       *)
IInv == TypeOK /\ LrMeansPath /\ RedirectSticks /\ SilencedWaits

(* Ages are numbers, with Never beyond all the others.                     *)
LEMMA AgeFacts ==
  /\ Expiration \in Nat /\ Alive \in Nat
  /\ Old = Expiration + 1 /\ Never = Expiration + 2
  /\ Ages = 0..(Expiration + 2)
  /\ 0 \in Ages /\ Never \in Ages
  BY PathAssumption DEF Old, Never, Ages

(* Growing older keeps an age an age, and never reaches or leaves Never.   *)
LEMMA OlderFacts ==
  ASSUME NEW a \in Ages
  PROVE  Older(a) \in Ages /\ (Older(a) = Never <=> a = Never) /\ Older(a) >= a
  BY AgeFacts DEF Older

(* Initially there are no paths.                                           *)
LEMMA InitIInv == Init => IInv
  BY AgeFacts DEF Init, IInv, TypeOK, Slots, LrMeansPath, RedirectSticks, SilencedWaits

(* A packet directly from the peer preserves the invariant.                *)
LEMMA RecvDirectIInv ==
  ASSUME IInv, NEW p \in Paths, NEW isOk \in BOOLEAN, NEW usable \in BOOLEAN,
         RecvDirect(p, isOk, usable)
  PROVE  IInv'
<1> DEFINE f == Family[p]
           known == slot[f].p = p
           learn == ~known /\ usable /\ Replaceable(p) /\ isOk
<1>1. f \in Families /\ slot[f] \in Slots
  BY PathAssumption DEF IInv, TypeOK
<1>2. /\ lastIn' = [lastIn EXCEPT ![p] = 0]
      /\ silenced' = silenced \ {p} /\ target' = target
      /\ slot' = [slot EXCEPT ![f].lr = IF known \/ learn THEN 0 ELSE @,
                              ![f].p = IF learn THEN p ELSE @]
  BY DEF RecvDirect, Datagram
<1>3. learn => slot[f].sticky > Expiration
  BY DEF Replaceable
<1> HIDE DEF learn
<1>4. /\ slot'[f].lr = (IF known \/ learn THEN 0 ELSE slot[f].lr)
      /\ slot'[f].p = (IF learn THEN p ELSE slot[f].p)
      /\ slot'[f].sticky = slot[f].sticky
      /\ slot'[f] \in Slots
      /\ \A g \in Families \ {f} : slot'[g] = slot[g]
      /\ slot' \in [Families -> Slots]
  BY ZenonT(30), <1>1, <1>2, AgeFacts DEF Slots, IInv, TypeOK
<1>5. known \/ learn => slot'[f].p = p
  BY <1>4
<1>6. lastIn' \in [Paths -> Ages] /\ lastIn'[p] = 0 /\ 0 # Never
      /\ \A q \in Paths : lastIn[q] # Never => lastIn'[q] # Never
  BY <1>2, AgeFacts DEF IInv, TypeOK
<1>7. TypeOK'
  <2>1. \A g \in Families : slot'[g].p # "none" => Family[slot'[g].p] = g
    <3> SUFFICES ASSUME NEW g \in Families, slot'[g].p # "none"
                 PROVE  Family[slot'[g].p] = g
      OBVIOUS
    <3>1. CASE g = f
      BY <1>1, <1>4, <3>1 DEF IInv, TypeOK
    <3>2. CASE g # f
      BY <1>4, <3>2 DEF IInv, TypeOK
    <3> QED BY <3>1, <3>2
  <2> QED BY Zenon, <1>2, <1>4, <1>6, <2>1 DEF IInv, TypeOK
<1>8. LrMeansPath'
  BY <1>1, <1>2, <1>4, <1>5, <1>6, PathAssumption DEF IInv, TypeOK, LrMeansPath
<1>9. RedirectSticks'
  BY <1>1, <1>2, <1>3, <1>4, AgeFacts DEF IInv, TypeOK, Slots, RedirectSticks
<1>10. SilencedWaits'
  BY <1>1, <1>2, <1>4, <1>5 DEF IInv, SilencedWaits
<1> QED BY <1>7, <1>8, <1>9, <1>10 DEF IInv

(* A redirect preserves it.                                                *)
LEMMA RedirectIInv ==
  ASSUME IInv, NEW p \in Paths, Redirect(p)
  PROVE  IInv'
<1> DEFINE f == Family[p]
<1>1. f \in Families /\ slot[f] \in Slots
  BY PathAssumption DEF IInv, TypeOK
<1>2. /\ slot'[f].p = p /\ slot'[f].sticky = 0 /\ slot'[f].lr = slot[f].lr
      /\ slot'[f] \in Slots
      /\ \A g \in Families \ {f} : slot'[g] = slot[g]
      /\ slot' \in [Families -> Slots]
      /\ target'[f] = p /\ (\A g \in Families \ {f} : target'[g] = target[g])
      /\ target' \in [Families -> Paths \cup {"none"}]
      /\ silenced' = silenced \ {p} /\ lastIn' = lastIn
  BY Zenon, <1>1, AgeFacts DEF Redirect, Slots, IInv, TypeOK
<1>3. TypeOK'
  BY <1>1, <1>2 DEF IInv, TypeOK
<1>4. LrMeansPath'
  BY <1>1, <1>2, PathAssumption DEF IInv, LrMeansPath
<1>5. RedirectSticks'
  BY <1>1, <1>2 DEF IInv, RedirectSticks
<1>6. SilencedWaits'
  BY <1>1, <1>2 DEF IInv, SilencedWaits
<1> QED BY <1>3, <1>4, <1>5, <1>6 DEF IInv

(* So does a reset.                                                        *)
LEMMA ResetIInv ==
  ASSUME IInv, NEW f \in Families, NEW scope, Reset(f, scope)
  PROVE  IInv'
<1>1. slot[f] \in Slots /\ slot[f].p \in Paths
  BY DEF IInv, TypeOK, Slots, LrMeansPath, Reset
<1>2. /\ slot'[f].p = slot[f].p /\ slot'[f].sticky = slot[f].sticky /\ slot'[f].lr = Never
      /\ slot'[f] \in Slots
      /\ \A g \in Families \ {f} : slot'[g] = slot[g]
      /\ slot' \in [Families -> Slots]
      /\ silenced' = silenced \cup {slot[f].p} /\ lastIn' = lastIn /\ target' = target
  BY Zenon, <1>1, AgeFacts DEF Reset, Slots, IInv, TypeOK
<1>3. TypeOK'
  BY <1>1, <1>2 DEF IInv, TypeOK
<1>4. LrMeansPath'
  BY <1>1, <1>2 DEF IInv, LrMeansPath
<1>5. RedirectSticks'
  BY <1>1, <1>2 DEF IInv, RedirectSticks
<1>6. SilencedWaits'
  <2> SUFFICES ASSUME NEW g \in Families, slot'[g].p \in silenced'
               PROVE  slot'[g].lr = Never
    BY DEF SilencedWaits
  <2>1. CASE g = f
    BY <1>2, <2>1
  <2>2. CASE g # f
    <3>1. slot[g].p # slot[f].p
      BY <1>1, <2>2, PathAssumption DEF IInv, TypeOK
    <3> QED BY <1>2, <2>2, <3>1 DEF IInv, SilencedWaits
  <2> QED BY <2>1, <2>2
<1> QED BY <1>3, <1>4, <1>5, <1>6 DEF IInv

(* So does the passing of time.                                            *)
LEMMA TickIInv == IInv /\ Tick => IInv'
<1> SUFFICES ASSUME IInv, Tick PROVE IInv'
  OBVIOUS
<1>1. \A f \in Families :
         /\ slot[f] \in Slots
         /\ slot'[f] = [slot[f] EXCEPT !.lr = Older(@), !.sticky = Older(@)]
  BY Zenon DEF Tick, IInv, TypeOK
<1>2. \A f \in Families :
         /\ slot[f].lr \in Ages /\ slot[f].sticky \in Ages
         /\ slot'[f].p = slot[f].p /\ slot'[f].lr = Older(slot[f].lr)
         /\ slot'[f].sticky = Older(slot[f].sticky)
  BY Zenon, <1>1 DEF Slots
<1>3. \A f \in Families :
         /\ slot'[f] \in Slots
         /\ slot'[f].lr = Never <=> slot[f].lr = Never
         /\ slot'[f].sticky <= Expiration => slot[f].sticky <= Expiration
  <2> SUFFICES ASSUME NEW f \in Families
               PROVE  /\ slot'[f] \in Slots
                      /\ slot'[f].lr = Never <=> slot[f].lr = Never
                      /\ slot'[f].sticky <= Expiration => slot[f].sticky <= Expiration
    OBVIOUS
  <2>1. /\ Older(slot[f].lr) \in Ages /\ Older(slot[f].sticky) \in Ages
        /\ Older(slot[f].lr) = Never <=> slot[f].lr = Never
        /\ Older(slot[f].sticky) >= slot[f].sticky
    BY <1>2, OlderFacts
  <2>2. slot'[f] \in Slots
    BY ZenonT(30), <1>1, <2>1 DEF Slots
  <2> QED BY <1>2, <2>1, <2>2, AgeFacts
<1>4. slot' = [f \in Families |-> slot'[f]]
  BY ZenonT(30) DEF Tick
<1>5. \A p \in Paths : lastIn'[p] \in Ages /\ (lastIn'[p] = Never <=> lastIn[p] = Never)
  BY ZenonT(30), OlderFacts DEF Tick, IInv, TypeOK
<1>6. lastIn' = [p \in Paths |-> lastIn'[p]] /\ target' = target /\ silenced' = silenced
  BY Zenon DEF Tick
<1>7. TypeOK'
  BY <1>2, <1>3, <1>4, <1>5, <1>6 DEF IInv, TypeOK
<1>8. LrMeansPath'
  <2> SUFFICES ASSUME NEW f \in Families, slot'[f].lr # Never
               PROVE  /\ slot'[f].p # "none"
                      /\ lastIn'[slot'[f].p] # Never \/ slot'[f].p = target'[f]
    BY DEF LrMeansPath
  <2>1. slot[f].p # "none" /\ (lastIn[slot[f].p] # Never \/ slot[f].p = target[f])
    BY <1>2, <1>3 DEF IInv, LrMeansPath
  <2>2. slot[f].p \in Paths
    BY Zenon, <1>1, <2>1 DEF Slots
  <2> QED BY <1>2, <1>5, <1>6, <2>1, <2>2
<1>9. RedirectSticks'
  BY <1>2, <1>3, <1>6 DEF IInv, RedirectSticks
<1>10. SilencedWaits'
  BY <1>2, <1>3, <1>6 DEF IInv, SilencedWaits
<1> QED BY <1>7, <1>8, <1>9, <1>10 DEF IInv

(* Every step preserves the invariant.                                     *)
LEMMA NextIInv == IInv /\ [Next]_vars => IInv'
<1> SUFFICES ASSUME IInv, [Next]_vars PROVE IInv'
  OBVIOUS
<1>1. ASSUME NEW p \in Paths, RecvOther(p) PROVE IInv'
  <2>1. /\ slot' = slot /\ target' = target /\ silenced' = silenced
        /\ lastIn' \in [Paths -> Ages]
        /\ \A q \in Paths : lastIn[q] # Never => lastIn'[q] # Never
    BY <1>1, AgeFacts DEF RecvOther, Datagram, IInv, TypeOK
  <2> QED BY <2>1 DEF IInv, TypeOK, Slots, LrMeansPath, RedirectSticks, SilencedWaits
<1>2. CASE UNCHANGED vars
  BY <1>2 DEF vars, IInv, TypeOK, LrMeansPath, RedirectSticks, SilencedWaits
<1> QED BY <1>1, <1>2, RecvDirectIInv, RedirectIInv, ResetIInv, TickIInv DEF Next

(* The pointers doPingAndKeepalive(), resetWithinScope() and the others    *)
(* follow after a look at lr alone are never null.                         *)
THEOREM LrAlwaysMeansPath == Spec => []LrMeansPath
<1>1. IInv => LrMeansPath
  BY DEF IInv
<1> QED BY <1>1, InitIInv, NextIInv, PTL DEF Spec

(* A redirect overrides learning until it has expired.                     *)
THEOREM RedirectAlwaysSticks == Spec => []RedirectSticks
<1>1. IInv => RedirectSticks
  BY DEF IInv
<1> QED BY <1>1, InitIInv, NextIInv, PTL DEF Spec

(* getBestPath() does not choose a path that was reset until the peer has  *)
(* spoken over it.                                                         *)
THEOREM ResetAlwaysSilences == Spec => []ResetSilences
<1>1. IInv => ResetSilences
  <2> SUFFICES ASSUME IInv, NEW p \in GetBestPath(FALSE) PROVE p \notin silenced
    BY Zenon DEF ResetSilences
  <2>1. PICK f \in Families : p = slot[f].p /\ slot[f].lr < Expiration
    BY DEF GetBestPath, Candidates
  <2>2. slot[f].lr # Never
    BY <2>1, AgeFacts
  <2> QED BY <2>1, <2>2 DEF IInv, SilencedWaits
<1> QED BY <1>1, InitIInv, NextIInv, PTL DEF Spec

(* A path something is heard from is not replaced by one of lower rank,    *)
(* except by a redirect.                                                   *)
THEOREM LivePathAlwaysStays == Spec => LivePathStays
<1> DEFINE A == \A f \in Families :
                  /\ slot[f].p # "none" /\ slot'[f].p # slot[f].p
                  /\ Rank[slot'[f].p] < Rank[slot[f].p]
                  => ~AliveNow(slot[f].p) \/ slot'[f].sticky = 0
<1>1. IInv /\ [Next]_vars => A
  <2> SUFFICES ASSUME IInv, [Next]_vars, NEW f \in Families,
                      slot[f].p # "none", slot'[f].p # slot[f].p,
                      Rank[slot'[f].p] < Rank[slot[f].p], AliveNow(slot[f].p)
               PROVE  slot'[f].sticky = 0
    OBVIOUS
  <2>1. slot \in [Families -> Slots] /\ slot[f].p \in Paths /\ Rank[slot[f].p] \in Nat
    BY PathAssumption DEF IInv, TypeOK, Slots
  <2>2. ASSUME NEW p \in Paths, NEW isOk, NEW usable, RecvDirect(p, isOk, usable)
        PROVE  FALSE
    <3>1. f = Family[p] /\ slot'[f].p = p /\ Replaceable(p)
      <4>1. PICK learn : /\ learn => Replaceable(p)
                         /\ \E a : slot' = [slot EXCEPT ![Family[p]].lr = a,
                                                ![Family[p]].p = IF learn THEN p ELSE @]
        BY Zenon, <2>2 DEF RecvDirect
      <4>2. f = Family[p] /\ slot'[f].p = IF learn THEN p ELSE slot[f].p
        BY <2>1, <4>1, PathAssumption DEF Slots
      <4> QED BY <4>1, <4>2
    <3>2. Rank[p] >= Rank[slot[f].p] /\ Rank[p] \in Nat
      BY <3>1, PathAssumption DEF Replaceable
    <3> QED BY <2>1, <3>1, <3>2
  <2>3. ASSUME NEW p \in Paths, Redirect(p)
        PROVE  slot'[f].sticky = 0
    <3>1. f = Family[p]
      BY <2>1, <2>3, PathAssumption DEF Redirect
    <3> QED BY Zenon, <2>1, <2>3, <3>1 DEF Redirect, Slots
  <2>4. ASSUME NEW g \in Families, NEW scope, Reset(g, scope)
        PROVE  FALSE
    BY <2>1, <2>4 DEF Reset, Slots
  <2>5. ASSUME Tick PROVE FALSE
    <3>1. slot[f] \in Slots /\ slot'[f] = [slot[f] EXCEPT !.lr = Older(@), !.sticky = Older(@)]
      BY Zenon, <2>1, <2>5 DEF Tick
    <3>2. slot'[f].p = slot[f].p
      BY Zenon, <3>1 DEF Slots
    <3> QED BY <3>2
  <2>6. \A p \in Paths : ~RecvOther(p)
    BY DEF RecvOther
  <2>7. ~UNCHANGED vars
    BY DEF vars
  <2> QED BY <2>2, <2>3, <2>4, <2>5, <2>6, <2>7 DEF Next
<1> HIDE DEF A
<1>2. Spec => [][A]_vars
  BY <1>1, InitIInv, NextIInv, PTL DEF Spec
<1> QED BY <1>2 DEF A, LivePathStays

---------------------------------------------------------------------------
(* KeptAlive.  A datagram that arrives makes the other end hear it, and    *)
(* either answer it or, if it is a frame, take the sender to be active: so *)
(* each end's silence is bounded by the other's, but for one loss.         *)

(* An end that takes the other to be active was punctual, or came to do so *)
(* since its last check, by a frame of the other's (se, so: ages of what   *)
(* the two ends sent last, ae: of the last frame the first got, we: of its *)
(* last check, ho: of what the other heard last, c: of the last loss).     *)
Prompt(se, so, ae, we, ho, c) ==
    ae < Activity =>
        \/ se <= Heartbeat - 1 + we
        \/ /\ so <= we /\ ae <= we
           /\ \/ se <= Punctual + we
              \/ se <= 2 * Punctual + we /\ c <= Punctual + we /\ ho <= se

(* What the first end sent last made the other send, or take it to be      *)
(* active; or it was lost, and the one before did.                         *)
Moved(se, so, ao, he, c) ==
    \/ so <= se \/ ao <= se
    \/ /\ c = se
       /\ ao <= se + Punctual \/ (so <= se + Punctual /\ he <= so)

(* What the first end sent last was heard; or it was lost, and the one     *)
(* before was heard.                                                       *)
Reached(se, ae, we, ho, c) ==
    \/ ho <= se
    \/ /\ c = se
       /\ \/ ho <= se + Punctual
          \/ ho <= se + Late /\ se <= Heartbeat - 1 + we /\ ae <= se + MaxWait

(* The two ends, first and other.                                          *)
InTouch(se, so, ae, ao, we, wo, he, ho, c) ==
    /\ ae < Activity \/ ao < Activity
    /\ Prompt(se, so, ae, we, ho, c) /\ Prompt(so, se, ao, wo, he, c)
    /\ Moved(se, so, ao, he, c) /\ Moved(so, se, ae, ho, c)
    /\ Reached(se, ae, we, ho, c) /\ Reached(so, ao, wo, he, c)

KeepaliveTypes ==
    /\ heard \in [Ends -> Nat] /\ lastOut \in [Ends -> Nat]
    /\ active \in [Ends -> 0..Activity] /\ waited \in [Ends -> 0..MaxWait]
    /\ calm \in 0..LossGap /\ steady \in BOOLEAN

Linked(e, o) ==
    InTouch(lastOut[e], lastOut[o], active[e], active[o], waited[e], waited[o],
            heard[e], heard[o], calm)

KeepaliveInv ==
    /\ KeepaliveTypes
    /\ steady => \A e, o \in Ends : e # o => Linked(e, o)

(* The numbers that KeepaliveAssumption relates.                           *)
LEMMA Periods ==
    /\ Heartbeat \in Nat \ {0} /\ MaxWait \in Nat \ {0} /\ PathAlive \in Nat
    /\ PathExpiration \in Nat /\ Activity \in Nat /\ LossGap \in Nat
    /\ Punctual = Heartbeat - 1 + MaxWait /\ Late = Punctual + MaxWait
    /\ Punctual \in Nat /\ Late \in Nat
    /\ Punctual + Late <= PathAlive /\ PathAlive < PathExpiration
    /\ 3 * Late < Activity /\ Late < LossGap
  BY KeepaliveAssumption DEF Punctual, Late

(* Neither end's silence is longer than the path is taken to be alive.     *)
LEMMA BothInTime ==
    ASSUME NEW se \in Nat, NEW so \in Nat, NEW ae \in 0..Activity, NEW ao \in 0..Activity,
           NEW we \in 0..MaxWait, NEW wo \in 0..MaxWait, NEW he \in Nat, NEW ho \in Nat,
           NEW c \in 0..LossGap, InTouch(se, so, ae, ao, we, wo, he, ho, c)
    PROVE  /\ ho <= PathAlive /\ he <= PathAlive
           /\ se <= Punctual + Late /\ so <= Punctual + Late
           /\ c = LossGap => /\ se <= Late /\ so <= Late /\ ho <= se /\ he <= so
                             /\ so <= se \/ ao <= se
                             /\ se <= so \/ ae <= so
  BY Periods DEF InTouch, Prompt, Moved, Reached

(* A check interval passes.                                                *)
LEMMA TickInTouch ==
    ASSUME NEW se \in Nat, NEW so \in Nat, NEW ae \in 0..Activity, NEW ao \in 0..Activity,
           NEW we \in 0..MaxWait, NEW wo \in 0..MaxWait, NEW he \in Nat, NEW ho \in Nat,
           NEW c \in 0..LossGap, InTouch(se, so, ae, ao, we, wo, he, ho, c),
           NEW he2 \in Nat, he2 <= he + 1, NEW ho2 \in Nat, ho2 <= ho + 1,
           NEW ae2 \in 0..Activity, ae2 = IF ae < Activity THEN ae + 1 ELSE ae,
           NEW ao2 \in 0..Activity, ao2 = IF ao < Activity THEN ao + 1 ELSE ao,
           NEW c2 \in 0..LossGap, c2 = IF c < LossGap THEN c + 1 ELSE c,
           ae2 < Activity \/ ao2 < Activity
    PROVE  InTouch(se + 1, so + 1, ae2, ao2, we + 1, wo + 1, he2, ho2, c2)
  BY Periods DEF InTouch, Prompt, Moved, Reached

(* What an end sends is lost: the first loss since LossGap.                *)
LEMMA LossInTouch ==
    ASSUME NEW se \in Nat, NEW so \in Nat, NEW ae \in 0..Activity, NEW ao \in 0..Activity,
           NEW we \in 0..MaxWait, NEW wo \in 0..MaxWait, NEW he \in Nat, NEW ho \in Nat,
           InTouch(se, so, ae, ao, we, wo, he, ho, LossGap), NEW we2 \in {0, we}
    PROVE  InTouch(0, so, ae, ao, we2, wo, he, ho, 0)
  BY Periods DEF InTouch, Prompt, Moved, Reached

(* An ECHO arrives, and its answer does.                                   *)
LEMMA EchoInTouch ==
    ASSUME NEW ae \in 0..Activity, NEW ao \in 0..Activity, ae < Activity \/ ao < Activity,
           NEW we \in 0..MaxWait, NEW wo \in 0..MaxWait, NEW c \in 0..LossGap
    PROVE  InTouch(0, 0, ae, ao, we, wo, 0, 0, c)
  BY Periods DEF InTouch, Prompt, Moved, Reached

(* An ECHO arrives, and its answer is lost.                                *)
LEMMA AnswerLostInTouch ==
    ASSUME NEW se \in Nat, NEW so \in Nat, NEW ae \in 0..Activity, NEW ao \in 0..Activity,
           NEW we \in 0..MaxWait, NEW wo \in 0..MaxWait, NEW he \in Nat, NEW ho \in Nat,
           InTouch(se, so, ae, ao, we, wo, he, ho, LossGap), NEW we2 \in {0, we}
    PROVE  InTouch(0, 0, ae, ao, we2, wo, he, 0, 0)
  BY Periods DEF InTouch, Prompt, Moved, Reached

(* A frame arrives.                                                        *)
LEMMA FrameInTouch ==
    ASSUME NEW se \in Nat, NEW so \in Nat, NEW ae \in 0..Activity, NEW ao \in 0..Activity,
           NEW we \in 0..MaxWait, NEW wo \in 0..MaxWait, NEW he \in Nat, NEW ho \in Nat,
           NEW c \in 0..LossGap, InTouch(se, so, ae, ao, we, wo, he, ho, c)
    PROVE  InTouch(0, so, ae, 0, we, wo, he, 0, c)
  BY Periods DEF InTouch, Prompt, Moved, Reached

(* A check at which nothing is due.                                        *)
LEMMA RestInTouch ==
    ASSUME NEW se \in Nat, NEW so \in Nat, NEW ae \in 0..Activity, NEW ao \in 0..Activity,
           NEW we \in 0..MaxWait, NEW wo \in 0..MaxWait, NEW he \in Nat, NEW ho \in Nat,
           NEW c \in 0..LossGap, InTouch(se, so, ae, ao, we, wo, he, ho, c),
           ae < Activity => se < Heartbeat
    PROVE  InTouch(se, so, ae, ao, 0, wo, he, ho, c)
  BY Periods DEF InTouch, Prompt, Moved, Reached

(* The two ends are in the same relation.                                  *)
LEMMA InTouchBothWays ==
    ASSUME NEW se, NEW so, NEW ae, NEW ao, NEW we, NEW wo, NEW he, NEW ho, NEW c,
           InTouch(se, so, ae, ao, we, wo, he, ho, c)
    PROVE  InTouch(so, se, ao, ae, wo, we, ho, he, c)
  BY Zenon DEF InTouch

(* An end and the other one.                                               *)
LEMMA TwoEnds ==
    ASSUME NEW e \in Ends
    PROVE  /\ Other(e) \in Ends /\ Other(e) # e /\ Ends = {e, Other(e)}
           /\ \A x, y \in Ends : x # y => {x, y} = {e, Other(e)}
  <1>1. PICK a, b \in Ends : a # b /\ Ends = {a, b}
    BY KeepaliveAssumption
  <1>2. PICK o \in Ends : o # e
    BY <1>1
  <1>3. Other(e) \in Ends /\ Other(e) # e
    BY <1>2 DEF Other
  <1> QED
    BY <1>1, <1>3

(* What holds from the side of e holds from the other.                     *)
LEMMA EitherWay ==
    ASSUME NEW s, NEW a, NEW w, NEW h, NEW c, NEW e \in Ends, NEW o \in Ends, o = Other(e),
           InTouch(s[e], s[o], a[e], a[o], w[e], w[o], h[e], h[o], c)
    PROVE  \A x, y \in Ends : x # y => InTouch(s[x], s[y], a[x], a[y], w[x], w[y], h[x], h[y], c)
  <1>1. InTouch(s[o], s[e], a[o], a[e], w[o], w[e], h[o], h[e], c)
    BY Zenon, InTouchBothWays
  <1>2. \A x, y \in Ends : x # y => (x = e /\ y = o) \/ (x = o /\ y = e)
    BY TwoEnds
  <1> QED
    BY Zenon, <1>1, <1>2

(* A path just learned.                                                    *)
LEMMA InitKeepalive == KeepaliveInit => KeepaliveInv
  <1> SUFFICES ASSUME KeepaliveInit PROVE KeepaliveInv
    OBVIOUS
  <1>1. KeepaliveTypes
    BY Periods DEF KeepaliveInit, KeepaliveTypes
  <1>2. \A e, o \in Ends : Linked(e, o)
    BY Periods, EchoInTouch DEF KeepaliveInit, Linked
  <1> QED
    BY Zenon, <1>1, <1>2 DEF KeepaliveInv

(* The values the lemmas above are about.                                  *)
LEMMA EndFacts ==
    ASSUME KeepaliveInv, NEW e \in Ends
    PROVE  /\ lastOut[e] \in Nat /\ heard[e] \in Nat
           /\ active[e] \in 0..Activity /\ waited[e] \in 0..MaxWait
           /\ calm \in 0..LossGap
           /\ steady => InTouch(lastOut[e], lastOut[Other(e)], active[e], active[Other(e)],
                          waited[e], waited[Other(e)], heard[e], heard[Other(e)], calm)
  <1>1. Other(e) \in Ends /\ Other(e) # e
    BY TwoEnds
  <1> QED
    BY <1>1 DEF KeepaliveInv, KeepaliveTypes, Linked

(* What the lemmas above need to know of an end and of the other.          *)
LEMMA Both ==
    ASSUME KeepaliveInv, steady, NEW e \in Ends, NEW o \in Ends, o = Other(e)
    PROVE  /\ lastOut[e] \in Nat /\ lastOut[o] \in Nat /\ heard[e] \in Nat /\ heard[o] \in Nat
           /\ active[e] \in 0..Activity /\ active[o] \in 0..Activity
           /\ waited[e] \in 0..MaxWait /\ waited[o] \in 0..MaxWait /\ calm \in 0..LossGap
           /\ InTouch(lastOut[e], lastOut[o], active[e], active[o], waited[e], waited[o],
                      heard[e], heard[o], calm)
  BY Zenon, EndFacts

(* While the path was used all along, both ends see it alive.              *)
LEMMA TouchKeepsAlive == KeepaliveInv => KeptAlive
  <1> SUFFICES ASSUME KeepaliveInv, steady, NEW e \in Ends PROVE heard[e] <= PathAlive
    BY Zenon DEF KeptAlive, SeenAlive
  <1>1. Other(e) \in Ends
    BY TwoEnds
  <1>3. PICK o \in Ends : o = Other(e)
    BY Zenon, <1>1
  <1> QED
    BY Zenon, <1>3, Both, BothInTime

(* A step of e after which the two ends are in touch.                      *)
LEMMA LinkedAfter ==
    ASSUME NEW e \in Ends, NEW o \in Ends, o = Other(e), KeepaliveTypes',
           InTouch(lastOut'[e], lastOut'[o], active'[e], active'[o],
                   waited'[e], waited'[o], heard'[e], heard'[o], calm')
    PROVE  KeepaliveInv'
  <1>1. \A x, y \in Ends : x # y =>
          InTouch(lastOut'[x], lastOut'[y], active'[x], active'[y],
                  waited'[x], waited'[y], heard'[x], heard'[y], calm')
    BY Zenon, EitherWay
  <1> QED
    BY Zenon, <1>1 DEF KeepaliveInv, Linked

(* Every step leaves the ages naturals.                                    *)
LEMMA TypesKept == KeepaliveTypes /\ [KeepaliveNext]_keepaliveVars => KeepaliveTypes'
  <1> SUFFICES ASSUME KeepaliveTypes, [KeepaliveNext]_keepaliveVars PROVE KeepaliveTypes'
    OBVIOUS
  <1> USE Periods DEF KeepaliveTypes
  <1>1. ASSUME NEW at, NEW drop, Transfer(at, drop)
        PROVE  heard' \in [Ends -> Nat] /\ calm' \in 0..LossGap
    BY <1>1 DEF Transfer
  <1>2. ASSUME NEW e \in Ends, Echo(e)
        PROVE  heard' \in [Ends -> Nat] /\ calm' \in 0..LossGap /\ lastOut' \in [Ends -> Nat]
    <2>1. \E at, drop : Transfer(at, drop)
      BY Zenon, <1>2 DEF Echo
    <2>2. \/ lastOut' = [lastOut EXCEPT ![e] = 0]
          \/ lastOut' = [lastOut EXCEPT ![e] = 0, ![Other(e)] = 0]
      BY Zenon, <1>2 DEF Echo
    <2>3. lastOut' \in [Ends -> Nat]
      BY <2>2
    <2> QED
      BY Zenon, <1>1, <2>1, <2>3
  <1>3. ASSUME NEW e \in Ends, Check(e) PROVE KeepaliveTypes'
    <2>1. heard' \in [Ends -> Nat] /\ calm' \in 0..LossGap /\ lastOut' \in [Ends -> Nat]
      BY Zenon, <1>2, <1>3 DEF Check, NoDatagram
    <2>3. active' \in [Ends -> 0..Activity] /\ waited' \in [Ends -> 0..MaxWait]
      BY <1>3 DEF Check
    <2>4. steady' \in BOOLEAN
      BY Zenon, <1>3 DEF Check
    <2> QED
      BY Zenon, <2>1, <2>3, <2>4
  <1>4. ASSUME NEW e \in Ends, SendFrame(e) PROVE KeepaliveTypes'
    <2>1. \E at, drop : Transfer(at, drop)
      BY Zenon, <1>4 DEF SendFrame
    <2>2. heard' \in [Ends -> Nat] /\ calm' \in 0..LossGap
      BY Zenon, <1>1, <2>1
    <2>5. lastOut' \in [Ends -> Nat]
      BY <1>4 DEF SendFrame
    <2>3. active' \in [Ends -> 0..Activity] /\ waited' \in [Ends -> 0..MaxWait]
      <3>1. active' = active \/ active' = [active EXCEPT ![Other(e)] = 0]
        BY Zenon, <1>4 DEF SendFrame
      <3>2. waited' = waited
        BY Zenon, <1>4 DEF SendFrame
      <3> QED
        BY <3>1, <3>2
    <2>4. steady' \in BOOLEAN
      BY Zenon, <1>4 DEF SendFrame
    <2> QED
      BY Zenon, <2>2, <2>3, <2>4, <2>5
  <1>5. ASSUME NEW e \in Ends, RelayFrame(e) PROVE KeepaliveTypes'
    <2>1. heard' \in [Ends -> Nat] /\ calm' \in 0..LossGap /\ lastOut' \in [Ends -> Nat]
      BY Zenon, <1>2, <1>5 DEF RelayFrame, NoDatagram
    <2>3. active' \in [Ends -> 0..Activity] /\ waited' \in [Ends -> 0..MaxWait]
      <3>1. active' = active \/ active' = [active EXCEPT ![Other(e)] = 0]
        BY Zenon, <1>5 DEF RelayFrame
      <3>2. waited' = waited
        BY Zenon, <1>5 DEF RelayFrame
      <3> QED
        BY <3>1, <3>2
    <2>4. steady' \in BOOLEAN
      BY Zenon, <1>5 DEF RelayFrame
    <2> QED
      BY Zenon, <2>1, <2>3, <2>4
  <1>6. CASE Interval
    BY <1>6 DEF Interval, Aged
  <1>7. CASE UNCHANGED keepaliveVars
    BY <1>7 DEF keepaliveVars
  <1> QED
    BY Zenon, <1>3, <1>4, <1>5, <1>6, <1>7 DEF KeepaliveNext

(* A check that sends an ECHO.                                             *)
LEMMA EchoKeeps ==
    ASSUME KeepaliveInv, NEW e \in Ends, steady, Echo(e), UNCHANGED <<active, steady>>,
           waited' = [waited EXCEPT ![e] = 0], KeepaliveTypes'
    PROVE  KeepaliveInv'
  <1>0. PICK o \in Ends : o = Other(e)
    BY TwoEnds
  <1>1. o # e /\ Ends = {e, o}
    BY <1>0, TwoEnds
  <1>2. KeepaliveTypes
    BY Zenon DEF KeepaliveInv
  <1>3. waited'[e] = 0 /\ waited'[o] = waited[o]
    BY <1>1, <1>2, Periods DEF KeepaliveTypes
  <1>t. LossGap \in Nat /\ 0 \in 0..MaxWait /\ calm \in 0..LossGap
    BY EndFacts, Periods
  <1>4. CASE Transfer({}, TRUE) /\ lastOut' = [lastOut EXCEPT ![e] = 0]
    <2>1. /\ heard' = heard /\ calm = LossGap /\ calm' = 0
          /\ lastOut'[e] = 0 /\ lastOut'[o] = lastOut[o]
      BY <1>1, <1>2, <1>4, <1>t DEF Transfer, KeepaliveTypes
    <2>3. InTouch(0, lastOut[o], active[e], active[o], 0, waited[o], heard[e], heard[o], 0)
      BY Zenon, <1>0, <1>t, <2>1, Both, LossInTouch
    <2> QED
      BY Zenon, <1>0, <1>3, <2>1, <2>3, LinkedAfter
  <1>5. ASSUME NEW answered \in BOOLEAN, Transfer(IF answered THEN Ends ELSE {o}, ~answered),
               lastOut' = [lastOut EXCEPT ![e] = 0, ![o] = 0]
        PROVE  KeepaliveInv'
    <2>1. /\ heard'[o] = 0 /\ lastOut'[e] = 0 /\ lastOut'[o] = 0
          /\ calm' \in 0..LossGap
      BY <1>1, <1>2, <1>5, <1>t DEF Transfer, KeepaliveTypes
    <2>3. CASE answered
      <3>1. heard'[e] = 0
        BY <1>5, <2>3 DEF Transfer
      <3>2. active[e] < Activity \/ active[o] < Activity
        BY Zenon, <1>0, Both DEF InTouch
      <3>3. InTouch(0, 0, active[e], active[o], 0, waited[o], 0, 0, calm')
        BY Zenon, <1>0, <1>t, <2>1, <3>2, Both, EchoInTouch
      <3> QED
        BY Zenon, <1>0, <1>3, <2>1, <3>1, <3>3, LinkedAfter
    <2>4. CASE ~answered
      <3>1. heard'[e] = heard[e] /\ calm = LossGap /\ calm' = 0
        BY <1>1, <1>5, <1>t, <2>4 DEF Transfer
      <3>2. InTouch(0, 0, active[e], active[o], 0, waited[o], heard[e], 0, 0)
        BY Zenon, <1>0, <1>t, <3>1, Both, AnswerLostInTouch
      <3> QED
        BY Zenon, <1>0, <1>3, <2>1, <3>1, <3>2, LinkedAfter
    <2> QED
      BY Zenon, <2>3, <2>4
  <1> QED
    BY Zenon, <1>0, <1>4, <1>5 DEF Echo

(* The periodic check of a node.                                           *)
LEMMA CheckKeeps ==
    ASSUME KeepaliveInv, steady, NEW e \in Ends, Check(e), KeepaliveTypes'
    PROVE  KeepaliveInv'
  <1>1. CASE Echo(e)
    BY Zenon, <1>1, EchoKeeps DEF Check
  <1>2. CASE ~Echo(e)
    <2>0. PICK o \in Ends : o = Other(e)
      BY TwoEnds
    <2>1. o # e
      BY <2>0, TwoEnds
    <2>2. ~(IsActive(e) /\ ~Expired(e) /\ PingDue(e)) /\ NoDatagram /\ active' = active
      BY Zenon, <1>2 DEF Check
    <2>3. waited'[e] = 0 /\ waited'[o] = waited[o]
      BY <2>1 DEF Check, KeepaliveInv, KeepaliveTypes
    <2>4. heard[e] <= PathAlive
      BY Zenon, TouchKeepsAlive DEF KeptAlive, SeenAlive
    <2>5. active[e] < Activity => lastOut[e] < Heartbeat
      BY <2>2, <2>4, EndFacts, Periods DEF IsActive, Expired, PingDue
    <2>6. InTouch(lastOut[e], lastOut[o], active[e], active[o], 0, waited[o], heard[e], heard[o], calm)
      BY Zenon, <2>0, <2>5, Both, RestInTouch
    <2> QED
      BY Zenon, <2>0, <2>2, <2>3, <2>6, LinkedAfter DEF NoDatagram
  <1> QED
    BY Zenon, <1>1, <1>2

(* A frame over the path.                                                  *)
LEMMA SendKeeps ==
    ASSUME KeepaliveInv, steady, NEW e \in Ends, SendFrame(e), KeepaliveTypes'
    PROVE  KeepaliveInv'
  <1>0. PICK o \in Ends : o = Other(e)
    BY TwoEnds
  <1>1. o # e
    BY <1>0, TwoEnds
  <1>2. lastOut'[e] = 0 /\ lastOut'[o] = lastOut[o] /\ waited' = waited
    BY <1>1 DEF SendFrame, KeepaliveInv, KeepaliveTypes
  <1>3. CASE Transfer({o}, FALSE) /\ active' = [active EXCEPT ![o] = 0]
    <2>1. heard'[e] = heard[e] /\ heard'[o] = 0 /\ calm' = calm
      BY <1>1, <1>3 DEF Transfer
    <2>2. active'[e] = active[e] /\ active'[o] = 0
      BY <1>1, <1>3 DEF KeepaliveInv, KeepaliveTypes
    <2>3. InTouch(0, lastOut[o], active[e], 0, waited[e], waited[o], heard[e], 0, calm)
      BY Zenon, <1>0, Both, FrameInTouch
    <2> QED
      BY Zenon, <1>0, <1>2, <2>1, <2>2, <2>3, LinkedAfter
  <1>4. CASE Transfer({}, TRUE) /\ active' = active
    <2>1. heard'[e] = heard[e] /\ heard'[o] = heard[o] /\ calm' = 0 /\ calm = LossGap
      BY <1>0, <1>4, Both, Periods DEF Transfer
    <2>3. InTouch(0, lastOut[o], active[e], active[o], waited[e], waited[o], heard[e], heard[o], 0)
      BY Zenon, <1>0, <2>1, Both, LossInTouch
    <2> QED
      BY Zenon, <1>0, <1>2, <1>4, <2>1, <2>3, LinkedAfter
  <1> QED
    BY Zenon, <1>0, <1>3, <1>4 DEF SendFrame

(* A check interval.                                                       *)
LEMMA IntervalKeeps ==
    ASSUME KeepaliveInv, steady, Interval, KeepaliveTypes'
    PROVE  KeepaliveInv'
  <1> SUFFICES ASSUME steady' PROVE KeepaliveInv'
    BY Zenon DEF KeepaliveInv
  <1>0. PICK e \in Ends : active'[e] < Activity
    BY Zenon DEF Interval
  <1>1. PICK o \in Ends : o = Other(e)
    BY TwoEnds
  <1>2. /\ waited'[e] = waited[e] + 1 /\ waited'[o] = waited[o] + 1
        /\ heard'[e] = Aged(heard[e], HeardCap) /\ heard'[o] = Aged(heard[o], HeardCap)
        /\ lastOut'[e] = Aged(lastOut[e], SentCap) /\ lastOut'[o] = Aged(lastOut[o], SentCap)
        /\ active'[e] = Aged(active[e], Activity) /\ active'[o] = Aged(active[o], Activity)
        /\ calm' = Aged(calm, LossGap)
    BY DEF Interval
  <1>3. /\ lastOut[e] <= Punctual + Late /\ lastOut[o] <= Punctual + Late
    BY Zenon, <1>1, Both, BothInTime
  <1>4. /\ heard'[e] \in Nat /\ heard'[o] \in Nat /\ calm' \in 0..LossGap
        /\ active'[e] \in 0..Activity /\ active'[o] \in 0..Activity
    BY DEF KeepaliveTypes
  <1>5. lastOut'[e] = lastOut[e] + 1 /\ lastOut'[o] = lastOut[o] + 1
    BY <1>1, <1>2, <1>3, Both, Periods DEF Aged, SentCap
  <1>6. heard'[e] <= heard[e] + 1 /\ heard'[o] <= heard[o] + 1
    BY <1>1, <1>2, Both DEF Aged
  <1>7. InTouch(lastOut'[e], lastOut'[o], active'[e], active'[o],
                waited'[e], waited'[o], heard'[e], heard'[o], calm')
    <2>1. InTouch(lastOut[e] + 1, lastOut[o] + 1, active'[e], active'[o],
                  waited[e] + 1, waited[o] + 1, heard'[e], heard'[o], calm')
      <3>1. /\ active'[e] = IF active[e] < Activity THEN active[e] + 1 ELSE active[e]
            /\ active'[o] = IF active[o] < Activity THEN active[o] + 1 ELSE active[o]
            /\ calm' = IF calm < LossGap THEN calm + 1 ELSE calm
        BY Zenon, <1>2 DEF Aged
      <3>2. PICK a \in 0..Activity, b \in 0..Activity, h \in Nat, k \in Nat, c \in 0..LossGap :
              a = active'[e] /\ b = active'[o] /\ h = heard'[e] /\ k = heard'[o] /\ c = calm'
        BY Zenon, <1>4
      <3>3. InTouch(lastOut[e] + 1, lastOut[o] + 1, a, b, waited[e] + 1, waited[o] + 1, h, k, c)
        <4>1. /\ a = IF active[e] < Activity THEN active[e] + 1 ELSE active[e]
              /\ b = IF active[o] < Activity THEN active[o] + 1 ELSE active[o]
              /\ c = IF calm < LossGap THEN calm + 1 ELSE calm
              /\ h <= heard[e] + 1 /\ k <= heard[o] + 1 /\ a < Activity
          BY Zenon, <1>0, <1>6, <3>1, <3>2
        <4>2. PICK se \in Nat, so \in Nat, he \in Nat, ho \in Nat :
                se = lastOut[e] /\ so = lastOut[o] /\ he = heard[e] /\ ho = heard[o]
          BY Zenon, <1>1, Both
        <4>3. PICK ae \in 0..Activity, ao \in 0..Activity, we \in 0..MaxWait, wo \in 0..MaxWait,
                   cc \in 0..LossGap :
                ae = active[e] /\ ao = active[o] /\ we = waited[e] /\ wo = waited[o] /\ cc = calm
          BY Zenon, <1>1, Both
        <4>4. InTouch(se, so, ae, ao, we, wo, he, ho, cc)
          BY Zenon, <1>1, <4>2, <4>3, Both
        <4>5. /\ a = IF ae < Activity THEN ae + 1 ELSE ae
              /\ b = IF ao < Activity THEN ao + 1 ELSE ao
              /\ c = IF cc < LossGap THEN cc + 1 ELSE cc
              /\ h <= he + 1 /\ k <= ho + 1
          BY Zenon, <4>1, <4>2, <4>3
        <4>6. InTouch(se + 1, so + 1, a, b, we + 1, wo + 1, h, k, c)
          BY Zenon, <4>1, <4>4, <4>5, TickInTouch
        <4> QED
          BY Zenon, <4>2, <4>3, <4>6
      <3> QED
        BY Zenon, <3>2, <3>3
    <2> QED
      BY Zenon, <1>2, <1>5, <2>1
  <1> QED
    BY Zenon, <1>1, <1>7, LinkedAfter

(* Every step keeps the ends in touch; a frame never has to be relayed.    *)
LEMMA NextKeepalive == KeepaliveInv /\ [KeepaliveNext]_keepaliveVars => KeepaliveInv'
  <1> SUFFICES ASSUME KeepaliveInv, [KeepaliveNext]_keepaliveVars PROVE KeepaliveInv'
    OBVIOUS
  <1>1. KeepaliveTypes'
    BY Zenon, TypesKept DEF KeepaliveInv
  <1>2. CASE ~steady
    <2>1. ~steady'
      <3>1. ASSUME NEW e \in Ends, Check(e) \/ SendFrame(e) \/ RelayFrame(e) PROVE steady' = steady
        BY Zenon, <3>1 DEF Check, SendFrame, RelayFrame
      <3>2. CASE Interval
        BY Zenon, <1>2, <3>2 DEF Interval
      <3>3. CASE UNCHANGED keepaliveVars
        BY Zenon, <1>2, <3>3 DEF keepaliveVars
      <3> QED
        BY Zenon, <1>2, <3>1, <3>2, <3>3 DEF KeepaliveNext
    <2> QED
      BY Zenon, <1>1, <2>1 DEF KeepaliveInv
  <1>3. CASE steady
    <2>1. ASSUME NEW e \in Ends, RelayFrame(e) PROVE FALSE
      <3>1. heard[e] <= PathAlive
        BY Zenon, <1>3, TouchKeepsAlive DEF KeptAlive, SeenAlive
      <3> QED
        BY <2>1, <3>1, EndFacts, Periods DEF RelayFrame, SeenAlive, Expired
    <2>2. CASE UNCHANGED keepaliveVars
      BY Zenon, <2>2 DEF KeepaliveInv, KeepaliveTypes, Linked, keepaliveVars
    <2> QED
      BY Zenon, <1>1, <1>3, <2>1, <2>2, CheckKeeps, SendKeeps, IntervalKeeps DEF KeepaliveNext
  <1> QED
    BY Zenon, <1>2, <1>3

(* Peer::doPingAndKeepalive keeps a path: as long as either node takes the *)
(* other to be active neither sees the path die, whatever frames go either *)
(* way and although a datagram is lost every now and then, for any periods *)
(* that are related as the code's are.                                     *)
THEOREM PathAlwaysKeptAlive == KeepaliveSpec => []KeptAlive
  BY InitKeepalive, NextKeepalive, TouchKeepsAlive, PTL DEF KeepaliveSpec

-----------------------------------------------------------------------------
(* One multicast group, for any peers, bridges, limit and periods that     *)
(* MulticastAssumption admits.                                             *)

(* What the list, the queue and the packets sent are to each other: ms the *)
(* members, q the waiting multicasts, g the sends, s how many there were.  *)
Listing(ms) == ms \subseteq [a : Peers, age : Nat]

Reach(g, n) == {p \in Peers : g[n][p] > 0}

Sending(g) ==
    /\ g \in [1..MaxSends -> [Peers -> 0..1]]
    /\ \A n \in 1..MaxSends : Cardinality(Reach(g, n)) <= Limit

Waiting(q, g, s) ==
    /\ q \subseteq [n : 1..s, age : Nat, log : SUBSET Peers]
    /\ \A tx, ty \in q : tx.n = ty.n => tx = ty
    /\ \A tx \in q : tx.log = Reach(g, tx.n)

Served(ms, q) == \A tx \in q : AtLimit(tx) \/ MAddresses(ms) \subseteq tx.log

Distributed(ms, q, g, s) == Listing(ms) /\ Sending(g) /\ Waiting(q, g, s) /\ Served(ms, q)

(* How old a waiting multicast may be, and the subscriber's entry.         *)
InTime(q, c) == \A tx \in q : tx.age <= TransmitTimeout + c

Pause == AnnouncePeriod + AnnounceDelay

Remembered(ms, k, t) ==
    /\ Subscriber \in MAddresses(ms)
    /\ \A m \in ms : m.a = Subscriber => m.age <= k * Pause + t

MulticastInv ==
    /\ sends \in 0..MaxSends /\ sinceClean \in 0..Housekeeping
    /\ announced \in 0..Pause /\ lost \in 0..MaxLost
    /\ Distributed(members, txQueue, got, sends)
    /\ InTime(txQueue, sinceClean)
    /\ listed => Remembered(members, lost, announced)

(* What adding an address makes of a group, a queue entry and the sends.   *)
Adds(ms, q, g, a, st) == st = Added(Group(ms, q, g), a)
Offers(ty, a, tx) == tx = Offered(ty, a)
Counts(g, q, a, g2) == g2 = Counted(g, q, a)

ListsAlso(ms, a, ms2) ==
    /\ Listing(ms2) /\ MAddresses(ms2) = MAddresses(ms) \cup {a}
    /\ \A m \in ms2 : IF m.a = a THEN m.age = 0 ELSE m \in ms

SendsAlso(ty, a, tx, s) ==
    /\ tx \in [n : 1..s, age : Nat, log : SUBSET Peers]
    /\ tx.n = ty.n /\ tx.age = ty.age /\ tx.log = ty.log \cup {a} /\ ~AtLimit(ty)

ReachesAlso(q, a, g2) == \A tx \in q : ~AtLimit(tx) => Reach(g2, tx.n) = tx.log \cup {a}

NoOlder(q, q2) == \A tx \in q2 : \E ty \in q : tx.age = ty.age

(* The sets are finite.                                                    *)
LEMMA LogSize ==
    ASSUME NEW log \in SUBSET Peers
    PROVE  IsFiniteSet(log) /\ Cardinality(log) \in Nat
  BY Zenon, FS_Subset, FS_CardinalityType, MulticastAssumption

(* A log grows by whom it did not have.                                    *)
LEMMA LogGrows ==
    ASSUME NEW log \in SUBSET Peers, NEW a \in Peers, a \notin log
    PROVE  Cardinality(log \cup {a}) = Cardinality(log) + 1
  BY Zenon, LogSize, FS_AddElement

(* One address that is added: who is listed.                               *)
LEMMA AddedLists ==
    ASSUME NEW ms, Listing(ms), NEW q, NEW g, NEW a \in Peers,
           NEW st, Adds(ms, q, g, a, st)
    PROVE  ListsAlso(ms, a, st.ms)
  <1>1. CASE a \in MAddresses(ms)
    <2>1. st.ms = Relisted(ms, a)
      BY <1>1 DEF Adds, Added, Group
    <2>2. \A m \in ms : m \in [a : Peers, age : Nat]
      BY DEF Listing
    <2> DEFINE F(m) == [m EXCEPT !.age = IF m.a = a THEN 0 ELSE @]
    <2>3. st.ms = {F(m) : m \in ms}
      BY Zenon, <2>1 DEF Relisted
    <2>4. \A m \in ms : /\ F(m) \in [a : Peers, age : Nat] /\ F(m).a = m.a
                        /\ IF m.a = a THEN F(m).age = 0 ELSE F(m) = m
      BY <2>2
    <2> HIDE DEF F
    <2>7. Listing(st.ms)
      BY <2>3, <2>4 DEF Listing
    <2>8. MAddresses(st.ms) = MAddresses(ms)
      BY <2>3, <2>4 DEF MAddresses
    <2>9. \A x \in st.ms : IF x.a = a THEN x.age = 0 ELSE x \in ms
      BY Zenon, <2>3, <2>4
    <2>10. MAddresses(ms) \cup {a} = MAddresses(ms)
      BY <1>1
    <2> QED
      BY Zenon, <2>7, <2>8, <2>9, <2>10 DEF ListsAlso
  <1>2. CASE a \notin MAddresses(ms)
    <2>1. st.ms = ms \cup {[a |-> a, age |-> 0]}
      BY <1>2 DEF Adds, Added, Group
    <2>2. MAddresses(st.ms) = MAddresses(ms) \cup {a}
      <3>1. PICK new : new = [a |-> a, age |-> 0]
        BY Zenon
      <3>2. new.a = a /\ st.ms = ms \cup {new}
        BY <2>1, <3>1
      <3> QED
        BY <3>2 DEF MAddresses
    <2>3. Listing(st.ms)
      BY <2>1 DEF Listing
    <2>4. \A m \in ms : m.a # a
      BY Zenon, <1>2 DEF MAddresses
    <2>5. \A m \in st.ms : IF m.a = a THEN m.age = 0 ELSE m \in ms
      BY <2>1, <2>4
    <2> QED
      BY Zenon, <2>2, <2>3, <2>5 DEF ListsAlso
  <1> QED
    BY Zenon, <1>1, <1>2

(* One address that is added: a waiting multicast that is offered to it.   *)
LEMMA OfferedOne ==
    ASSUME NEW ms, NEW q, NEW g, NEW s \in 0..MaxSends, Distributed(ms, q, g, s), NEW a \in Peers,
           NEW ty \in q, NEW tx, Offers(ty, a, tx), ~AtLimit(tx)
    PROVE  SendsAlso(ty, a, tx, s)
  <1>1. ty \in [n : 1..s, age : Nat, log : SUBSET Peers]
    BY Zenon DEF Distributed, Waiting
  <1>2. CASE ~AtLimit(ty) /\ a \notin ty.log
    <2>1. tx = [ty EXCEPT !.log = @ \cup {a}]
      BY Zenon, <1>2 DEF Offers, Offered, ToSend
    <2> QED
      BY <1>1, <1>2, <2>1 DEF SendsAlso
  <1>3. CASE AtLimit(ty) \/ a \in ty.log
    <2>1. tx = ty
      BY Zenon, <1>3 DEF Offers, Offered, ToSend
    <2>2. a \in ty.log
      BY Zenon, <1>3, <2>1
    <2>3. ty.log = ty.log \cup {a}
      BY <2>2
    <2> QED
      BY Zenon, <1>1, <2>1, <2>3 DEF SendsAlso
  <1> QED
    BY Zenon, <1>2, <1>3

(* The sends to a new member.                                              *)
LEMMA CountedSends ==
    ASSUME NEW ms, NEW q, NEW g, NEW s \in 0..MaxSends, Distributed(ms, q, g, s), NEW a \in Peers,
           NEW g2, Counts(g, q, a, g2)
    PROVE  Sending(g2) /\ ReachesAlso(q, a, g2)
  <1>0. g \in [1..MaxSends -> [Peers -> 0..1]]
    BY Zenon DEF Distributed, Sending
  <1>1. g2 \in [1..MaxSends -> [Peers -> 0..1]] /\ \A n \in 1..MaxSends : Cardinality(Reach(g2, n)) <= Limit
    <2>0. g2 = [n \in 1..MaxSends |-> g2[n]]
      BY Zenon DEF Counts, Counted
    <2> SUFFICES ASSUME NEW n \in 1..MaxSends
                 PROVE  g2[n] \in [Peers -> 0..1] /\ Cardinality(Reach(g2, n)) <= Limit
      BY Zenon, <2>0
    <2>1. CASE \E tx \in q : tx.n = n /\ ~AtLimit(tx) /\ ToSend(tx, a)
      <3>1. PICK tx \in q : tx.n = n /\ ~AtLimit(tx) /\ a \notin tx.log
        BY Zenon, <2>1 DEF ToSend
      <3>2. g2[n] = [g[n] EXCEPT ![a] = @ + 1]
        BY Zenon, <2>1 DEF Counts, Counted
      <3>3. tx.log = Reach(g, n) /\ tx.log \in SUBSET Peers
        BY Zenon, <3>1 DEF Distributed, Waiting, Reach
      <3>4. g[n] \in [Peers -> 0..1] /\ g[n][a] = 0
        BY <1>0, <3>1, <3>3 DEF Reach
      <3>5. g2[n] \in [Peers -> 0..1]
        BY <3>2, <3>4
      <3>6. Reach(g2, n) = tx.log \cup {a}
        BY <3>2, <3>3, <3>4 DEF Reach
      <3>7. Cardinality(tx.log \cup {a}) = Cardinality(tx.log) + 1 /\ Cardinality(tx.log) \in Nat
        BY Zenon, <3>1, <3>3, LogGrows, LogSize
      <3>8. Cardinality(tx.log) < Limit
        BY <3>1, <3>7, MulticastAssumption DEF AtLimit
      <3>9. Cardinality(tx.log) + 1 <= Limit
        BY <3>7, <3>8, MulticastAssumption
      <3> QED
        BY Zenon, <3>5, <3>6, <3>7, <3>9
    <2>2. CASE ~\E tx \in q : tx.n = n /\ ~AtLimit(tx) /\ ToSend(tx, a)
      <3>1. g2[n] = g[n]
        BY Zenon, <2>2 DEF Counts, Counted
      <3>2. Reach(g2, n) = Reach(g, n)
        BY Zenon, <3>1 DEF Reach
      <3> QED
        BY Zenon, <1>0, <3>1, <3>2 DEF Distributed, Sending
    <2> QED
      BY Zenon, <2>1, <2>2
  <1>2. ASSUME NEW tx \in q, ~AtLimit(tx)
        PROVE  Reach(g2, tx.n) = tx.log \cup {a}
    <2>a. tx \in [n : 1..s, age : Nat, log : SUBSET Peers]
      BY Zenon DEF Distributed, Waiting
    <2>b. tx.n \in 1..MaxSends
      BY <2>a, MulticastAssumption
    <2>0. PICK n \in 1..MaxSends : n = tx.n
      BY Zenon, <2>b
    <2>1. tx.log = Reach(g, n)
      BY Zenon, <2>0 DEF Distributed, Waiting
    <2>2. CASE a \notin tx.log
      <3>1. g2[n] = [g[n] EXCEPT ![a] = @ + 1]
        BY Zenon, <1>2, <2>0, <2>2 DEF Counts, Counted, ToSend
      <3>2. g[n] \in [Peers -> 0..1] /\ g[n][a] = 0
        BY <1>0, <2>1, <2>2 DEF Reach
      <3> QED
        BY <2>0, <2>1, <3>1, <3>2 DEF Reach
    <2>3. CASE a \in tx.log
      <3>1. \A ty \in q : ty.n = n => ty = tx
        BY Zenon, <2>0 DEF Distributed, Waiting
      <3>2. g2[n] = g[n]
        BY Zenon, <2>3, <3>1 DEF Counts, Counted, ToSend
      <3>3. Reach(g2, n) = tx.log
        BY Zenon, <2>1, <3>2 DEF Reach
      <3> QED
        BY <2>0, <2>3, <3>3
    <2> QED
      BY Zenon, <2>2, <2>3
  <1> QED
    BY Zenon, <1>1, <1>2 DEF Sending, ReachesAlso

(* One address that is added.                                              *)
LEMMA AddedDistributes ==
    ASSUME NEW ms, NEW q, NEW g, NEW s \in 0..MaxSends, Distributed(ms, q, g, s), NEW a \in Peers,
           NEW st, Adds(ms, q, g, a, st)
    PROVE  Distributed(st.ms, st.q, st.g, s) /\ NoOlder(q, st.q)
  <1>0. Listing(st.ms) /\ MAddresses(st.ms) = MAddresses(ms) \cup {a}
    <2>1. Listing(ms)
      BY Zenon DEF Distributed
    <2>2. ListsAlso(ms, a, st.ms)
      BY Zenon, <2>1, AddedLists
    <2> QED
      BY Zenon, <2>2 DEF ListsAlso
  <1>1. CASE a \in MAddresses(ms)
    <2>1. st.q = q /\ st.g = g
      BY <1>1 DEF Adds, Added, Group
    <2>2. MAddresses(st.ms) = MAddresses(ms)
      BY <1>0, <1>1
    <2> QED
      BY Zenon, <1>0, <2>1, <2>2 DEF Distributed, Served, NoOlder
  <1>2. CASE a \notin MAddresses(ms)
    <2>1. st.q = {tx \in {Offered(ty, a) : ty \in q} : ~AtLimit(tx)} /\ st.g = Counted(g, q, a)
      <3>1. PICK kn : kn = Group(ms, q, g)
        BY Zenon
      <3>2. kn.ms = ms /\ kn.q = q /\ kn.g = g
        BY <3>1 DEF Group
      <3>3. PICK x, y, z : /\ x = kn.ms \cup {[a |-> a, age |-> 0]}
                           /\ y = {tx \in {Offered(ty, a) : ty \in kn.q} : ~AtLimit(tx)}
                           /\ z = Counted(kn.g, kn.q, a)
        BY Zenon
      <3>4. st = Group(x, y, z)
        <4>1. st = Added(kn, a) /\ a \notin MAddresses(kn.ms)
          BY Zenon, <1>2, <3>1, <3>2 DEF Adds
        <4> QED
          BY Zenon, <3>3, <4>1 DEF Adds, Added, Group
      <3>5. st.q = y /\ st.g = z
        BY <3>4 DEF Group
      <3> QED
        BY Zenon, <3>2, <3>3, <3>5
    <2>2. Sending(st.g) /\ \A tx \in q : ~AtLimit(tx) => Reach(st.g, tx.n) = tx.log \cup {a}
      <3>1. Counts(g, q, a, st.g)
        BY Zenon, <2>1 DEF Counts
      <3>2. Sending(st.g) /\ ReachesAlso(q, a, st.g)
        BY Zenon, <3>1, CountedSends
      <3> QED
        BY Zenon, <3>2 DEF ReachesAlso
    <2>3. ASSUME NEW tx \in st.q
          PROVE  \E ty \in q : /\ tx \in [n : 1..s, age : Nat, log : SUBSET Peers]
                               /\ tx.n = ty.n /\ tx.age = ty.age /\ tx = Offered(ty, a)
                               /\ tx.log = Reach(st.g, tx.n) /\ MAddresses(st.ms) \subseteq tx.log
      <3>1. PICK ty \in q : tx = Offered(ty, a) /\ ~AtLimit(tx)
        BY Zenon, <2>1
      <3>2. /\ tx \in [n : 1..s, age : Nat, log : SUBSET Peers]
            /\ tx.n = ty.n /\ tx.age = ty.age /\ tx.log = ty.log \cup {a} /\ ~AtLimit(ty)
        <4>1. Offers(ty, a, tx)
          BY Zenon, <3>1 DEF Offers
        <4>2. SendsAlso(ty, a, tx, s)
          BY Zenon, <3>1, <4>1, OfferedOne
        <4> QED
          BY Zenon, <4>2 DEF SendsAlso
      <3>3. tx.log = Reach(st.g, tx.n)
        BY Zenon, <2>2, <3>2
      <3>4. MAddresses(ms) \subseteq ty.log
        BY Zenon, <3>2 DEF Distributed, Served
      <3>5. MAddresses(st.ms) \subseteq tx.log
        BY Zenon, <1>0, <3>2, <3>4
      <3> QED
        BY Zenon, <3>1, <3>2, <3>3, <3>5
    <2>4. ASSUME NEW tx \in st.q, NEW tz \in st.q, tx.n = tz.n PROVE tx = tz
      <3>1. PICK ty \in q : tx.n = ty.n /\ tx = Offered(ty, a)
        BY Zenon, <2>3
      <3>2. PICK tu \in q : tz.n = tu.n /\ tz = Offered(tu, a)
        BY Zenon, <2>3
      <3>3. ty = tu
        BY Zenon, <2>4, <3>1, <3>2 DEF Distributed, Waiting
      <3> QED
        BY Zenon, <3>1, <3>2, <3>3
    <2>5. Waiting(st.q, st.g, s)
      BY Zenon, <2>3, <2>4 DEF Waiting
    <2>6. Served(st.ms, st.q)
      BY Zenon, <2>3 DEF Served
    <2> QED
      BY Zenon, <1>0, <2>2, <2>3, <2>5, <2>6 DEF Distributed, NoOlder
  <1> QED
    BY Zenon, <1>1, <1>2

(* Whoever is learned, waiting multicasts do not get older.                *)
LEMMA AddedInTime ==
    ASSUME NEW ms, NEW q, NEW g, NEW s \in 0..MaxSends, Distributed(ms, q, g, s), NEW a \in Peers,
           NEW st, Adds(ms, q, g, a, st), NEW c, InTime(q, c)
    PROVE  InTime(st.q, c)
  <1>1. NoOlder(q, st.q)
    BY Zenon, AddedDistributes
  <1> QED
    BY Zenon, <1>1 DEF InTime, NoOlder

(* Nor is a subscriber forgotten, its entry being no older.                *)
LEMMA AddedRemembers ==
    ASSUME NEW ms, Listing(ms), NEW q, NEW g, NEW a \in Peers,
           NEW st, Adds(ms, q, g, a, st),
           NEW k \in Nat, NEW t \in Nat, Remembered(ms, k, t) \/ a = Subscriber
    PROVE  Remembered(st.ms, k, t)
  <1>0. ListsAlso(ms, a, st.ms)
    BY Zenon, AddedLists
  <1>1. /\ MAddresses(st.ms) = MAddresses(ms) \cup {a}
        /\ \A m \in st.ms : IF m.a = a THEN m.age = 0 ELSE m \in ms
    BY Zenon, <1>0 DEF ListsAlso
  <1>2. Pause \in Nat /\ k * Pause + t \in Nat
    BY MulticastAssumption DEF Pause
  <1>3. Subscriber \in MAddresses(st.ms)
    BY <1>1 DEF Remembered
  <1>4. ASSUME NEW m \in st.ms, m.a = Subscriber PROVE m.age <= k * Pause + t
    <2>1. CASE m.a = a
      BY <1>1, <1>2, <2>1
    <2>2. CASE m.a # a
      <3>1. m \in ms /\ Remembered(ms, k, t)
        BY Zenon, <1>1, <1>4, <2>2
      <3> QED
        BY Zenon, <1>4, <3>1 DEF Remembered
    <2> QED
      BY Zenon, <2>1, <2>2
  <1> QED
    BY Zenon, <1>3, <1>4 DEF Remembered

(* Learning addresses.                                                     *)
LEMMA LearnKeeps ==
    ASSUME MulticastInv, NEW a \in Peers, NEW b \in Peers, Learn(a, b)
    PROVE  MulticastInv'
  <1>0. PICK st : Adds(members, txQueue, got, a, st)
    BY Zenon DEF Adds
  <1>1. PICK su : su = Added(st, b)
    BY Zenon
  <1>2. members' = su.ms /\ txQueue' = su.q /\ got' = su.g
    BY Zenon, <1>0, <1>1 DEF Learn, Becomes, Known, Adds
  <1>3. /\ sends \in 0..MaxSends /\ Distributed(members, txQueue, got, sends)
        /\ InTime(txQueue, sinceClean) /\ lost \in Nat /\ announced \in Nat
    BY MulticastAssumption DEF MulticastInv, Pause
  <1>4. st = Group(st.ms, st.q, st.g)
    BY <1>0 DEF Adds, Added, Group
  <1>5. PICK x, y, z : x = st.ms /\ y = st.q /\ z = st.g
    BY Zenon
  <1>6. Adds(x, y, z, b, su)
    BY Zenon, <1>1, <1>4, <1>5 DEF Adds
  <1>7. Distributed(x, y, z, sends) /\ InTime(y, sinceClean)
    BY Zenon, <1>0, <1>3, <1>5, AddedDistributes, AddedInTime
  <1>8. Distributed(su.ms, su.q, su.g, sends) /\ InTime(su.q, sinceClean)
    BY Zenon, <1>3, <1>6, <1>7, AddedDistributes, AddedInTime
  <1>9. listed => Remembered(su.ms, lost, announced)
    <2> SUFFICES ASSUME listed PROVE Remembered(su.ms, lost, announced)
      OBVIOUS
    <2>1. Listing(members) /\ Listing(x) /\ Remembered(members, lost, announced)
      BY Zenon, <1>3, <1>7 DEF Distributed, MulticastInv
    <2>2. Remembered(x, lost, announced)
      BY Zenon, <1>0, <1>3, <1>5, <2>1, AddedRemembers
    <2> QED
      BY Zenon, <1>3, <1>6, <2>1, <2>2, AddedRemembers
  <1> QED
    BY Zenon, <1>2, <1>8, <1>9 DEF MulticastInv, Learn

(* The subscriber announces itself.                                        *)
LEMMA AnnounceKeeps ==
    ASSUME MulticastInv, NEW arrives \in BOOLEAN, Announce(arrives)
    PROVE  MulticastInv'
  <1>0. /\ sends \in 0..MaxSends /\ Distributed(members, txQueue, got, sends)
        /\ InTime(txQueue, sinceClean) /\ lost \in 0..MaxLost /\ announced \in 0..Pause
        /\ Pause \in Nat /\ MaxLost \in Nat /\ Subscriber \in Peers
    BY MulticastAssumption DEF MulticastInv, Pause
  <1>1. sends' = sends /\ sinceClean' = sinceClean /\ announced' = 0 /\ announced' \in 0..Pause
    BY <1>0 DEF Announce
  <1>2. CASE arrives
    <2>0. PICK st : Adds(members, txQueue, got, Subscriber, st)
      BY Zenon DEF Adds
    <2>1. members' = st.ms /\ txQueue' = st.q /\ got' = st.g /\ lost' = 0
      BY Zenon, <1>2, <2>0 DEF Announce, Becomes, Known, Adds
    <2>2. Distributed(st.ms, st.q, st.g, sends) /\ InTime(st.q, sinceClean)
      BY Zenon, <1>0, <2>0, AddedDistributes, AddedInTime
    <2>3. Listing(members)
      BY Zenon, <1>0 DEF Distributed
    <2>4. Remembered(st.ms, 0, 0)
      <3>1. 0 \in Nat
        OBVIOUS
      <3> QED
        BY Zenon, <1>0, <2>0, <2>3, <3>1, AddedRemembers
    <2>5. lost' \in 0..MaxLost
      BY <1>0, <2>1
    <2> QED
      BY Zenon, <1>1, <2>1, <2>2, <2>4, <2>5 DEF MulticastInv
  <1>3. CASE ~arrives
    <2>1. /\ members' = members /\ txQueue' = txQueue /\ got' = got /\ listed' = listed
          /\ lost < MaxLost /\ lost' = lost + 1
      BY Zenon, <1>3 DEF Announce
    <2>2. lost' \in 0..MaxLost
      BY <1>0, <2>1
    <2>3. ASSUME listed PROVE Remembered(members, lost', announced')
      <3>1. Remembered(members, lost, announced)
        BY Zenon, <2>3 DEF MulticastInv
      <3>2. lost * Pause + announced <= (lost + 1) * Pause + 0
        BY <1>0
      <3>3. lost * Pause + announced \in Nat /\ (lost + 1) * Pause + 0 \in Nat
        BY <1>0
      <3>4. \A m \in members : m.age \in Nat
        BY <1>0 DEF Distributed, Listing
      <3>5. PICK u \in Nat, v \in Nat : u = lost * Pause + announced /\ v = (lost + 1) * Pause + 0 /\ u <= v
        BY Zenon, <3>2, <3>3
      <3>6. \A m \in members : m.a = Subscriber => m.age <= u
        BY Zenon, <3>1, <3>5 DEF Remembered
      <3>7. \A m \in members : m.a = Subscriber => m.age <= v
        BY <3>4, <3>5, <3>6
      <3> QED
        BY Zenon, <1>1, <2>1, <3>1, <3>5, <3>7 DEF Remembered
    <2> QED
      BY Zenon, <1>0, <1>1, <2>1, <2>2, <2>3 DEF MulticastInv
  <1> QED
    BY Zenon, <1>2, <1>3

(* Fewer members, waiting multicasts or both: Unlike() and clean().        *)
LEMMA FewerDistributed ==
    ASSUME NEW ms, NEW q, NEW g, NEW s, Distributed(ms, q, g, s), NEW c, InTime(q, c),
           NEW ms2 \in SUBSET ms, NEW q2 \in SUBSET q
    PROVE  Distributed(ms2, q2, g, s) /\ InTime(q2, c)
  <1>1. MAddresses(ms2) \subseteq MAddresses(ms)
    BY Zenon DEF MAddresses
  <1>2. Listing(ms2) /\ Waiting(q2, g, s) /\ InTime(q2, c)
    BY Zenon DEF Distributed, Listing, Waiting, InTime
  <1>3. Served(ms2, q2)
    BY Zenon, <1>1 DEF Distributed, Served
  <1> QED
    BY Zenon, <1>2, <1>3 DEF Distributed

(* A member goes: never the subscriber.                                    *)
LEMMA UnlikeKeeps ==
    ASSUME MulticastInv, NEW a \in Peers \ {Subscriber}, Unlike(a)
    PROVE  MulticastInv'
  <1>1. members' = {m \in members : m.a # a} /\ members' \in SUBSET members /\ txQueue \in SUBSET txQueue
    BY Zenon DEF Unlike
  <1>2. Distributed(members', txQueue, got, sends) /\ InTime(txQueue, sinceClean)
    BY Zenon, <1>1, FewerDistributed DEF MulticastInv
  <1>3. ASSUME listed PROVE Remembered(members', lost, announced)
    BY Zenon, <1>1, <1>3 DEF MulticastInv, Remembered, MAddresses
  <1> QED
    BY Zenon, <1>2, <1>3 DEF MulticastInv, Unlike

(* clean(): the subscriber's entry is too young to go.                     *)
LEMMA CleanKeeps ==
    ASSUME MulticastInv, NEW future, Clean(future)
    PROVE  MulticastInv'
  <1>1. /\ members' \in SUBSET members /\ members' = {m \in members : MemberLives(m)}
        /\ txQueue' \in SUBSET txQueue /\ txQueue' = {tx \in txQueue : TxLives(tx, future)}
        /\ sends' = sends /\ got' = got /\ announced' = announced /\ lost' = lost /\ listed' = listed
        /\ sinceClean' = 0
    BY Zenon DEF Clean
  <1>2. Distributed(members', txQueue', got, sends)
    BY Zenon, <1>1, FewerDistributed DEF MulticastInv
  <1>3. InTime(txQueue', 0)
    <2>1. \A tx \in txQueue' : tx.age < TransmitTimeout
      BY Zenon, <1>1 DEF TxLives
    <2>2. \A tx \in txQueue' : tx.age \in Nat
      BY <1>2 DEF Distributed, Waiting
    <2> QED
      BY <2>1, <2>2, MulticastAssumption DEF InTime
  <1>4. ASSUME listed PROVE Remembered(members', lost, announced)
    <2>1. Remembered(members, lost, announced)
      BY Zenon, <1>4 DEF MulticastInv
    <2>2. /\ lost \in 0..MaxLost /\ announced \in 0..Pause /\ Pause \in Nat /\ MaxLost \in Nat
          /\ (MaxLost + 1) * Pause < LikeExpire /\ LikeExpire \in Nat
      BY MulticastAssumption DEF MulticastInv, Pause
    <2>3. lost * Pause + announced < LikeExpire
      <3>1. lost * Pause <= MaxLost * Pause
        BY <2>2
      <3>2. (MaxLost + 1) * Pause = MaxLost * Pause + Pause
        BY <2>2
      <3>3. lost * Pause \in Nat /\ MaxLost * Pause \in Nat
        BY <2>2
      <3> QED
        BY <2>2, <3>1, <3>2, <3>3
    <2>4. PICK u \in Nat : u = lost * Pause + announced
      BY <2>2
    <2>5. \A m \in members : m.age \in Nat
      BY DEF MulticastInv, Distributed, Listing
    <2>6. \A m \in members : m.a = Subscriber => m.age <= u
      BY Zenon, <2>1, <2>4 DEF Remembered
    <2>7. \A m \in members : m.a = Subscriber => m.age < LikeExpire
      BY <2>2, <2>3, <2>4, <2>5, <2>6
    <2>8. \A m \in members : m.a = Subscriber => m \in members'
      BY Zenon, <1>1, <2>7 DEF MemberLives
    <2> QED
      BY Zenon, <1>1, <2>1, <2>8 DEF Remembered, MAddresses
  <1>5. sinceClean' \in 0..Housekeeping
    BY <1>1, MulticastAssumption
  <1> QED
    BY Zenon, <1>1, <1>2, <1>3, <1>4, <1>5 DEF MulticastInv

(* A tick.                                                                 *)
LEMMA WaitKeeps ==
    ASSUME MulticastInv, Wait
    PROVE  MulticastInv'
  <1> DEFINE F(m) == [m EXCEPT !.age = @ + 1]
  <1>1. /\ members' = {F(m) : m \in members} /\ txQueue' = {F(tx) : tx \in txQueue}
        /\ sends' = sends /\ got' = got /\ lost' = lost /\ listed' = listed
        /\ announced' = announced + 1 /\ sinceClean' = sinceClean + 1
    BY Zenon DEF Wait
  <1>2. /\ announced \in 0..Pause /\ announced' \in 0..Pause /\ Pause \in Nat /\ lost \in 0..MaxLost
        /\ sinceClean \in Nat /\ sinceClean' \in 0..Housekeeping /\ MaxLost \in Nat
    BY MulticastAssumption DEF MulticastInv, Wait, Pause
  <1>3. \A m \in members : /\ F(m) \in [a : Peers, age : Nat]
                           /\ F(m).a = m.a /\ F(m).age = m.age + 1 /\ m.age \in Nat
    BY DEF MulticastInv, Distributed, Listing
  <1>4. \A tx \in txQueue : /\ F(tx) \in [n : 1..sends, age : Nat, log : SUBSET Peers]
                            /\ F(tx).n = tx.n /\ F(tx).log = tx.log /\ F(tx).age = tx.age + 1
                            /\ tx.age \in Nat
    BY DEF MulticastInv, Distributed, Waiting
  <1> HIDE DEF F
  <1>5. Listing(members') /\ MAddresses(members') = MAddresses(members)
    BY <1>1, <1>3 DEF Listing, MAddresses
  <1>6. Waiting(txQueue', got, sends)
    <2>0. /\ \A tx, ty \in txQueue : tx.n = ty.n => tx = ty
          /\ \A tx \in txQueue : tx.log = Reach(got, tx.n)
      BY Zenon DEF MulticastInv, Distributed, Waiting
    <2>1. \A x \in txQueue' : x \in [n : 1..sends, age : Nat, log : SUBSET Peers]
      BY Zenon, <1>1, <1>4
    <2>2. ASSUME NEW x \in txQueue', NEW y \in txQueue', x.n = y.n PROVE x = y
      <3>1. PICK tx \in txQueue, ty \in txQueue : x = F(tx) /\ y = F(ty)
        BY Zenon, <1>1
      <3>2. tx.n = ty.n
        BY Zenon, <1>4, <2>2, <3>1
      <3>3. tx = ty
        BY Zenon, <2>0, <3>2
      <3> QED
        BY Zenon, <3>1, <3>3
    <2>3. \A x \in txQueue' : x.log = Reach(got, x.n)
      BY <1>1, <1>4, <2>0
    <2> QED
      BY Zenon, <2>1, <2>2, <2>3 DEF Waiting
  <1>7. Served(members', txQueue')
    BY Zenon, <1>1, <1>4, <1>5 DEF MulticastInv, Distributed, Served, AtLimit
  <1>8. InTime(txQueue', sinceClean')
    <2>1. \A tx \in txQueue : tx.age <= TransmitTimeout + sinceClean
      BY Zenon DEF MulticastInv, InTime
    <2>2. \A tx \in txQueue : tx.age + 1 <= TransmitTimeout + (sinceClean + 1)
      BY <1>2, <1>4, <2>1, MulticastAssumption
    <2> QED
      BY Zenon, <1>1, <1>4, <2>2 DEF InTime
  <1>9. ASSUME listed PROVE Remembered(members', lost, announced')
    <2>1. Remembered(members, lost, announced)
      BY Zenon, <1>9 DEF MulticastInv
    <2>2. PICK u \in Nat : u = lost * Pause + announced /\ u + 1 = lost * Pause + (announced + 1)
      <3>1. lost * Pause \in Nat
        BY <1>2
      <3> QED
        BY <1>2, <3>1
    <2>3. \A m \in members : m.a = Subscriber => m.age <= u
      BY Zenon, <2>1, <2>2 DEF Remembered
    <2>4. \A m \in members : m.a = Subscriber => m.age + 1 <= u + 1
      BY <1>3, <2>3
    <2>5. \A x \in members' : x.a = Subscriber => x.age <= u + 1
      BY Zenon, <1>1, <1>3, <2>4
    <2> QED
      BY Zenon, <1>1, <1>5, <2>1, <2>2, <2>5 DEF Remembered
  <1>10. sends \in 0..MaxSends /\ Sending(got)
    BY Zenon DEF MulticastInv, Distributed
  <1> QED
    BY Zenon, <1>1, <1>2, <1>5, <1>6, <1>7, <1>8, <1>9, <1>10 DEF MulticastInv, Distributed

(* A loop over candidates takes no more than it may; if it stops early it  *)
(* has taken that many.                                                    *)
LEMMA UpToFacts ==
    ASSUME NEW most \in Nat, NEW candidates \in SUBSET Peers, NEW chosen, UpTo(most, chosen, candidates)
    PROVE  /\ chosen \in SUBSET Peers /\ Cardinality(chosen) \in Nat /\ Cardinality(chosen) <= most
           /\ chosen = candidates \/ Cardinality(chosen) = most
  <1>1. chosen \in SUBSET Peers /\ chosen \subseteq candidates
    BY DEF UpTo
  <1>2. Cardinality(chosen) \in Nat /\ Cardinality(candidates) \in Nat /\ IsFiniteSet(candidates)
    BY Zenon, <1>1, LogSize
  <1>3. Cardinality(chosen) = Cardinality(candidates) => chosen = candidates
    BY Zenon, <1>1, <1>2, FS_Subset
  <1> QED
    BY <1>1, <1>2, <1>3 DEF UpTo

(* send(): the multicast goes to each once and within the limit, and if it *)
(* waits it has gone to all members or is at its limit.                    *)
LEMMA SendOutKeeps ==
    ASSUME MulticastInv, NEW first, NEW chosen, SendOut(first, chosen)
    PROVE  MulticastInv'
  <1>0. /\ sends \in 0..MaxSends /\ sends + 1 \in 1..MaxSends /\ sends' = sends + 1 /\ sends' \in 0..MaxSends
        /\ members' = members /\ sinceClean' = sinceClean /\ announced' = announced /\ lost' = lost
        /\ listed' = listed
    BY MulticastAssumption DEF MulticastInv, SendOut
  <1>1. /\ Listing(members) /\ Sending(got) /\ Waiting(txQueue, got, sends) /\ Served(members, txQueue)
        /\ InTime(txQueue, sinceClean)
    BY Zenon DEF MulticastInv, Distributed
  <1>2. MAddresses(members) \in SUBSET Peers /\ OtherMembers \in SUBSET Peers /\ Bridges \in SUBSET Peers
    <2>1. MAddresses(members) \in SUBSET Peers
      BY <1>1 DEF Listing, MAddresses
    <2> QED
      BY <2>1, MulticastAssumption DEF OtherMembers
  <1>3. /\ first \in SUBSET Peers /\ Cardinality(first) \in Nat /\ Cardinality(first) <= Limit
        /\ first = Bridges \/ Cardinality(first) = Limit
    BY <1>2, UpToFacts, MulticastAssumption DEF SendOut
  <1>4. Limit \in Nat /\ Limit - Cardinality(first) \in Nat
    BY <1>3, MulticastAssumption
  <1>5. /\ chosen \in SUBSET Peers /\ Cardinality(chosen) \in Nat
        /\ Cardinality(chosen) <= Limit - Cardinality(first)
        /\ chosen = OtherMembers \/ Cardinality(chosen) = Limit - Cardinality(first)
    BY <1>2, <1>4, UpToFacts DEF SendOut
  <1>6. first \cap chosen = {}
    BY DEF SendOut, UpTo, OtherMembers
  <1>7. PICK log \in SUBSET Peers : log = first \cup chosen
    BY Zenon, <1>3, <1>5
  <1>8. Cardinality(log) = Cardinality(first) + Cardinality(chosen)
    <2>1. IsFiniteSet(first) /\ IsFiniteSet(chosen)
      BY Zenon, <1>3, <1>5, LogSize
    <2>2. Cardinality(first \cap chosen) = 0
      BY Zenon, <1>6, FS_EmptySet
    <2>3. Cardinality(log) = Cardinality(first) + Cardinality(chosen) - Cardinality(first \cap chosen)
      BY Zenon, <1>7, <2>1, FS_Union
    <2> QED
      BY <1>3, <1>5, <2>2, <2>3
  <1>9. PICK sent : sent = [p \in Peers |-> Times(p, first) + Times(p, chosen)]
    BY Zenon
  <1>10. sent \in [Peers -> 0..1] /\ \A p \in Peers : sent[p] > 0 <=> p \in log
    BY <1>6, <1>7, <1>9 DEF Times
  <1>11. got' = [got EXCEPT ![sends + 1] = sent]
    BY Zenon, <1>9 DEF SendOut
  <1>12. got \in [1..MaxSends -> [Peers -> 0..1]]
    BY Zenon, <1>1 DEF Sending
  <1>13. /\ got' \in [1..MaxSends -> [Peers -> 0..1]]
         /\ got'[sends + 1] = sent /\ \A n \in 1..sends : got'[n] = got[n]
         /\ \A n \in 1..MaxSends : n # sends + 1 => got'[n] = got[n]
    BY <1>0, <1>10, <1>11, <1>12
  <1>14. Reach(got', sends + 1) = log /\ \A n \in 1..MaxSends : n # sends + 1 => Reach(got', n) = Reach(got, n)
    <2>1. Reach(got', sends + 1) = log
      BY <1>7, <1>10, <1>13 DEF Reach
    <2> QED
      BY Zenon, <1>13, <2>1 DEF Reach
  <1>15. Sending(got')
    <2>1. Cardinality(log) <= Limit
      BY <1>3, <1>4, <1>5, <1>8
    <2>2. \A n \in 1..MaxSends : Cardinality(Reach(got', n)) <= Limit
      BY Zenon, <1>1, <1>14, <2>1 DEF Sending
    <2> QED
      BY Zenon, <1>13, <2>2 DEF Sending
  <1>16. \A tx \in txQueue : /\ tx \in [n : 1..(sends + 1), age : Nat, log : SUBSET Peers]
                             /\ tx.n \in 1..MaxSends /\ tx.n # sends + 1 /\ tx.log = Reach(got', tx.n)
    <2>1. ASSUME NEW tx \in txQueue
          PROVE  /\ tx \in [n : 1..(sends + 1), age : Nat, log : SUBSET Peers]
                 /\ tx.n \in 1..MaxSends /\ tx.n # sends + 1
      <3>1. tx \in [n : 1..sends, age : Nat, log : SUBSET Peers]
        BY Zenon, <1>1 DEF Waiting
      <3>2. \A n \in 1..sends : n \in 1..(sends + 1) /\ n \in 1..MaxSends /\ n # sends + 1
        BY <1>0, MulticastAssumption
      <3>3. tx.n \in 1..sends
        BY <3>1
      <3>4. tx.n \in 1..(sends + 1) /\ tx.n \in 1..MaxSends /\ tx.n # sends + 1
        BY Zenon, <3>2, <3>3
      <3>5. tx = [n |-> tx.n, age |-> tx.age, log |-> tx.log] /\ tx.age \in Nat /\ tx.log \in SUBSET Peers
        BY <3>1
      <3>6. tx \in [n : 1..(sends + 1), age : Nat, log : SUBSET Peers]
        BY <3>4, <3>5
      <3> QED
        BY Zenon, <3>4, <3>6
    <2> QED
      BY Zenon, <1>1, <1>14, <2>1 DEF Waiting
  <1>17. CASE txQueue' = txQueue
    <2>1. Waiting(txQueue, got', sends + 1)
      BY Zenon, <1>1, <1>16 DEF Waiting
    <2> QED
      BY Zenon, <1>0, <1>1, <1>15, <1>17, <2>1 DEF MulticastInv, Distributed
  <1>18. CASE txQueue' # txQueue
    <2>1. PICK new : new = [n |-> sends + 1, age |-> 0, log |-> log]
      BY Zenon
    <2>2. txQueue' = txQueue \cup {new}
      BY Zenon, <1>7, <1>18, <2>1 DEF SendOut
    <2>3. /\ new \in [n : 1..(sends + 1), age : Nat, log : SUBSET Peers]
          /\ new.n = sends + 1 /\ new.age = 0 /\ new.log = log
      BY <1>0, <2>1
    <2>4. Waiting(txQueue', got', sends + 1)
      <3>1. \A tx \in txQueue' : /\ tx \in [n : 1..(sends + 1), age : Nat, log : SUBSET Peers]
                                 /\ tx.log = Reach(got', tx.n)
        BY Zenon, <1>14, <1>16, <2>2, <2>3
      <3>2. \A tx, ty \in txQueue' : tx.n = ty.n => tx = ty
        BY Zenon, <1>1, <1>16, <2>2, <2>3 DEF Waiting
      <3> QED
        BY Zenon, <3>1, <3>2 DEF Waiting
    <2>5. AtLimit(new) \/ MAddresses(members) \subseteq new.log
      <3>1. CASE Cardinality(log) = Limit
        BY <1>4, <2>3, <3>1 DEF AtLimit
      <3>2. CASE Cardinality(log) # Limit
        <4>1. first = Bridges /\ chosen = OtherMembers
          BY <1>3, <1>4, <1>5, <1>8, <3>2, LogSize
        <4> QED
          BY <1>7, <2>3, <4>1 DEF OtherMembers
      <3> QED
        BY Zenon, <3>1, <3>2
    <2>6. Served(members, txQueue')
      BY Zenon, <1>1, <2>2, <2>5 DEF Served
    <2>7. InTime(txQueue', sinceClean)
      <3>1. 0 <= TransmitTimeout + sinceClean
        BY MulticastAssumption DEF MulticastInv
      <3> QED
        BY Zenon, <1>1, <2>2, <2>3, <3>1 DEF InTime
    <2> QED
      BY Zenon, <1>0, <1>1, <1>15, <2>4, <2>6, <2>7 DEF MulticastInv, Distributed
  <1> QED
    BY Zenon, <1>17, <1>18

(* Initially nothing is known and nothing waits.                           *)
LEMMA InitMulticast == MulticastInit => MulticastInv
  <1> SUFFICES ASSUME MulticastInit PROVE MulticastInv
    OBVIOUS
  <1>1. /\ sends \in 0..MaxSends /\ sinceClean \in 0..Housekeeping
        /\ announced \in 0..Pause /\ lost \in 0..MaxLost /\ ~listed
    BY MulticastAssumption DEF MulticastInit, Pause
  <1>2. Sending(got)
    <2>1. \A n \in 1..MaxSends : Reach(got, n) = {}
      BY DEF MulticastInit, Reach
    <2>2. Cardinality({}) <= Limit
      BY FS_EmptySet, MulticastAssumption
    <2>3. got \in [1..MaxSends -> [Peers -> 0..1]]
      BY DEF MulticastInit
    <2> QED
      BY Zenon, <2>1, <2>2, <2>3 DEF Sending
  <1>3. Listing(members) /\ Waiting(txQueue, got, sends) /\ Served(members, txQueue) /\ InTime(txQueue, sinceClean)
    BY DEF MulticastInit, Listing, Waiting, Served, InTime
  <1> QED
    BY Zenon, <1>1, <1>2, <1>3 DEF MulticastInv, Distributed

(* Every step keeps the invariant.                                         *)
LEMMA NextMulticast == MulticastInv /\ [MulticastNext]_multicastVars => MulticastInv'
  <1>1. ASSUME MulticastInv, UNCHANGED multicastVars PROVE MulticastInv'
    BY Zenon, <1>1 DEF MulticastInv, multicastVars
  <1> QED
    BY Zenon, <1>1, LearnKeeps, AnnounceKeeps, UnlikeKeeps, CleanKeeps, WaitKeeps, SendOutKeeps DEF MulticastNext

(* Every multicast reaches a peer once and no more peers than the limit,   *)
(* whoever is listed, leaves the list and is learned again while it waits. *)
THEOREM AlwaysSentOnce == MulticastSpec => []SentOnce
  <1>1. MulticastInv => SentOnce
    <2> SUFFICES ASSUME MulticastInv PROVE SentOnce
      OBVIOUS
    <2>1. got \in [1..MaxSends -> [Peers -> 0..1]] /\ \A n \in 1..MaxSends : Cardinality(Reach(got, n)) <= Limit
      BY Zenon DEF MulticastInv, Distributed, Sending
    <2>2. \A n \in 1..MaxSends, p \in Peers : got[n][p] <= 1
      BY <2>1
    <2> QED
      BY Zenon, <2>1, <2>2 DEF SentOnce, Reach
  <1> QED
    BY <1>1, InitMulticast, NextMulticast, PTL DEF MulticastSpec

(* What waits in Multicaster's queue has gone to everybody on the list and *)
(* leaves it at the first clean() after its timeout.                       *)
THEOREM QueueAlwaysSound == MulticastSpec => []QueueSound
  <1>1. MulticastInv => QueueSound
    <2> SUFFICES ASSUME MulticastInv PROVE QueueSound
      OBVIOUS
    <2>1. Served(members, txQueue) /\ InTime(txQueue, sinceClean)
      BY Zenon DEF MulticastInv, Distributed
    <2>2. \A tx \in txQueue : tx.age \in Nat
      BY DEF MulticastInv, Distributed, Waiting
    <2>3. \A tx \in txQueue : tx.age <= TransmitTimeout + Housekeeping
      BY <2>1, <2>2, MulticastAssumption DEF MulticastInv, InTime
    <2> QED
      BY Zenon, <2>1, <2>3 DEF QueueSound, Served
  <1> QED
    BY <1>1, InitMulticast, NextMulticast, PTL DEF MulticastSpec

(* clean() never forgets a subscriber whose announcements get lost no more *)
(* than MaxLost times in a row, for any periods that leave room for these. *)
THEOREM SubscriberStaysListed == MulticastSpec => []StaysListed
  <1>1. MulticastInv => StaysListed
    BY Zenon DEF MulticastInv, Remembered, StaysListed
  <1> QED
    BY <1>1, InitMulticast, NextMulticast, PTL DEF MulticastSpec
=============================================================================
