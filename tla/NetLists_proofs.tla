-------------------------- MODULE NetLists_proofs --------------------------
(***************************************************************************)
(* Proofs about NetLists, for any CIDRs, timeout and clients.              *)
(***************************************************************************)
EXTENDS NetLists, TLAPS

\* A handler has a CIDR in hand exactly between the set and the configuration.
InHand ==
  \A c \in Client :
    IF pc[c] \in {"cfgadd", "cfgremove"} THEN line[c] \in V4 ELSE line[c] = None

\* Nothing is under way while the process is down.
DownIdle == ~up => \A c \in Client : pc[c] = "idle"

\* Two handlers have the same CIDR in hand only after a race for it.
Exclusive ==
  \A c, d \in Client :
    line[c] = line[d] /\ line[c] # None /\ line[c] \notin raced => c = d

\* What a handler has done to an element is still so when it comes to the
\* configuration, unless it raced or the element ran out.
AsLeft ==
  \A c \in Client :
    line[c] \notin raced =>
      /\ pc[c] = "cfgadd" => left[line[c]] # 0 \/ line[c] \in expired
      /\ pc[c] = "cfgremove" => left[line[c]] = 0

\* No element is in its set for longer than one timeout, let alone for good.
Limited == \A x \in CIDR : left[x] \in 0..TimeoutOf

NetInv ==
  TypeOK /\ InHand /\ DownIdle /\ Exclusive /\ AsLeft /\ SetsMatchConfig

-----------------------------------------------------------------------------
\* An element that is added has time left: the default makes up for a timeout
\* of 0.
LEMMA LifespanType == Lifespan(TimeoutOf) \in Rest /\ Lifespan(TimeoutOf) # 0
  BY NetAssumption DEF Lifespan, TimeoutOf, Rest

\* A tick leaves an absent element absent and a type correct.
LEMMA DecrementType ==
  ASSUME NEW t \in Rest
  PROVE  Decrement(t) \in Rest /\ (t = 0 => Decrement(t) = 0)
  BY NetAssumption DEF Decrement, Rest

LEMMA InitNetInv ==
  ASSUME Init
  PROVE  NetInv
<1>1. TypeOK
  BY DEF Init, TypeOK, Rest, CIDR
<1>2. InHand /\ DownIdle /\ Exclusive /\ AsLeft /\ SetsMatchConfig
  BY DEF Init, InHand, DownIdle, Exclusive, AsLeft, SetsMatchConfig
<1> QED BY <1>1, <1>2 DEF NetInv

LEMMA StartInv ==
  ASSUME NetInv, Start
  PROVE  NetInv'
<1>1. PICK added \in SUBSET {x \in CIDR : Loads(x)} :
        left' = [x \in CIDR |-> IF x \in added THEN Lifespan(TimeoutOf) ELSE left[x]]
  BY DEF Start
<1>2. \A x \in V6 : ~ipv6 => x \notin added
  BY NetAssumption DEF Loads
<1>3. TypeOK'
  BY <1>1, <1>2, LifespanType DEF NetInv, TypeOK, Start, CIDR, Rest
<1>4. \A c \in Client : pc[c] = "idle" /\ line[c] = None
  BY DEF NetInv, DownIdle, InHand, Start
<1>5. (InHand /\ DownIdle /\ Exclusive /\ AsLeft)'
  BY <1>4 DEF InHand, DownIdle, Exclusive, AsLeft, Start
<1>6. SetsMatchConfig'
  BY DEF SetsMatchConfig, Excused, Start
<1> QED BY <1>3, <1>5, <1>6 DEF NetInv

LEMMA BeginSaveInv ==
  ASSUME NetInv, NEW c \in Client, Begin(c) \/ Save(c)
  PROVE  NetInv'
<1>1. TypeOK'
  BY DEF NetInv, TypeOK, Begin, Save, Goto, ghost
<1>2. (InHand /\ DownIdle /\ Exclusive /\ AsLeft)'
  BY DEF NetInv, TypeOK, InHand, DownIdle, Exclusive, AsLeft, Begin, Save, Goto,
     ghost
<1>3. SetsMatchConfig'
  BY DEF NetInv, SetsMatchConfig, Excused, Begin, Save, Goto, ghost
<1> QED BY <1>1, <1>2, <1>3 DEF NetInv

\* The step on the set.
LEMMA ElementInv ==
  ASSUME NetInv, NEW c \in Client, NEW x \in CIDR,
         AddElement(c, x) \/ RemoveElement(c, x)
  PROVE  NetInv'
<1>1. PICK t \in Rest :
        /\ left' = [left EXCEPT ![x] = t]
        /\ pc'[c] = "cfgadd" => t # 0
        /\ pc'[c] = "cfgremove" => t = 0
        /\ pc' = [pc EXCEPT ![c] = "cfgadd"] \/ pc' = [pc EXCEPT ![c] = "cfgremove"]
  <2>1. 0 \in Rest
    BY DEF Rest
  <2> QED BY <2>1, LifespanType DEF NetInv, TypeOK, AddElement, RemoveElement, Goto
<1>2. x \in V4 /\ up /\ Touch(c, x)
  BY DEF AddElement, RemoveElement, Goto
<1>3. TypeOK'
  BY <1>1, <1>2, NetAssumption DEF NetInv, TypeOK, Touch, CIDR
<1>4. InHand' /\ DownIdle'
  BY <1>1, <1>2, NetAssumption DEF NetInv, TypeOK, InHand, DownIdle, Touch, CIDR
<1>5. Exclusive'
  BY <1>1, <1>2 DEF NetInv, TypeOK, Exclusive, Touch
<1>6. AsLeft'
  BY <1>1, <1>2 DEF NetInv, TypeOK, AsLeft, Touch
<1>7. SetsMatchConfig'
  <2> SUFFICES ASSUME NEW y \in CIDR, ~Excused(y)'
               PROVE  (y \in cfg <=> left[y] # 0)'
    BY DEF SetsMatchConfig
  <2>1. line'[c] = x
    BY <1>2 DEF NetInv, TypeOK, Touch
  <2>2. y # x
    BY <2>1 DEF Excused
  <2>3. ~Excused(y)
    <3>1. \A d \in Client : line[d] # y
      <4>1. line[c] # y
        BY <1>1, <1>2, <2>2, NetAssumption DEF NetInv, InHand, AddElement,
           RemoveElement, Goto, CIDR
      <4> QED BY <4>1, <1>2 DEF Excused, Touch, NetInv, TypeOK
    <3> QED BY <3>1, <1>2, <2>2 DEF Excused, Touch
  <2> QED BY <1>1, <1>2, <2>2, <2>3 DEF NetInv, TypeOK, SetsMatchConfig, Touch
<1> QED BY <1>3, <1>4, <1>5, <1>6, <1>7 DEF NetInv

\* The step on the configuration.
LEMMA ConfigInv ==
  ASSUME NetInv, NEW c \in Client, AddCIDR(c) \/ RemoveCIDR(c)
  PROVE  NetInv'
<1>1. line[c] \in V4
  BY DEF NetInv, InHand, AddCIDR, RemoveCIDR, Goto
<1>2. TypeOK'
  BY <1>1 DEF NetInv, TypeOK, AddCIDR, RemoveCIDR, Goto, CIDR, ghost
<1>3. (InHand /\ DownIdle /\ Exclusive /\ AsLeft)'
  BY DEF NetInv, TypeOK, InHand, DownIdle, Exclusive, AsLeft, AddCIDR,
     RemoveCIDR, Goto, ghost
<1>4. SetsMatchConfig'
  <2> SUFFICES ASSUME NEW y \in CIDR, ~Excused(y)'
               PROVE  (y \in cfg <=> left[y] # 0)'
    BY DEF SetsMatchConfig
  <2>1. CASE y = line[c]
    BY <2>1 DEF NetInv, TypeOK, AsLeft, Excused, AddCIDR, RemoveCIDR, Goto, ghost
  <2>2. CASE y # line[c]
    <3>1. ~Excused(y)
      BY <2>2 DEF NetInv, TypeOK, Excused, AddCIDR, RemoveCIDR, ghost
    <3> QED BY <2>2, <3>1 DEF NetInv, SetsMatchConfig, AddCIDR, RemoveCIDR, Goto
  <2> QED BY <2>1, <2>2
<1> QED BY <1>2, <1>3, <1>4 DEF NetInv

LEMMA ElapseInv ==
  ASSUME NetInv, Elapse
  PROVE  NetInv'
<1>1. \A x \in CIDR : /\ left[x] \in Rest /\ left'[x] = Decrement(left[x])
                      /\ left'[x] \in Rest
                      /\ left[x] = 0 => left'[x] = 0
                      /\ left[x] # 0 /\ left'[x] = 0 => x \in expired'
  BY DecrementType DEF NetInv, TypeOK, Elapse
<1>2. TypeOK'
  <2>1. left' \in [CIDR -> Rest] /\ (ipv6 \/ \A x \in V6 : left'[x] = 0)
    BY <1>1 DEF NetInv, TypeOK, Elapse, CIDR
  <2>2. expired' \subseteq CIDR
    BY DEF NetInv, TypeOK, Elapse
  <2>3. UNCHANGED <<ipv6, cfg, disk, up, handler, unloaded, leftover>>
    BY DEF Elapse
  <2> QED BY <2>1, <2>2, <2>3 DEF NetInv, TypeOK, handler
<1>3. (InHand /\ DownIdle /\ Exclusive)'
  BY DEF NetInv, InHand, DownIdle, Exclusive, Elapse, handler
<1>4. AsLeft'
  <2> SUFFICES ASSUME NEW c \in Client, line[c] \notin raced
               PROVE  /\ pc[c] = "cfgadd" => left'[line[c]] # 0 \/ line[c] \in expired'
                      /\ pc[c] = "cfgremove" => left'[line[c]] = 0
    BY DEF AsLeft, Elapse, handler
  <2>1. pc[c] \in {"cfgadd", "cfgremove"} => line[c] \in CIDR
    BY DEF NetInv, InHand, CIDR
  <2> QED BY <1>1, <2>1 DEF NetInv, AsLeft, Elapse
<1>5. SetsMatchConfig'
  BY <1>1 DEF NetInv, SetsMatchConfig, Excused, Elapse, handler
<1> QED BY <1>2, <1>3, <1>4, <1>5 DEF NetInv

LEMMA StopInv ==
  ASSUME NetInv, Crash \/ Reboot
  PROVE  NetInv'
<1>1. TypeOK'
  <2>1. /\ up' = FALSE
        /\ pc' = [c \in Client |-> "idle"]
        /\ line' = [c \in Client |-> None]
        /\ UNCHANGED <<ipv6, cfg, disk, raced, expired, unloaded, leftover>>
    BY DEF Crash, Reboot, Stop, ghost
  <2>2. /\ left' \in [CIDR -> Rest]
        /\ \A x \in V6 : left[x] = 0 => left'[x] = 0
    BY DEF NetInv, TypeOK, Crash, Reboot, Rest, CIDR
  <2> QED BY <2>1, <2>2 DEF NetInv, TypeOK
<1>2. (InHand /\ DownIdle /\ Exclusive /\ AsLeft /\ SetsMatchConfig)'
  BY DEF NetInv, InHand, DownIdle, Exclusive, AsLeft, SetsMatchConfig, Crash,
     Reboot, Stop
<1> QED BY <1>1, <1>2 DEF NetInv

-----------------------------------------------------------------------------
\* The strengthening of SetsMatchConfig holds in every reachable state.
THEOREM NetInvariant == Spec => []NetInv
<1>1. NetInv /\ [Next]_vars => NetInv'
  <2> SUFFICES ASSUME NetInv, [Next]_vars PROVE NetInv'
    OBVIOUS
  <2>1. CASE UNCHANGED vars
    BY <2>1 DEF vars, handler, ghost, NetInv, TypeOK, InHand, DownIdle, Exclusive,
       AsLeft, SetsMatchConfig, Excused
  <2>2. CASE \E c \in Client : Handler(c)
    BY <2>2, BeginSaveInv, ElementInv, ConfigInv DEF Handler
  <2> QED BY <2>1, <2>2, StartInv, ElapseInv, StopInv DEF Next
<1> QED BY InitNetInv, <1>1, PTL DEF Spec

\* The variables keep their types, and no IPv6 network is routed unless the
\* list enables IPv6.
THEOREM TypeCorrect == Spec => []TypeOK
  BY NetInvariant, PTL DEF NetInv

\* Whatever calls and saves fail, the sets hold the networks of the
\* configuration, apart from races, expiry and what the start-up left.
THEOREM Matching == Spec => []SetsMatchConfig
  BY NetInvariant, PTL DEF NetInv

-----------------------------------------------------------------------------
LEMMA TimeoutType == TimeoutOf \in Nat \ {0} /\ Lifespan(TimeoutOf) = TimeoutOf
  BY NetAssumption DEF Lifespan, TimeoutOf

\* A tick takes from what has time left.
LEMMA DecrementLimited ==
  ASSUME NEW t \in 0..TimeoutOf
  PROVE  Decrement(t) \in 0..t /\ (Decrement(t) # t \/ t = 0)
<1>1. t \in Nat /\ t # Forever
  BY TimeoutType, NetAssumption
<1> QED BY <1>1, NetAssumption DEF Decrement

\* Every way into a set comes with the timeout.
LEMMA StepLimited ==
  ASSUME NetInv, Limited, [Next]_vars
  PROVE  Limited'
<1> SUFFICES ASSUME NEW x \in CIDR PROVE left'[x] \in 0..TimeoutOf
  BY DEF Limited, TimeoutOf
<1>1. left[x] \in 0..TimeoutOf /\ 0 \in 0..TimeoutOf /\ TimeoutOf \in 0..TimeoutOf
  BY TimeoutType DEF Limited
<1>2. CASE Start
  BY <1>1, <1>2, TimeoutType DEF Start
<1>3. CASE Elapse
  <2>1. left'[x] = Decrement(left[x]) /\ Decrement(left[x]) \in 0..left[x]
    BY <1>1, <1>3, DecrementLimited DEF Elapse
  <2> QED BY <1>1, <2>1, TimeoutType
<1>4. CASE Crash \/ Reboot
  BY <1>1, <1>4 DEF Crash, Reboot
<1>5. CASE \E c \in Client : Handler(c)
  BY <1>1, <1>5, TimeoutType DEF Handler, Begin, AddCIDR, RemoveCIDR, Save,
     AddElement, RemoveElement, NetInv, TypeOK
<1>6. CASE UNCHANGED vars
  BY <1>1, <1>6 DEF vars
<1> QED BY <1>2, <1>3, <1>4, <1>5, <1>6 DEF Next

\* Only a step that puts the CIDR into the configuration, or takes it in hand,
\* gives its element time.
LEMMA StepRunsDown ==
  ASSUME NetInv, Limited, [Next]_vars, NEW x \in CIDR, x \notin cfg \cup cfg',
         \A c \in Client : x \notin {line[c], line'[c]}
  PROVE  /\ left[x] \in 0..TimeoutOf
         /\ left'[x] \in 0..left[x]
         /\ Elapse => left'[x] # left[x] \/ left[x] = 0
<1>1. left[x] \in 0..TimeoutOf /\ left[x] \in Nat
  BY TimeoutType DEF Limited
<1>2. left[x] \in 0..left[x] /\ 0 \in 0..left[x]
  BY <1>1
<1>3. ASSUME Elapse PROVE left'[x] \in 0..left[x] /\ (left'[x] # left[x] \/ left[x] = 0)
  BY <1>1, <1>3, DecrementLimited DEF Elapse
<1>4. ASSUME Start PROVE left'[x] \in 0..left[x]
  BY <1>2, <1>4 DEF Start, Loads
<1>5. ASSUME Crash \/ Reboot PROVE left'[x] \in 0..left[x]
  BY <1>2, <1>5 DEF Crash, Reboot
<1>6. ASSUME \E c \in Client : Handler(c) PROVE left'[x] \in 0..left[x]
  <2> PICK c \in Client : Handler(c)
    BY <1>6
  <2>1. ASSUME Begin(c) \/ AddCIDR(c) \/ RemoveCIDR(c) \/ Save(c)
        PROVE  left'[x] \in 0..left[x]
    BY <1>2, <2>1 DEF Begin, AddCIDR, RemoveCIDR, Save
  <2>2. ASSUME NEW y \in CIDR, AddElement(c, y) \/ RemoveElement(c, y)
        PROVE  left'[x] \in 0..left[x]
    <3>1. x # y
      BY <2>2 DEF AddElement, RemoveElement, Touch, NetInv, TypeOK
    <3> QED BY <1>2, <2>2, <3>1 DEF AddElement, RemoveElement, NetInv, TypeOK
  <2> QED BY <2>1, <2>2 DEF Handler
<1>7. ASSUME UNCHANGED vars PROVE left'[x] \in 0..left[x]
  BY <1>2, <1>7 DEF vars
<1>8. left'[x] \in 0..left[x]
  BY <1>3, <1>4, <1>5, <1>6, <1>7 DEF Next
<1> QED BY <1>1, <1>3, <1>8

\* What the configuration does not hold leaves its set within one timeout,
\* unless a request takes it up: the safe half of StraysExpire.
THEOREM RunDown == Spec => StraysRunDown
<1>1. Init => Limited
  <2>1. 0 \in 0..TimeoutOf
    BY TimeoutType
  <2> QED BY <2>1 DEF Init, Limited
<1>2. NetInv /\ Limited /\ [Next]_vars => Limited'
  BY StepLimited
<1>3. NetInv /\ Limited /\ [Next]_vars =>
        [\A x \in CIDR :
           (x \notin cfg \cup cfg' /\ \A c \in Client : x \notin {line[c], line'[c]})
             => /\ left[x] \in 0..TimeoutOf
                /\ left'[x] \in 0..left[x]
                /\ Elapse => left'[x] # left[x] \/ left[x] = 0]_vars
  BY StepRunsDown
<1> QED BY <1>1, <1>2, <1>3, NetInvariant, PTL DEF Spec, StraysRunDown
=============================================================================
