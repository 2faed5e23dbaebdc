------------------------------ MODULE NetLists ------------------------------
(***************************************************************************)
(* One list of networks (CIDRs): the configuration of internal/config,     *)
(* the sets of the kernel that internal/ipset reaches through an external  *)
(* library, the start-up in cmd/dns-box/main.go that fills them, and the   *)
(* two handlers of internal/api/handlers.go that change both.              *)
(*                                                                         *)
(* A CIDR of one family cannot be put into a set of the other, so a CIDR   *)
(* stands for its element as well.  Every call into the library may fail.  *)
(* The sets outlive the process, but not the machine; their elements       *)
(* expire.  Time is counted in ticks of the kernel's timer.                *)
(***************************************************************************)
EXTENDS Naturals

CONSTANTS
  V4, V6,      \* CIDRs
  Configured,  \* timeout of the list; 0 if it is not given
  Default,     \* 7200 in the code
  Forever,     \* the rest of an element added with timeout 0
  Client,      \* goroutines of the API server
  None         \* no line under way

CIDR == V4 \cup V6

ASSUME NetAssumption ==
  /\ V4 \cap V6 = {} /\ None \notin CIDR
  /\ Configured \in Nat /\ Default \in Nat \ {0} /\ Forever \notin Nat

VARIABLES
  ipv6,      \* enable_ipv6 of the list
  cfg,       \* its CIDRs in memory
  disk,      \* its CIDRs in config.json
  left,      \* the time each element has left in its set; 0 if absent
  up,        \* the process runs
  pc,        \* where each client's handler is
  line,      \* the CIDR between its set and the configuration
  \* history, read by no guard of the code
  raced,     \* CIDRs that two requests were at together when last changed
  expired,   \* elements that have run out since they were last added
  unloaded,  \* CIDRs that the start-up did not get into their set
  leftover   \* elements that a previous process left behind

handler == <<pc, line, raced>>
ghost   == <<expired, unloaded, leftover>>
vars    == <<ipv6, cfg, disk, left, up, handler, ghost>>

\* Variant: the timeout of the list is used as it is.
TimeoutAsIs == Configured

TimeoutOf == IF Configured = 0 THEN Default ELSE Configured

\* What the kernel makes of it.
Lifespan(t) == IF t = 0 THEN Forever ELSE t

Rest == Nat \cup {Forever}

TypeOK ==
  /\ ipv6 \in BOOLEAN /\ up \in BOOLEAN
  /\ cfg \in SUBSET CIDR /\ disk \in SUBSET CIDR
  /\ left \in [CIDR -> Rest]
  /\ ipv6 \/ \A x \in V6 : left[x] = 0
  /\ pc \in [Client -> {"idle", "add", "remove", "cfgadd", "cfgremove"}]
  /\ line \in [Client -> CIDR \cup {None}]
  /\ \A S \in {raced, expired, unloaded, leftover} : S \subseteq CIDR

\* The machine has just started.
Init ==
  /\ ipv6 \in BOOLEAN
  /\ disk \in SUBSET CIDR /\ cfg = disk
  /\ left = [x \in CIDR |-> 0]
  /\ up = FALSE
  /\ pc = [c \in Client |-> "idle"]
  /\ line = [c \in Client |-> None]
  /\ raced = {} /\ expired = {} /\ unloaded = {} /\ leftover = {}

-----------------------------------------------------------------------------
(* The start-up.                                                           *)

\* Variant: enable_ipv6 is not looked at.
LoadsAll(x) == x \in disk

\* Variant: what is still in the sets is added again.
LoadsPresent(x) == (x \in disk \/ left[x] # 0) /\ (x \in V4 \/ ipv6)

\* IPv4 CIDRs go to the list's set, IPv6 ones to a second set if there is one.
Loads(x) == x \in disk /\ (x \in V4 \/ ipv6)

\* Every CIDR is added again; one that cannot be is logged and left out.
Start ==
  /\ ~up /\ up' = TRUE
  /\ cfg' = disk
  /\ \E added \in SUBSET {x \in CIDR : Loads(x)} :
       left' = [x \in CIDR |-> IF x \in added THEN Lifespan(TimeoutOf) ELSE left[x]]
  /\ unloaded' = {x \in disk : left'[x] = 0}
  /\ leftover' = {x \in CIDR \ disk : left'[x] # 0}
  /\ expired' = {} /\ raced' = {}
  /\ UNCHANGED <<ipv6, disk, pc, line>>

-----------------------------------------------------------------------------
(* addNetListCIDRs and removeNetListCIDRs, a line at a time: the set first, *)
(* then, if that went well, the configuration.  Otherwise the line is      *)
(* reported and nothing changes.  Both name the set of the list, so an     *)
(* IPv6 CIDR is always refused.                                            *)

Goto(c, from, to) ==
  /\ up
  /\ pc[c] = from
  /\ pc' = [pc EXCEPT ![c] = to]

Begin(c) ==
  /\ \E op \in {"add", "remove"} : Goto(c, "idle", op)
  /\ UNCHANGED <<ipv6, cfg, disk, left, up, line, raced, ghost>>

\* The element is what its caller made it, and no longer what an earlier
\* process or the start-up did.
Touch(c, x) ==
  /\ line' = [line EXCEPT ![c] = x]
  /\ raced' = IF \E d \in Client \ {c} : line[d] = x THEN raced \cup {x} ELSE raced \ {x}
  /\ expired' = expired \ {x}
  /\ unloaded' = unloaded \ {x}
  /\ leftover' = leftover \ {x}
  /\ UNCHANGED <<ipv6, cfg, disk, up>>

\* Variant: the error of AddElement is ignored.
AddElementAnyway(c, x) ==
  /\ x \in V4 /\ Goto(c, "add", "cfgadd")
  /\ left' \in {left, [left EXCEPT ![x] = Lifespan(TimeoutOf)]}
  /\ Touch(c, x)

AddElement(c, x) ==
  /\ x \in V4 /\ Goto(c, "add", "cfgadd")
  /\ left' = [left EXCEPT ![x] = Lifespan(TimeoutOf)]
  /\ Touch(c, x)

RemoveElement(c, x) ==
  /\ x \in V4 /\ Goto(c, "remove", "cfgremove")
  /\ left' = [left EXCEPT ![x] = 0]
  /\ Touch(c, x)

\* AddCIDRToNetList and RemoveCIDRFromNetList; on to the next line.
AddCIDR(c) ==
  /\ Goto(c, "cfgadd", "add")
  /\ cfg' = cfg \cup {line[c]}
  /\ line' = [line EXCEPT ![c] = None]
  /\ UNCHANGED <<ipv6, disk, left, up, raced, ghost>>

RemoveCIDR(c) ==
  /\ Goto(c, "cfgremove", "remove")
  /\ cfg' = cfg \ {line[c]}
  /\ line' = [line EXCEPT ![c] = None]
  /\ UNCHANGED <<ipv6, disk, left, up, raced, ghost>>

\* SaveConfig, which may fail, and the answer.
Save(c) ==
  /\ Goto(c, "add", "idle") \/ Goto(c, "remove", "idle")
  /\ disk' \in {disk, cfg}
  /\ UNCHANGED <<ipv6, cfg, left, up, line, raced, ghost>>

-----------------------------------------------------------------------------
(* The kernel, crashes and reboots.                                        *)

Decrement(t) == IF t = Forever \/ t = 0 THEN t ELSE t - 1

Elapse ==
  /\ \E x \in CIDR : left[x] \notin {0, Forever}
  /\ left' = [x \in CIDR |-> Decrement(left[x])]
  /\ expired' = expired \cup {x \in CIDR : left[x] # 0 /\ left'[x] = 0}
  /\ UNCHANGED <<ipv6, cfg, disk, up, handler, unloaded, leftover>>

Stop ==
  /\ up /\ up' = FALSE
  /\ pc' = [c \in Client |-> "idle"]
  /\ line' = [c \in Client |-> None]
  /\ UNCHANGED <<ipv6, cfg, disk, raced, ghost>>

Crash == Stop /\ UNCHANGED left

Reboot == Stop /\ left' = [x \in CIDR |-> 0]

Handler(c) ==
  \/ Begin(c) \/ AddCIDR(c) \/ RemoveCIDR(c) \/ Save(c)
  \/ \E x \in CIDR : AddElement(c, x) \/ RemoveElement(c, x)

Next == Start \/ (\E c \in Client : Handler(c)) \/ Elapse \/ Crash \/ Reboot

Spec == Init /\ [][Next]_vars

\* Time passes.
FairSpec == Spec /\ WF_vars(Elapse)

-----------------------------------------------------------------------------
(* Properties.                                                             *)

\* A handler is between the set and the configuration, the element ran out or
\* was never loaded, an earlier process left it, or two requests raced for it.
Excused(x) ==
  \/ \E c \in Client : line[c] = x
  \/ x \in raced \cup expired \cup unloaded \cup leftover

\* Apart from that the sets hold the networks of the configuration, whatever
\* calls and saves fail, and however often the process is started.
SetsMatchConfig ==
  up => \A x \in CIDR : Excused(x) \/ (x \in cfg <=> left[x] # 0)

\* An element that is not, or no longer, in the configuration is not routed
\* for ever, unless a request takes it up again: neither a crash before the
\* save, nor two requests that raced, nor a process that does not come back
\* leaves a network in its set for good.
StraysExpire ==
  \A x \in CIDR :
    (left[x] # 0 /\ x \notin cfg)
      ~> (left[x] = 0 \/ x \in cfg \/ \E c \in Client : line[c] = x)

\* The safe half of it: an element that is not in the configuration, and
\* that no handler holds, has at most one timeout left, gets no more time, by
\* no start, crash or request for another network, and loses some with every
\* tick.
StraysRunDown ==
  [][\A x \in CIDR :
       (x \notin cfg \cup cfg' /\ \A c \in Client : x \notin {line[c], line'[c]})
         => /\ left[x] \in 0..TimeoutOf
            /\ left'[x] \in 0..left[x]
            /\ Elapse => left'[x] # left[x] \/ left[x] = 0]_vars
=============================================================================
