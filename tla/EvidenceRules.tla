---------------------------- MODULE EvidenceRules ----------------------------
(***************************************************************************)
(* The rules by which the collector organizes its buffer of observations   *)
(* into evidence.  A rule first chooses one observation of each kind it    *)
(* needs (the worst, or the first to arrive) and then asks whether the     *)
(* chosen ones are close in time, so an observation that is out of the     *)
(* window can hide one that is in it.  Observations arrive in any order;   *)
(* the buffer keeps those within the longest window of the newest.  The    *)
(* rules speak of places in the buffer, which is in order of arrival.      *)
(***************************************************************************)
EXTENDS Integers, Sequences, FiniteSets, FiniteSetsExt

CONSTANTS RuleScenes,  \* sets of observations that may arrive together
          WindowOf     \* the window of each rule, in units of captured_at

RuleTypes == {"resource", "service", "auth", "backup", "vmware", "network"}

ASSUME RuleAssumption ==
    /\ WindowOf \in [RuleTypes -> Nat \ {0}]
    /\ \A S \in RuleScenes : \A o \in S : o.at \in Nat /\ o.val \in Nat

VARIABLES scene, buf

ruleVars == <<scene, buf>>

RuleInit == scene \in RuleScenes /\ buf = <<>>

-----------------------------------------------------------------------------
(* Helpers of the rules; G is a group, as places in the buffer              *)

BySource == {{i \in DOMAIN buf : buf[i].src = s} : s \in {buf[i].src : i \in DOMAIN buf}}
ByTenant == {{i \in DOMAIN buf : buf[i].tenant = t} : t \in {buf[i].tenant : i \in DOMAIN buf}}

Groups(type) == IF type \in {"auth", "vmware"} THEN ByTenant ELSE BySource

OfKind(G, k) == {i \in G : buf[i].kind = k}
Keyed(G, k, key) == {i \in OfKind(G, k) : buf[i].key = key}

WithinWindow(P, w) == \A i, j \in P : buf[i].at <= buf[j].at + w

\* One observation that carries its value.
Direct(G, k) == {[pct |-> buf[i].val, obs |-> {i}, pos |-> i] : i \in OfKind(G, k)}

\* Free bytes and total bytes of one device make a percentage, the last ones
\* to arrive; a free value of 0 is taken for a missing one, and the pair is
\* left out.
PairUsage(G, free, total) ==
    LET last(k, key) == Max(Keyed(G, k, key))
        paired(key) == \A k \in {free, total} :
                         Keyed(G, k, key) # {} /\ buf[last(k, key)].val # 0
    IN  {[pct |-> (100 * buf[last(free, key)].val) \div buf[last(total, key)].val,
          obs |-> {last(free, key), last(total, key)},
          pos |-> Len(buf) + Min(Keyed(G, free, key) \cup Keyed(G, total, key))] :
            key \in {x \in {buf[i].key : i \in G} : paired(x)}}

UsedFrom(c) == [pct |-> 100 - c.pct, obs |-> c.obs, pos |-> c.pos]

Usage(G, k, free, total) ==
    Direct(G, k) \cup {UsedFrom(c) : c \in PairUsage(G, free, total)}

FreePercent(G, k, free, total) == Direct(G, k) \cup PairUsage(G, free, total)

Highest(cs) == CHOOSE c \in cs : \A d \in cs : c.pct > d.pct \/ (c.pct = d.pct /\ c.pos <= d.pos)
Lowest(cs) == CHOOSE c \in cs : \A d \in cs : c.pct < d.pct \/ (c.pct = d.pct /\ c.pos <= d.pos)

-----------------------------------------------------------------------------
(* The rules: the observations each chooses in a group, {} for none         *)

ResourceMatch(G) ==
    LET cpu  == Direct(G, "cpu")
        mem  == Usage(G, "memory", "memory_free", "memory_total")
        disk == Usage(G, "disk", "disk_free", "disk_total")
    IN  IF cpu = {} \/ mem = {} \/ disk = {} THEN {}
        ELSE IF /\ Highest(cpu).pct > 90 /\ Highest(mem).pct > 85 /\ Highest(disk).pct > 85
        THEN Highest(cpu).obs \cup Highest(mem).obs \cup Highest(disk).obs ELSE {}

\* The first stopped service with the first error of its name, or else with
\* the first error of any; the name may be missing.
ServiceMatch(G) ==
    LET stopped == OfKind(G, "service_stopped")
        errors  == OfKind(G, "event_error")
        same    == {i \in Keyed(G, "event_error", buf[Min(stopped)].key) : buf[i].key # ""}
    IN  IF stopped = {} \/ errors = {} THEN {}
        ELSE {Min(stopped), Min(IF same # {} THEN same ELSE errors)}

AuthMatch(G) ==
    LET lockouts == OfKind(G, "lockout")
        changes  == OfKind(G, "membership_change")
    IN  IF lockouts = {} \/ changes = {} THEN {} ELSE {Min(lockouts), Min(changes)}

BackupMatch(G) ==
    LET failed == OfKind(G, "job_failed")
        low    == FreePercent(G, "repo", "repo_free", "repo_total")
    IN  IF failed = {} \/ low = {} THEN {}
        ELSE IF Lowest(low).pct < 10 THEN {Min(failed)} \cup Lowest(low).obs ELSE {}

VmwareMatch(G) ==
    LET low  == FreePercent(G, "datastore", "datastore_free", "datastore_total")
        snap == {i \in OfKind(G, "snapshot") : buf[i].val > 7}
    IN  IF low = {} \/ snap = {} THEN {}
        ELSE IF Lowest(low).pct < 15 THEN Lowest(low).obs \cup {Min(snap)} ELSE {}

NetworkMatch(G) ==
    LET high    == {c \in Direct(G, "interface_errors") : c.pct > 100}
        changes == OfKind(G, "port_change")
    IN  IF high = {} \/ changes = {} THEN {} ELSE Highest(high).obs \cup {Min(changes)}

-----------------------------------------------------------------------------
(* The engine                                                               *)

\* Mutant: one direct measurement makes the evidence one.
QualityAny(type, P) ==
    CASE type = "resource" -> IF \E i \in P : buf[i].q = 1 THEN 1 ELSE 2
      [] type \in {"auth", "network"} -> 2
      [] OTHER -> 1

Quality(type, P) ==
    CASE type = "resource" -> IF \A i \in P : buf[i].q = 1 THEN 1 ELSE 2
      [] type \in {"auth", "network"} -> 2
      [] OTHER -> 1

Match(type, G) ==
    CASE type = "resource" -> ResourceMatch(G)
      [] type = "service"  -> ServiceMatch(G)
      [] type = "auth"     -> AuthMatch(G)
      [] type = "backup"   -> BackupMatch(G)
      [] type = "vmware"   -> VmwareMatch(G)
      [] type = "network"  -> NetworkMatch(G)

Evidence(type) ==
    {[type |-> type, obs |-> Match(type, G), q |-> Quality(type, Match(type, G))] :
        G \in {H \in Groups(type) : /\ Match(type, H) # {}
                                    /\ WithinWindow(Match(type, H), WindowOf[type])}}

Organizations == UNION {Evidence(type) : type \in RuleTypes}

MaxWindow == Max({WindowOf[r] : r \in RuleTypes})

\* Mutant: nothing is dropped from the buffer.
PrunedNever(b) == b

\* The observations within the longest window of the newest one, in their
\* order.
Pruned(b) ==
    LET recent == {i \in DOMAIN b : \A j \in DOMAIN b : b[j].at <= b[i].at + MaxWindow} IN
    [n \in 1..Cardinality(recent) |->
        b[CHOOSE i \in recent : Cardinality({j \in recent : j <= i}) = n]]

Arrive(o) ==
    /\ \A i \in DOMAIN buf : buf[i] # o
    /\ buf' = Pruned(Append(buf, o))
    /\ UNCHANGED scene

\* The buffer is in memory only.
CollectorRestarts ==
    /\ buf # <<>>
    /\ buf' = <<>>
    /\ UNCHANGED scene

RuleNext == (\E o \in scene : Arrive(o)) \/ CollectorRestarts

RuleSpec == RuleInit /\ [][RuleNext]_ruleVars

-----------------------------------------------------------------------------
(* Properties                                                               *)

\* The least a rule documents: observations of these kinds past the thresholds.
Needs(type, P) ==
    LET some(k) == \E i \in P : buf[i].kind = k
        over(k, n) == \E i \in P : buf[i].kind = k /\ buf[i].val > n
        below(free, total, n) ==
            \E i, j \in P : /\ buf[i].kind = free /\ buf[j].kind = total
                            /\ buf[i].key = buf[j].key
                            /\ 100 * buf[i].val < n * buf[j].val
        usage(k, free, total, n) == over(k, n) \/ below(free, total, 100 - n)
        low(k, free, total, n) ==
            (\E i \in P : buf[i].kind = k /\ buf[i].val < n) \/ below(free, total, n)
    IN  CASE type = "resource" -> /\ over("cpu", 90)
                                  /\ usage("memory", "memory_free", "memory_total", 85)
                                  /\ usage("disk", "disk_free", "disk_total", 85)
          [] type = "service"  -> some("service_stopped") /\ some("event_error")
          [] type = "auth"     -> some("lockout") /\ some("membership_change")
          [] type = "backup"   -> some("job_failed") /\ low("repo", "repo_free", "repo_total", 10)
          [] type = "vmware"   -> /\ low("datastore", "datastore_free", "datastore_total", 15)
                                  /\ over("snapshot", 7)
          [] type = "network"  -> over("interface_errors", 100) /\ some("port_change")

\* Every source reports for one tenant.  The ingest sees to it, the rules do
\* not: an agent that publishes by itself has its SOURCE_ID from its settings.
OneTenantPerSource ==
    \A i, j \in DOMAIN buf : buf[i].src = buf[j].src => buf[i].tenant = buf[j].tenant

\* Evidence rests on observations of one source, or of one tenant under the
\* rules about tenants (under all if no two share a source), that meet the
\* rule and lie within its window, and counts as directly measured (class 1)
\* under the resource rule only if each of them is.
EvidenceSound ==
    \A e \in Organizations :
        /\ Needs(e.type, e.obs)
        /\ WithinWindow(e.obs, WindowOf[e.type])
        /\ \A i, j \in e.obs :
             /\ e.type \in {"auth", "vmware"} \/ OneTenantPerSource => buf[i].tenant = buf[j].tenant
             /\ e.type \notin {"auth", "vmware"} => buf[i].src = buf[j].src
        /\ e.type = "resource" /\ (\E i \in e.obs : buf[i].q # 1) => e.q = 2

SizeKinds == {"memory_free", "memory_total", "disk_free", "disk_total", "repo_free", "repo_total",
              "datastore_free", "datastore_total"}

\* What a group says now: of the sizes of a device, the last one.
Current(G) ==
    {i \in G : buf[i].kind \in SizeKinds =>
                 \A j \in Keyed(G, buf[i].kind, buf[i].key) : j <= i}

\* No device of the group is reported with 0 bytes free, or in all: its pair
\* would be taken for incomplete.
NoZeroSize(G) == \A i \in G : buf[i].kind \in SizeKinds => buf[i].val # 0

\* A source or tenant whose buffered observations meet a rule now and all lie
\* within its window gives evidence: always so for the rules with the longest
\* window, as the buffer spans no more.  A device of size 0 is the exception.
EvidenceComplete ==
    \A type \in RuleTypes : \A G \in Groups(type) :
        /\ WindowOf[type] = MaxWindow \/ WithinWindow(G, WindowOf[type])
        /\ NoZeroSize(G)
        /\ Needs(type, Current(G))
        => \E e \in Organizations : e.type = type /\ e.obs \subseteq G

\* organize finds evidence where there is some and nowhere else.
RulesCorrect == EvidenceSound /\ EvidenceComplete

=============================================================================
