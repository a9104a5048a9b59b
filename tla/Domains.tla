------------------------------ MODULE Domains ------------------------------
(* One sending domain under dns_monitor.py: its records, the blacklists it  *)
(* is on, the recoveries that are opened for them and closed step by step   *)
(* through the API, and the flag on the domain that stands for them.        *)
EXTENDS Casting, Sequences

CONSTANTS
  Monitors,    \* runs of dns_monitor.py: the schedules' and those the API starts
  Steady,      \* of these the schedules'
  Zones,       \* the DNSBL zones, in the order they are asked
  GuideSteps,  \* steps of a recovery guide
  MaxCases     \* recoveries opened, at most

ASSUME DomainsAssumption ==
  /\ Steady \subseteq Monitors /\ GuideSteps \in Nat \ {0} /\ MaxCases \in Nat
  /\ DOMAIN Zones = 1..Len(Zones) /\ Len(Zones) \in Nat \ {0}

VARIABLES
  live,      \* out there: the records that are as expected, and the listings
  dom,       \* the row of the domain
  cases,     \* blacklist_recoveries, in the order they were opened
  drift,     \* a run of check_domain_dns_drift
  hunt,      \* a run of check_domain_blacklists
  desk,      \* PATCH of a step of a recovery, as far as it has come
  sweep,     \* GET /domains/blacklist-check
  crossed    \* history: a recovery was opened while one was being closed

domainVars == <<live, dom, cases, drift, hunt, desk, sweep, crossed>>

Records == {"spf", "dkim", "dmarc"}
Following == [spf |-> "dkim", dkim |-> "dmarc", dmarc |-> "stamp"]
Phases == {"none", "enforce"}
ZoneSet == {Zones[i] : i \in DOMAIN Zones}
IdleDrift == [pc |-> "idle", expected |-> "none", found |-> "none", issues |-> FALSE]
IdleHunt == [pc |-> "idle", zone |-> 1]
IdleDesk == [pc |-> "idle", nr |-> 0, done |-> {}]

DomainInit ==
  /\ live = [present |-> Records, phase |-> "none", listed |-> {}]
  /\ dom = [status |-> "unknown", phase |-> "none", blacklisted |-> FALSE]
  /\ cases = <<>>
  /\ drift = [m \in Monitors |-> IdleDrift]
  /\ hunt = [m \in Monitors |-> IdleHunt]
  /\ desk = IdleDesk
  /\ sweep = "idle"
  /\ crossed = FALSE

---------------------------------------------------------------------------
\* What happens out there.
RecordsChange ==
  /\ Event("record")
  /\ \E present \in SUBSET Records, phase \in Phases :
       live' = [live EXCEPT !.present = present, !.phase = phase]
  /\ UNCHANGED <<dom, cases, drift, hunt, desk, sweep, crossed>>

ListingChanges ==
  /\ Event("listing")
  /\ \E z \in ZoneSet : live' = [live EXCEPT !.listed = IF z \in @ THEN @ \ {z} ELSE @ \cup {z}]
  /\ UNCHANGED <<dom, cases, drift, hunt, desk, sweep, crossed>>

---------------------------------------------------------------------------
\* All domains are taken, those on a blacklist too.
BeginDrift(m) ==
  /\ Plays("drift") /\ drift[m].pc = "idle"
  /\ drift' = [drift EXCEPT ![m] = [IdleDrift EXCEPT !.pc = "spf", !.expected = dom.phase]]
  /\ UNCHANGED <<env, live, dom, cases, hunt, desk, sweep, crossed>>

\* Mutant: only a first phase is stored.
PhaseMovedFromNone(m) == drift[m].expected = "none" /\ live.phase # "none"

\* A phase other than the one stored when the run began is to be stored.
PhaseMoved(m) == live.phase # drift[m].expected

RecordFound(m, r) ==
  drift' = IF r = "dmarc" /\ PhaseMoved(m)
           THEN [drift EXCEPT ![m].pc = "store", ![m].found = live.phase]
           ELSE [drift EXCEPT ![m].pc = Following[r]]

RecordMissing(m, r) == drift' = [drift EXCEPT ![m].pc = Following[r], ![m].issues = TRUE]

\* A record that cannot be looked up is as good as missing. Failing log rows and
\* notifications change nothing.
CheckRecord(m) ==
  LET r == drift[m].pc IN
  /\ r \in Records
  /\ \/ r \in live.present /\ RecordFound(m, r) /\ UNCHANGED env
     \/ r \notin live.present /\ RecordMissing(m, r) /\ UNCHANGED env
     \/ Event("lookup") /\ RecordMissing(m, r)
  /\ UNCHANGED <<live, dom, cases, hunt, desk, sweep, crossed>>

\* What was looked up is written, whatever is live or stored by now.
StorePhase(m) ==
  /\ drift[m].pc = "store"
  /\ drift' = [drift EXCEPT ![m].pc = "stamp"]
  /\ \/ dom' = [dom EXCEPT !.phase = drift[m].found] /\ UNCHANGED env
     \/ Fault /\ UNCHANGED dom
  /\ UNCHANGED <<live, cases, hunt, desk, sweep, crossed>>

StampDrift(m) ==
  /\ drift[m].pc = "stamp"
  /\ drift' = [drift EXCEPT ![m] = IdleDrift]
  /\ \/ dom' = [dom EXCEPT !.status = IF drift[m].issues THEN "error" ELSE "ok"] /\ UNCHANGED env
     \/ Fault /\ UNCHANGED dom
  /\ UNCHANGED <<live, cases, hunt, desk, sweep, crossed>>

---------------------------------------------------------------------------
\* Without an address there is no check.
BeginHunt(m) ==
  /\ hunt[m].pc = "idle" /\ Event("hunt")
  /\ hunt' = [hunt EXCEPT ![m] = [pc |-> "ask", zone |-> 1]]
  /\ UNCHANGED <<live, dom, cases, drift, desk, sweep, crossed>>

Hunt(m, pc) == hunt' = [hunt EXCEPT ![m].pc = pc]
NextZone(m) ==
  hunt' = [hunt EXCEPT ![m] = IF @.zone = Len(Zones) THEN IdleHunt
                              ELSE [pc |-> "ask", zone |-> @.zone + 1]]
HuntOnly == UNCHANGED <<live, drift, desk, sweep>>

\* "Not listed" is an exception of the resolver; the clause that catches it
\* names a class its module may not have, and then the check ends there.
AskZone(m) ==
  /\ hunt[m].pc = "ask"
  /\ IF Zones[hunt[m].zone] \in live.listed THEN Hunt(m, "look")
     ELSE NextZone(m) \/ hunt' = [hunt EXCEPT ![m] = IdleHunt]
  /\ HuntOnly /\ UNCHANGED <<env, dom, cases, crossed>>

OpenCases == {i \in DOMAIN cases : cases[i].open}
HasOpen(z) == \E i \in OpenCases : cases[i].zone = z

LookForCase(m) ==
  /\ hunt[m].pc = "look"
  /\ \/ (IF HasOpen(Zones[hunt[m].zone]) THEN NextZone(m) ELSE Hunt(m, "open")) /\ UNCHANGED env
     \/ Fault /\ hunt' = [hunt EXCEPT ![m] = IdleHunt]
  /\ HuntOnly /\ UNCHANGED <<dom, cases, crossed>>

NewCase(z) == [zone |-> z, open |-> TRUE, done |-> {}]

OpenCase(m) ==
  /\ hunt[m].pc = "open" /\ Len(cases) < MaxCases
  /\ \/ cases' = Append(cases, NewCase(Zones[hunt[m].zone]))
        /\ crossed' = (crossed \/ desk.pc # "idle") /\ UNCHANGED env
     \/ Fault /\ UNCHANGED <<cases, crossed>>
  /\ Hunt(m, "mark")
  /\ HuntOnly /\ UNCHANGED dom

MarkDomain(m) ==
  /\ hunt[m].pc = "mark"
  /\ \/ dom' = [dom EXCEPT !.blacklisted = TRUE] /\ UNCHANGED env
     \/ Fault /\ UNCHANGED dom
  /\ NextZone(m)
  /\ HuntOnly /\ UNCHANGED <<cases, crossed>>

MonitorKilled(m) ==
  /\ hunt[m].pc # "idle" \/ drift[m].pc # "idle"
  /\ Fault
  /\ hunt' = [hunt EXCEPT ![m] = IdleHunt]
  /\ drift' = [drift EXCEPT ![m] = IdleDrift]
  /\ UNCHANGED <<live, dom, cases, desk, sweep, crossed>>

---------------------------------------------------------------------------
\* A step is ticked or unticked, of a closed recovery as well.
TickStep(i, s, completed) ==
  /\ desk.pc = "idle" /\ i \in DOMAIN cases
  /\ Event("tick")
  /\ desk' = [pc |-> "write", nr |-> i,
              done |-> IF completed THEN cases[i].done \cup {s} ELSE cases[i].done \ {s}]
  /\ UNCHANGED <<live, dom, cases, drift, hunt, sweep, crossed>>

DeskOnly == UNCHANGED <<live, drift, hunt, sweep, crossed>>
AllDone == desk.done = 1..GuideSteps

\* All steps are written back; with the last one the recovery is resolved, and
\* nothing opens it again.
WriteSteps ==
  /\ desk.pc = "write"
  /\ \/ /\ cases' = [cases EXCEPT ![desk.nr].done = desk.done,
                                  ![desk.nr].open = @ /\ ~AllDone]
        /\ desk' = IF AllDone THEN [desk EXCEPT !.pc = "count"] ELSE IdleDesk
        /\ UNCHANGED env
     \/ Fault /\ desk' = IdleDesk /\ UNCHANGED cases
  /\ DeskOnly /\ UNCHANGED dom

\* Mutant: only the recoveries of the same zone are counted.
NoneOpenHere == ~HasOpen(cases[desk.nr].zone)

\* The flag only goes when no other recovery is open.
NoneOpen == OpenCases = {}

CountOpen ==
  /\ desk.pc = "count"
  /\ \/ desk' = (IF NoneOpen THEN [desk EXCEPT !.pc = "clear"] ELSE IdleDesk) /\ UNCHANGED env
     \/ Fault /\ desk' = IdleDesk
  /\ DeskOnly /\ UNCHANGED <<dom, cases>>

ClearFlag ==
  /\ desk.pc = "clear"
  /\ desk' = IdleDesk
  /\ \/ dom' = [dom EXCEPT !.blacklisted = FALSE] /\ UNCHANGED env
     \/ Fault /\ UNCHANGED dom
  /\ DeskOnly /\ UNCHANGED cases

---------------------------------------------------------------------------
\* The API's own check looks, with its own list of zones, and writes the flag
\* either way; it knows of no recoveries. Without an address it writes FALSE.
BeginSweep ==
  /\ sweep = "idle" /\ Event("sweep")
  /\ \/ sweep' = IF live.listed # {} THEN "listed" ELSE "clean"
     \/ sweep' = "clean"
  /\ UNCHANGED <<live, dom, cases, drift, hunt, desk, crossed>>

WriteSweep ==
  /\ sweep # "idle"
  /\ sweep' = "idle"
  /\ \/ dom' = [dom EXCEPT !.blacklisted = (sweep = "listed")] /\ UNCHANGED env
     \/ Fault /\ UNCHANGED dom
  /\ UNCHANGED <<live, cases, drift, hunt, desk, crossed>>

DriftStep(m) == BeginDrift(m) \/ CheckRecord(m) \/ StorePhase(m) \/ StampDrift(m)
HuntStep(m) == BeginHunt(m) \/ AskZone(m) \/ LookForCase(m) \/ OpenCase(m) \/ MarkDomain(m)
DomainStep ==
  \/ RecordsChange \/ ListingChanges
  \/ \E m \in Monitors : DriftStep(m) \/ HuntStep(m) \/ MonitorKilled(m)
  \/ \E i \in 1..MaxCases, s \in 1..GuideSteps, completed \in BOOLEAN : TickStep(i, s, completed)
  \/ WriteSteps \/ CountOpen \/ ClearFlag \/ BeginSweep \/ WriteSweep

DomainOK ==
  /\ live \in [present : SUBSET Records, phase : Phases, listed : SUBSET ZoneSet]
  /\ dom \in [status : {"unknown", "ok", "error"}, phase : Phases, blacklisted : BOOLEAN]
  /\ cases \in Seq([zone : ZoneSet, open : BOOLEAN, done : SUBSET (1..GuideSteps)])
  /\ Len(cases) <= MaxCases
  /\ drift \in [Monitors -> [pc : Records \cup {"idle", "store", "stamp"},
                             expected : Phases, found : Phases, issues : BOOLEAN]]
  /\ hunt \in [Monitors -> [pc : {"idle", "ask", "look", "open", "mark"}, zone : DOMAIN Zones]]
  /\ desk \in [pc : {"idle", "write", "count", "clear"}, nr : 0..MaxCases, done : SUBSET (1..GuideSteps)]
  /\ sweep \in {"idle", "listed", "clean"}
  /\ crossed \in BOOLEAN

\* A domain with an open recovery is marked, once no monitor is about to do so:
\* unless a call failed, a recovery was opened while another was being closed, or
\* the API's own check, which knows of none, has been made.
OpenCaseIsMarked ==
  /\ OpenCases # {} /\ \A m \in Monitors : hunt[m].pc # "mark"
  /\ env.faults = 0 /\ ~crossed /\ ~Plays("sweep")
  => dom.blacklisted

\* What stays out there is what the row says in the end, although a run writes a
\* phase or a verdict it looked up earlier, over a newer one of an overlapping
\* run: a missing record is an error, and the DMARC phase is the live one.
DriftSettles ==
  Plays("drift") =>
    /\ <>[](live.present # Records) => <>[](dom.status = "error")
    /\ \A p \in Phases : <>[](live.phase = p /\ "dmarc" \in live.present) => <>[](dom.phase = p)
=============================================================================
