------------------------ MODULE NativeAcceptanceProofs ------------------------
(***************************************************************************)
(* Proofs about NativeAcceptance, for any number of sessions, employees,   *)
(* edits, claims, faults and crashes.  The layers, each resting on those   *)
(* above it:                                                               *)
(*                                                                         *)
(*   TInv  types, and what the worker holds at each of its places;         *)
(*   JInv  a session that was acknowledged as accepted has its job;        *)
(*   OInv  what a stored session, a pending job and the worker were told   *)
(*         covers everything that overtook the acceptance, and what the    *)
(*         worker read of the deal is current or has been overtaken;       *)
(*   FInv  the place of the job in hand, at most one job is dispatched,    *)
(*         and its update is on the wire once;                             *)
(*   CInv  the contact job of a job is reserved until the job has ended.   *)
(*                                                                         *)
(* What happens around the worker tells every job, row and session the     *)
(* same event (Happens); the Aging lemmas say what that leaves unchanged.  *)
(***************************************************************************)
EXTENDS NativeAcceptance, FiniteSetTheorems, TLAPS

\* A step of a job is under way, from its proofs to its end.
AtJob == PCs \ {"idle", "seen", "fenced"}

SessionType == [status : {"none", "new", "accepted", "closed"}, operator : Managers \cup {None},
                bound : BOOLEAN, historic : BOOLEAN, answered : SUBSET Events]
RowType == [known : BOOLEAN, armed : BOOLEAN, revision : 0..MaxRevisions, seen : SUBSET Events]
JobType == [status : {"none", "pending", "ready", "conflict"}, manager : Managers \cup {None},
            since : SUBSET Events, touched : BOOLEAN, previous : Identities \cup {None},
            dispatched : BOOLEAN, acknowledged : BOOLEAN, generation : BOOLEAN,
            contact : {"none", "reserved", "pending", "cancelled", "conflict"}]
NativeType == [pc : PCs, of : 0..MaxSessions, session : SessionType, since : SUBSET Events,
               touched : BOOLEAN, key : Keys \cup {<<0, 0>>}, round : 0..3,
               read : Identities \cup {None}]

\* The thread reads a session that may get another revision, or works on a
\* pending job.
Thinks ==
  /\ native \in NativeType
  /\ native.pc \in {"seen", "fenced"} =>
       /\ native.of \in Sessions /\ row[native.of].revision < MaxRevisions
       /\ native.session.status = "accepted" => native.session.operator \in Managers
  /\ native.pc \in AtJob => native.key \in Keys /\ job[native.key].status = "pending"
  /\ native.pc \in {"reserve", "store"} => native.read \in Identities
  /\ native.pc \in AtJob => claim.pc = "idle"

\* Accepted sessions, jobs and claims under way have an employee; revisions are
\* numbered, and the jobs of later ones do not exist yet.
Assigned ==
  /\ \A s \in Sessions : session[s].status = "accepted" => session[s].operator \in Managers
  /\ \A k \in Keys : /\ job[k].status = "none" => ~job[k].dispatched
                     /\ job[k].status # "none" => job[k].manager \in Managers /\ k[2] <= row[k[1]].revision
  /\ \A k \in inflight : job[k].status # "none"
  /\ claim.pc # "idle" => claim.manager \in Managers

TInv == TypeOK /\ Thinks /\ Assigned

\* An acceptance is there that has no job yet.
Fresh(s) == row[s].revision < accepts[s]

\* A session that waited, or that nobody knows, was accepted since.
JInv ==
  /\ JobsJustified
  /\ \A s \in Sessions :
       /\ ~row[s].known => row[s].revision = 0 /\ ~row[s].armed
       /\ session[s].status = "accepted" /\ ~session[s].historic => accepts[s] >= 1
       /\ session[s].status = "accepted" /\ row[s].armed => Fresh(s)
  /\ native.pc \in {"seen", "fenced"} =>
       /\ native.session.status = "accepted" /\ Eligible(native.of) => Fresh(native.of)
       /\ native.session.status = "new" /\ session[native.of].status = "accepted" => Fresh(native.of)

\* The rounds of the proofs.
Rounds ==
  /\ native.pc \in {"session", "deal"} => native.round \in 1..3
  /\ native.pc \in {"send", "wait", "acknowledge", "read"} => native.round = 3

\* What overtook an acceptance is remembered wherever its job may come from.
Observes(s) == native.pc \in {"seen", "fenced"} /\ native.of = s

Remembered(s) ==
  /\ \A k \in Keys : k[1] = s /\ job[k].status = "pending" => "edit" \in job[k].since
  /\ session[s].status = "accepted" => "edit" \in session[s].answered
  /\ Observes(s) /\ native.session.status = "accepted" => "edit" \in native.session.answered
  /\ row[s].armed /\ \/ session[s].status = "accepted"
                     \/ Observes(s) /\ native.session.status = "accepted"
       => "edit" \in row[s].seen
  /\ Observes(s) /\ native.session.status = "new" /\ session[s].status = "accepted"
       => native.pc = "fenced" /\ "edit" \in native.since

\* The first proof has read the deal, and the job has not been sent.
AfterFirst == native.pc \in {"reserve", "store"} \/ (native.pc \in {"session", "deal"} /\ native.round = 2)

OInv ==
  /\ Rounds
  /\ \A s \in Sessions : overtaken[s] = "yes" => Remembered(s)
  /\ AfterFirst => /\ native.read \in Identities /\ native.read.edition <= deal.edition
                   /\ native.read.edition = deal.edition => "edit" \notin job[native.key].since
  /\ native.pc \in {"dispatch", "send"} => overtaken[native.key[1]] # "yes"

\* Places of a job before and after the dispatching boundary.
Before == {"reserve", "store", "dispatch"}
After == {"send", "wait", "acknowledge", "reject", "read", "confirm"}

Placed ==
  /\ native.pc \in Before \/ (native.pc \in {"session", "deal"} /\ native.round # 3) =>
       ~job[native.key].dispatched
  /\ native.pc \in After \/ (native.pc \in {"session", "deal"} /\ native.round = 3) =>
       job[native.key].dispatched

\* At most one job is past the boundary, and no claim is under way then.
OneDispatched ==
  /\ \A j, k \in Keys : Dispatched(j) /\ Dispatched(k) => j = k
  /\ native.pc \in AtJob => \A j \in Keys : Dispatched(j) => j = native.key
  /\ claim.pc # "idle" => \A j \in Keys : ~Dispatched(j)

\* Each job is sent once, after it crossed the boundary.
SentOnce ==
  /\ inflight \cap applied = {}
  /\ \A k \in Keys : ~job[k].dispatched => k \notin inflight \cup applied
  /\ \A k \in Keys : job[k].acknowledged => job[k].dispatched /\ k \notin inflight
  /\ native.pc \in {"send", "wait", "reject"} => ~job[native.key].acknowledged
  /\ native.pc = "send" => native.key \notin inflight \cup applied
  /\ native.pc \in {"acknowledge", "reject"} => native.key \notin inflight
  /\ native.pc = "reject" => native.key \notin applied

\* While no person has made the employee of a job the owner, only its own
\* update can do so.
OnlyByUpdate ==
  chosen \/ /\ \A k \in inflight : Dispatched(k) /\ deal.owner # job[k].manager
            /\ native.pc = "dispatch" /\ native.read.owner # job[native.key].manager =>
                 deal.owner # job[native.key].manager
            /\ native.pc = "send" => deal.owner # job[native.key].manager
            /\ native.pc \in AtJob \ {"wait", "read"} => native.key \notin inflight

FInv == Placed /\ OneDispatched /\ SentOnce /\ OnlyByUpdate

\* A reserved contact job belongs to the contact that the deal had, and the job
\* stores that before the boundary.
Reserved(k) == job[k].contact = "reserved"

CInv ==
  /\ ContactSettled
  /\ \A k \in Keys :
       /\ job[k].status = "pending" /\ Reserved(k) /\ ~job[k].generation =>
            "edit" \in job[k].since \/ deal.contact
       /\ job[k].previous # None /\ Reserved(k) => job[k].generation
       /\ job[k].dispatched \/ job[k].generation => job[k].previous # None
  /\ native.pc \in {"reserve", "store"} =>
       /\ job[native.key].previous = None
       /\ Reserved(native.key) => native.read.contact
       /\ native.read.contact => deal.contact \/ "edit" \in job[native.key].since
  /\ native.pc = "dispatch" \/ (native.pc \in {"session", "deal"} /\ native.round = 2) =>
       job[native.key].previous # None
  /\ native.pc \in {"ready", "conflict"} => ~Reserved(native.key)
-----------------------------------------------------------------------------
(* Types, and what happens to everything that is stored.                   *)

DealType == [owner : Owners, edition : Nat, binding : Nat, contact : BOOLEAN, open : BOOLEAN]
ClaimType == [pc : {"idle", "guard", "write", "record", "fail"},
              status : {"none", "pending", "succeeded", "failed"},
              manager : Managers \cup {None}, wrote : BOOLEAN]

LEMMA Types ==
  ASSUME TInv
  PROVE  /\ session \in [Sessions -> SessionType] /\ row \in [Sessions -> RowType]
         /\ job \in [Keys -> JobType] /\ native \in NativeType
         /\ deal \in DealType /\ claim \in ClaimType
         /\ inflight \in SUBSET Keys /\ applied \in SUBSET Keys /\ chosen \in BOOLEAN
         /\ events \in 0..MaxEvents /\ accepts \in [Sessions -> 0..MaxAccepts]
         /\ overtaken \in [Sessions -> {"no", "yes", "unseen"}]
         /\ MaxSessions \in Nat /\ MaxRevisions \in Nat /\ MaxAccepts \in Nat /\ MaxEvents \in Nat
BY NativeAssumption DEF TInv, TypeOK, Thinks, SessionType, RowType, JobType, DealType, ClaimType

\* The same after a step.
LEMMA Typed ==
  ASSUME /\ session' \in [Sessions -> SessionType] /\ row' \in [Sessions -> RowType]
         /\ job' \in [Keys -> JobType] /\ deal' \in DealType /\ claim' \in ClaimType
         /\ inflight' \in SUBSET Keys /\ applied' \in SUBSET Keys /\ chosen' \in BOOLEAN
         /\ events' \in 0..MaxEvents /\ accepts' \in [Sessions -> 0..MaxAccepts]
         /\ overtaken' \in [Sessions -> {"no", "yes", "unseen"}],
         Thinks', Assigned'
  PROVE  TInv'
<1>1. native' \in NativeType /\ native'.pc \in PCs /\ native'.round \in 0..3
  BY DEF Thinks, NativeType
<1>2. native'.pc \notin {"idle", "seen", "fenced"} => native'.key \in Keys
  BY <1>1 DEF Thinks, AtJob
<1> QED
  BY <1>1, <1>2 DEF TInv, TypeOK, SessionType, RowType, JobType, DealType, ClaimType

LEMMA SessionFields ==
  ASSUME TInv, NEW s \in Sessions
  PROVE  /\ session[s] \in SessionType /\ session[s].status \in {"none", "new", "accepted", "closed"}
         /\ session[s].operator \in Managers \cup {None} /\ session[s].bound \in BOOLEAN
         /\ session[s].historic \in BOOLEAN /\ session[s].answered \in SUBSET Events
         /\ row[s] \in RowType /\ row[s].known \in BOOLEAN /\ row[s].armed \in BOOLEAN
         /\ row[s].revision \in 0..MaxRevisions /\ row[s].seen \in SUBSET Events
         /\ accepts[s] \in 0..MaxAccepts /\ overtaken[s] \in {"no", "yes", "unseen"}
BY Types DEF SessionType, RowType

LEMMA JobFields ==
  ASSUME TInv, NEW k \in Keys
  PROVE  /\ job[k] \in JobType /\ job[k].status \in {"none", "pending", "ready", "conflict"}
         /\ job[k].manager \in Managers \cup {None} /\ job[k].since \in SUBSET Events
         /\ job[k].touched \in BOOLEAN /\ job[k].previous \in Identities \cup {None}
         /\ job[k].dispatched \in BOOLEAN /\ job[k].acknowledged \in BOOLEAN
         /\ job[k].generation \in BOOLEAN
         /\ job[k].contact \in {"none", "reserved", "pending", "cancelled", "conflict"}
         /\ k[1] \in Sessions /\ k[2] \in 1..MaxRevisions
BY Types DEF JobType, Keys

LEMMA ThreadFields ==
  ASSUME TInv
  PROVE  /\ native \in NativeType /\ native.pc \in PCs /\ native.of \in 0..MaxSessions
         /\ native.session \in SessionType /\ native.since \in SUBSET Events
         /\ native.touched \in BOOLEAN /\ native.key \in Keys \cup {<<0, 0>>} /\ native.round \in 0..3
         /\ native.read \in Identities \cup {None}
         /\ native.session.status \in {"none", "new", "accepted", "closed"}
         /\ native.session.operator \in Managers \cup {None} /\ native.session.bound \in BOOLEAN
         /\ native.session.historic \in BOOLEAN /\ native.session.answered \in SUBSET Events
BY Types DEF NativeType, SessionType

LEMMA DealFields ==
  ASSUME TInv
  PROVE  /\ deal \in DealType /\ deal.owner \in Owners /\ deal.edition \in Nat /\ deal.binding \in Nat
         /\ deal.contact \in BOOLEAN /\ deal.open \in BOOLEAN
         /\ claim \in ClaimType /\ claim.pc \in {"idle", "guard", "write", "record", "fail"}
         /\ claim.status \in {"none", "pending", "succeeded", "failed"}
         /\ claim.manager \in Managers \cup {None} /\ claim.wrote \in BOOLEAN
BY Types DEF DealType, ClaimType

LEMMA IdleFields ==
  /\ Idle \in NativeType /\ Idle.pc = "idle" /\ Idle.of = 0 /\ Idle.key = <<0, 0>> /\ Idle.round = 0
  /\ Idle.read = None /\ Idle.since = {} /\ Idle.touched = FALSE
  /\ NoSession \in SessionType /\ NoSession.status = "none"
<1>1. MaxSessions \in Nat
  BY NativeAssumption
<1>2. NoSession \in SessionType /\ NoSession.status = "none"
  BY DEF NoSession, SessionType
<1> QED
  BY <1>1, <1>2 DEF Idle, NativeType, PCs

\* Happens: a session keeps its place, its times may have something after them.
SameSession(t, s) ==
  /\ t \in SessionType
  /\ t.status = s.status /\ t.operator = s.operator /\ t.bound = s.bound /\ t.historic = s.historic
  /\ s.answered \subseteq t.answered

SameJob(m, j) ==
  /\ m \in JobType
  /\ m.status = j.status /\ m.manager = j.manager /\ m.previous = j.previous
  /\ m.dispatched = j.dispatched /\ m.acknowledged = j.acknowledged
  /\ m.generation = j.generation /\ m.contact = j.contact
  /\ j.since \subseteq m.since

SameThread(w, n) ==
  /\ w \in NativeType
  /\ w.pc = n.pc /\ w.of = n.of /\ w.key = n.key /\ w.round = n.round /\ w.read = n.read
  /\ w.session.status = n.session.status /\ w.session.operator = n.session.operator
  /\ w.session.bound = n.session.bound /\ w.session.historic = n.session.historic
  /\ n.session.answered \subseteq w.session.answered /\ n.since \subseteq w.since

\* What happened is remembered with every time that is stored.
LEMMA Aging ==
  ASSUME TInv, NEW what \in SUBSET Events, NEW claims \in BOOLEAN, Happens(what, claims)
  PROVE  /\ session' \in [Sessions -> SessionType]
         /\ \A s \in Sessions : /\ SameSession(session'[s], session[s])
                                /\ session[s].status = "accepted" => what \subseteq session'[s].answered
                                /\ session[s].status # "accepted" => session'[s] = session[s]
<1>1. session' = [s \in Sessions |-> IF session[s].status # "accepted" THEN session[s]
                    ELSE [session[s] EXCEPT !.answered = @ \cup what]]
  BY DEF Happens
<1>2. ASSUME NEW s \in Sessions
      PROVE  /\ session'[s] \in SessionType /\ SameSession(session'[s], session[s])
             /\ session[s].status = "accepted" => what \subseteq session'[s].answered
             /\ session[s].status # "accepted" => session'[s] = session[s]
  <2> DEFINE r == [session[s] EXCEPT !.answered = session[s].answered \cup what]
  <2>1. session'[s] = IF session[s].status # "accepted" THEN session[s] ELSE r
    BY <1>1
  <2>2. r \in SessionType /\ SameSession(r, session[s]) /\ what \subseteq r.answered
    BY SessionFields DEF SessionType, SameSession
  <2>3. SameSession(session[s], session[s])
    BY SessionFields DEF SameSession
  <2> QED
    BY <2>1, <2>2, <2>3, SessionFields
<1> QED
  BY <1>1, <1>2

LEMMA AgingRows ==
  ASSUME TInv, NEW what \in SUBSET Events, NEW claims \in BOOLEAN, Happens(what, claims)
  PROVE  /\ row' \in [Sessions -> RowType]
         /\ \A s \in Sessions : /\ row'[s].known = row[s].known /\ row'[s].armed = row[s].armed
                                /\ row'[s].revision = row[s].revision
                                /\ row[s].seen \subseteq row'[s].seen
                                /\ row[s].armed => what \subseteq row'[s].seen
<1>1. row' = [s \in Sessions |-> IF row[s].armed THEN [row[s] EXCEPT !.seen = @ \cup what] ELSE row[s]]
  BY DEF Happens
<1>2. ASSUME NEW s \in Sessions
      PROVE  /\ row'[s] \in RowType
             /\ row'[s].known = row[s].known /\ row'[s].armed = row[s].armed
             /\ row'[s].revision = row[s].revision
             /\ row[s].seen \subseteq row'[s].seen
             /\ row[s].armed => what \subseteq row'[s].seen
  <2> DEFINE r == [row[s] EXCEPT !.seen = row[s].seen \cup what]
  <2>1. row'[s] = IF row[s].armed THEN r ELSE row[s]
    BY <1>1
  <2>2. /\ r \in RowType /\ r.known = row[s].known /\ r.armed = row[s].armed
        /\ r.revision = row[s].revision /\ row[s].seen \subseteq r.seen /\ what \subseteq r.seen
    BY SessionFields DEF RowType
  <2> QED
    BY <2>1, <2>2, SessionFields
<1> QED
  BY <1>1, <1>2

LEMMA AgingJobs ==
  ASSUME TInv, NEW what \in SUBSET Events, NEW claims \in BOOLEAN, Happens(what, claims)
  PROVE  /\ job' \in [Keys -> JobType]
         /\ \A k \in Keys : /\ SameJob(job'[k], job[k])
                            /\ job[k].status = "pending" => job'[k].since = job[k].since \cup what
<1>1. job' = [k \in Keys |-> IF job[k].status # "pending" THEN job[k]
                ELSE [job[k] EXCEPT !.since = @ \cup what, !.touched = @ \/ claims]]
  BY DEF Happens
<1>2. ASSUME NEW k \in Keys
      PROVE  /\ job'[k] \in JobType /\ SameJob(job'[k], job[k])
             /\ job[k].status = "pending" => job'[k].since = job[k].since \cup what
  <2> DEFINE r == [job[k] EXCEPT !.since = job[k].since \cup what, !.touched = job[k].touched \/ claims]
  <2>1. job'[k] = IF job[k].status # "pending" THEN job[k] ELSE r
    BY <1>1
  <2>2. r \in JobType /\ SameJob(r, job[k]) /\ r.since = job[k].since \cup what
    BY JobFields DEF JobType, SameJob
  <2>3. SameJob(job[k], job[k])
    BY JobFields DEF SameJob
  <2> QED
    BY <2>1, <2>2, <2>3, JobFields
<1> QED
  BY <1>1, <1>2

LEMMA AgingThread ==
  ASSUME TInv, NEW what \in SUBSET Events, NEW claims \in BOOLEAN, Happens(what, claims)
  PROVE  /\ SameThread(native', native)
         /\ native.pc \notin {"seen", "fenced"} => native' = native
         /\ native.pc \in {"seen", "fenced"} => what \subseteq native'.session.answered
         /\ native.pc = "fenced" => what \subseteq native'.since
<1>1. native' = IF native.pc \notin {"seen", "fenced"} THEN native
        ELSE [native EXCEPT !.session.answered = @ \cup what,
                !.since = IF native.pc = "fenced" THEN @ \cup what ELSE @,
                !.touched = @ \/ (native.pc = "fenced" /\ claims)]
  BY DEF Happens
<1>2. SameThread(native, native)
  BY ThreadFields DEF SameThread
<1>3. CASE native.pc \in {"seen", "fenced"}
  <2> PICK u \in SessionType : u = [native.session EXCEPT !.answered = native.session.answered \cup what]
    BY ThreadFields DEF SessionType
  <2> PICK since \in SUBSET Events :
        since = IF native.pc = "fenced" THEN native.since \cup what ELSE native.since
    BY ThreadFields
  <2> PICK touched \in BOOLEAN : touched = (native.touched \/ (native.pc = "fenced" /\ claims))
    BY ThreadFields
  <2>1. native' = [native EXCEPT !.session = u, !.since = since, !.touched = touched]
    BY <1>1, <1>3, ThreadFields DEF NativeType
  <2>2. /\ u.status = native.session.status /\ u.operator = native.session.operator
        /\ u.bound = native.session.bound /\ u.historic = native.session.historic
        /\ u.answered = native.session.answered \cup what
    BY ThreadFields DEF SessionType
  <2> QED
    BY <1>3, <2>1, <2>2, ThreadFields DEF SameThread, NativeType
<1> QED
  BY <1>1, <1>2, <1>3
-----------------------------------------------------------------------------
(* A step of a job: the values m of its row and the state w of the thread. *)

Works(m, w) ==
  /\ m \in JobType /\ w \in NativeType
  /\ job' = [job EXCEPT ![native.key] = m] /\ native' = w
  /\ m.manager = Mine.manager /\ m.since = Mine.since
  /\ w.pc \in AtJob => w.key = native.key /\ m.status = "pending"
  /\ w.pc \notin AtJob => w = Idle
  /\ m.status # "none"

LEMMA MineFields ==
  ASSUME TInv, native.pc \in AtJob
  PROVE  /\ native.key \in Keys /\ Mine = job[native.key] /\ Mine \in JobType /\ Mine.status = "pending"
         /\ Mine.manager \in Managers
         /\ native.key[1] \in Sessions /\ native.key[2] \in 1..MaxRevisions
         /\ claim.pc = "idle"
<1>1. native.key \in Keys /\ job[native.key].status = "pending" /\ claim.pc = "idle"
  BY DEF TInv, Thinks
<1>2. job[native.key].manager \in Managers
  BY <1>1 DEF TInv, Assigned
<1> QED
  BY <1>1, <1>2, JobFields DEF Mine

LEMMA MineKept ==
  ASSUME TInv, native.pc \in AtJob, UNCHANGED job
  PROVE  job' = [job EXCEPT ![native.key] = Mine]
BY Types, MineFields DEF Mine

LEMMA Places ==
  /\ AtJob = {"session", "deal", "reserve", "store", "dispatch", "send", "wait",
              "acknowledge", "reject", "read", "confirm", "ready", "release", "conflict"}
  /\ AtJob \subseteq PCs
BY DEF AtJob, PCs

\* Another place of the same job.
LEMMA Goes ==
  ASSUME TInv, native.pc \in AtJob, NEW m \in JobType, job' = [job EXCEPT ![native.key] = m],
         m.manager = Mine.manager, m.since = Mine.since, m.status = "pending",
         NEW w \in NativeType, w.pc \in AtJob, w.key = native.key, native' = w
  PROVE  Works(m, w)
BY DEF Works

LEMMA GoesOn ==
  ASSUME TInv, native.pc \in AtJob, NEW m \in JobType, job' = [job EXCEPT ![native.key] = m],
         m.manager = Mine.manager, m.since = Mine.since, m.status = "pending",
         NEW pc \in AtJob, Goto(pc)
  PROVE  \E w \in NativeType : Works(m, w) /\ w.pc = pc /\ w.round = native.round /\ w.read = native.read
<1> DEFINE w == [native EXCEPT !.pc = pc]
<1>1. /\ w \in NativeType /\ w.pc = pc /\ w.round = native.round /\ w.read = native.read
      /\ w.key = native.key /\ native' = w
  BY ThreadFields, Places DEF NativeType, Goto
<1> HIDE DEF w
<1>2. Works(m, w)
  BY <1>1, Goes
<1> QED
  BY <1>1, <1>2

\* A proof and a readback leave the row as it is.
LEMMA ReadSessionWorks ==
  ASSUME TInv, ReadSession
  PROVE  \E w \in NativeType :
           /\ Works(Mine, w) /\ w.pc \in {"deal", "release"} /\ w.round = native.round /\ w.read = native.read
           /\ w.pc = "deal" => Current(native.key) /\ StillAccepted(native.key)
<1>1. /\ native.pc \in AtJob /\ native.pc = "session"
      /\ job' = [job EXCEPT ![native.key] = Mine]
  BY Places, MineKept DEF ReadSession, Working
<1>2. CASE Current(native.key) /\ StillAccepted(native.key) /\ Goto("deal")
  BY <1>1, <1>2, GoesOn, MineFields, Places
<1>3. CASE Goto("release")
  BY <1>1, <1>3, GoesOn, MineFields, Places
<1> QED
  BY <1>2, <1>3 DEF ReadSession

LEMMA IdentityType ==
  ASSUME TInv
  PROVE  /\ Identity \in Identities /\ Identity.owner = deal.owner /\ Identity.edition = deal.edition
         /\ Identity.binding = deal.binding /\ Identity.contact = deal.contact
         /\ None \notin Identities
<1>1. /\ Identity \in Identities /\ Identity.owner = deal.owner /\ Identity.edition = deal.edition
      /\ Identity.binding = deal.binding /\ Identity.contact = deal.contact
  BY DealFields DEF Identity, Identities
<1>2. None \notin Identities
  BY NativeAssumption, Zenon DEF Identities, Owners
<1> QED
  BY <1>1, <1>2

LEMMA ReadDealWorks ==
  ASSUME TInv, ReadDeal
  PROVE  \E w \in NativeType :
           /\ Works(Mine, w)
           /\ \/ w.pc = "release" /\ w.round = native.round /\ w.read = native.read
              \/ /\ Current(native.key) /\ DealUnchanged
                 /\ \/ /\ native.round = 1 /\ Mine.previous = None
                       /\ w.pc = "reserve" /\ w.round = 1 /\ w.read = Identity
                    \/ /\ native.round = 1 /\ Mine.previous # None
                       /\ w.pc = "session" /\ w.round = 2 /\ w.read = Identity
                    \/ /\ native.round = 2
                       /\ w.pc = "dispatch" /\ w.round = 2 /\ w.read = native.read
                    \/ /\ native.round \notin {1, 2}
                       /\ w.pc = "confirm" /\ w.round = native.round /\ w.read = native.read
<1>1. /\ native.pc \in AtJob /\ native.pc = "deal"
      /\ job' = [job EXCEPT ![native.key] = Mine]
  BY Places, MineKept DEF ReadDeal, Working
<1>2. PICK i \in Identities : i = Identity
  BY IdentityType
<1>3. CASE ~(deal.open /\ Current(native.key) /\ DealUnchanged)
  <2>1. Goto("release")
    BY <1>3 DEF ReadDeal, Goto
  <2>2. \E w \in NativeType :
          Works(Mine, w) /\ w.pc = "release" /\ w.round = native.round /\ w.read = native.read
    BY <1>1, <2>1, GoesOn, MineFields, Places
  <2> QED
    BY <2>2
<1>4. CASE deal.open /\ Current(native.key) /\ DealUnchanged
  <2>0. native' = CASE native.round = 1 /\ Mine.previous = None
                     -> [native EXCEPT !.pc = "reserve", !.read = i]
                [] native.round = 1 /\ Mine.previous # None
                     -> [native EXCEPT !.pc = "session", !.round = 2, !.read = i]
                [] native.round = 2 -> [native EXCEPT !.pc = "dispatch"]
                [] OTHER -> [native EXCEPT !.pc = "confirm"]
    BY <1>2, <1>4 DEF ReadDeal
  <2>1. CASE native.round = 1 /\ Mine.previous = None
    <3> DEFINE w == [native EXCEPT !.pc = "reserve", !.read = i]
    <3>1. native' = w
      BY <2>0, <2>1
    <3>2. w \in NativeType /\ w.pc = "reserve" /\ w.round = 1 /\ w.read = i /\ w.key = native.key
      BY <2>1, ThreadFields, Places DEF NativeType
    <3> HIDE DEF w
    <3>3. Works(Mine, w)
      BY <1>1, <3>1, <3>2, Goes, MineFields, Places
    <3> QED
      BY <1>2, <1>4, <2>1, <3>2, <3>3
  <2>2. CASE native.round = 1 /\ Mine.previous # None
    <3> DEFINE w == [native EXCEPT !.pc = "session", !.round = 2, !.read = i]
    <3>1. native' = w
      BY <2>0, <2>2
    <3>2. w \in NativeType /\ w.pc = "session" /\ w.round = 2 /\ w.read = i /\ w.key = native.key
      <4>1. "session" \in PCs /\ 2 \in 0..3 /\ i \in Identities \cup {None}
        BY DEF PCs
      <4> QED
        BY <4>1, ThreadFields DEF NativeType
    <3> HIDE DEF w
    <3>3. Works(Mine, w)
      BY <1>1, <3>1, <3>2, Goes, MineFields, Places
    <3> QED
      BY <1>2, <1>4, <2>2, <3>2, <3>3
  <2>3. CASE native.round = 2
    <3>1. Goto("dispatch")
      BY <2>0, <2>3 DEF Goto
    <3>2. \E w \in NativeType :
            Works(Mine, w) /\ w.pc = "dispatch" /\ w.round = native.round /\ w.read = native.read
      BY <1>1, <3>1, GoesOn, MineFields, Places
    <3> QED
      BY <1>4, <2>3, <3>2
  <2>4. CASE native.round \notin {1, 2}
    <3>1. Goto("confirm")
      BY <2>0, <2>4 DEF Goto
    <3>2. \E w \in NativeType :
            Works(Mine, w) /\ w.pc = "confirm" /\ w.round = native.round /\ w.read = native.read
      BY <1>1, <3>1, GoesOn, MineFields, Places
    <3> QED
      BY <1>4, <2>4, <3>2
  <2> QED
    BY <2>1, <2>2, <2>3, <2>4
<1> QED
  BY <1>3, <1>4

LEMMA SendWorks ==
  ASSUME TInv, Send
  PROVE  \E w \in NativeType :
           Works(Mine, w) /\ w.pc = "wait" /\ w.round = native.round /\ w.read = native.read
<1>1. /\ native.pc \in AtJob /\ native.pc = "send" /\ Goto("wait")
      /\ job' = [job EXCEPT ![native.key] = Mine]
  BY Places, MineKept DEF Send, Working
<1> QED
  BY <1>1, GoesOn, MineFields, Places

LEMMA AnswerWorks ==
  ASSUME TInv, Answer
  PROVE  \E w \in NativeType :
           /\ Works(Mine, w) /\ w.round = native.round /\ w.read = native.read
           /\ \/ native.key \in applied /\ w.pc = "acknowledge" /\ inflight' = inflight
              \/ native.key \in inflight /\ w.pc = "reject" /\ inflight' = inflight \ {native.key}
              \/ w.pc = "read" /\ inflight' = inflight
<1>1. /\ native.pc \in AtJob /\ native.pc = "wait"
      /\ job' = [job EXCEPT ![native.key] = Mine]
  BY Places, MineKept DEF Answer, Working
<1>2. ASSUME NEW pc \in AtJob, Goto(pc)
      PROVE  \E w \in NativeType : Works(Mine, w) /\ w.pc = pc /\ w.round = native.round /\ w.read = native.read
  BY <1>1, <1>2, GoesOn, MineFields
<1>3. CASE native.key \in applied /\ Goto("acknowledge") /\ UNCHANGED inflight
  BY <1>2, <1>3, Places
<1>4. CASE native.key \in inflight /\ Goto("reject") /\ inflight' = inflight \ {native.key}
  BY <1>2, <1>4, Places
<1>5. CASE Goto("read") /\ UNCHANGED inflight
  BY <1>2, <1>5, Places
<1> QED
  BY <1>3, <1>4, <1>5 DEF Answer

LEMMA ReadBackWorks ==
  ASSUME TInv, ReadBack
  PROVE  \E w \in NativeType :
           /\ Works(Mine, w)
           /\ \/ w = Idle /\ InDoubt
              \/ /\ w.pc \in {"session", "release"} /\ w.round = native.round /\ w.read = native.read
                 /\ ~InDoubt
<1>1. /\ native.pc \in AtJob /\ native.pc = "read"
      /\ job' = [job EXCEPT ![native.key] = Mine]
  BY Places, MineKept DEF ReadBack, Working
<1>2. ASSUME NEW pc \in AtJob, Goto(pc)
      PROVE  \E w \in NativeType : Works(Mine, w) /\ w.pc = pc /\ w.round = native.round /\ w.read = native.read
  BY <1>1, <1>2, GoesOn, MineFields
<1>3. CASE InDoubt
  <2>1. native' = Idle
    BY <1>3 DEF ReadBack, Rest
  <2>2. Works(Mine, Idle)
    BY <1>1, <2>1, MineFields, IdleFields, Places DEF Works
  <2> QED
    BY <1>3, <2>2, IdleFields
<1>4. CASE ~InDoubt
  <2>1. Goto("session") \/ Goto("release")
    BY <1>4 DEF ReadBack
  <2> QED
    BY <1>2, <1>4, <2>1, Places
<1> QED
  BY <1>3, <1>4
-----------------------------------------------------------------------------
(* The steps that write the row of the job.                                *)

\* The row of the job is replaced by m.
LEMMA Saved ==
  ASSUME TInv, native.pc \in AtJob, NEW m \in JobType, job' = [job EXCEPT ![native.key] = m]
  PROVE  /\ job' \in [Keys -> JobType] /\ job'[native.key] = m
         /\ \A k \in Keys \ {native.key} : job'[k] = job[k]
<1>1. native.key \in Keys /\ job \in [Keys -> JobType]
  BY MineFields, Types
<1> QED
  BY <1>1

LEMMA ReserveWorks ==
  ASSUME TInv, Reserve
  PROVE  \E m \in JobType, w \in NativeType :
           /\ Works(m, w) /\ w.round = native.round /\ w.read = native.read
           /\ m.status = "pending" /\ m.previous = Mine.previous /\ m.dispatched = Mine.dispatched
           /\ m.acknowledged = Mine.acknowledged /\ m.generation = Mine.generation
           /\ \/ w.pc = "store" /\ ~native.read.contact /\ m = Mine
              \/ /\ w.pc = "store" /\ native.read.contact
                 /\ m.contact = IF Mine.contact = "none" THEN "reserved" ELSE Mine.contact
              \/ w.pc = "release" /\ m = Mine
<1>1. native.pc \in AtJob /\ native.pc = "reserve"
  BY Places DEF Reserve, Working
<1>2. CASE ~native.read.contact /\ Goto("store") /\ UNCHANGED job
  <2>1. \E w \in NativeType : Works(Mine, w) /\ w.pc = "store" /\ w.round = native.round /\ w.read = native.read
    BY <1>1, <1>2, GoesOn, MineKept, MineFields, Places
  <2> QED
    BY <1>1, <1>2, <2>1, MineFields
<1>3. CASE native.read.contact /\ Mine.contact = "none" /\ Goto("release") /\ UNCHANGED job
  <2>1. \E w \in NativeType : Works(Mine, w) /\ w.pc = "release" /\ w.round = native.round /\ w.read = native.read
    BY <1>1, <1>3, GoesOn, MineKept, MineFields, Places
  <2> QED
    BY <1>1, <1>3, <2>1, MineFields
<1>4. CASE /\ native.read.contact /\ Goto("store")
           /\ Save([Mine EXCEPT !.contact = IF @ = "none" THEN "reserved" ELSE @])
  <2> PICK c \in {"none", "reserved", "pending", "cancelled", "conflict"} :
        c = IF Mine.contact = "none" THEN "reserved" ELSE Mine.contact
    BY <1>1, MineFields, JobFields
  <2> PICK m : m = [Mine EXCEPT !.contact = IF @ = "none" THEN "reserved" ELSE @]
    OBVIOUS
  <2>1. m = [Mine EXCEPT !.contact = c]
    OBVIOUS
  <2>2. /\ m \in JobType /\ m.status = "pending" /\ m.manager = Mine.manager /\ m.since = Mine.since
        /\ m.previous = Mine.previous /\ m.dispatched = Mine.dispatched
        /\ m.acknowledged = Mine.acknowledged /\ m.generation = Mine.generation /\ m.contact = c
    BY <1>1, <2>1, MineFields DEF JobType
  <2>3. job' = [job EXCEPT ![native.key] = m]
    BY <1>4 DEF Save
  <2>4. \E w \in NativeType : Works(m, w) /\ w.pc = "store" /\ w.round = native.round /\ w.read = native.read
    BY <1>1, <1>4, <2>2, <2>3, GoesOn, Places
  <2> QED
    BY <1>4, <2>2, <2>4
<1> QED
  BY <1>2, <1>3, <1>4 DEF Reserve

LEMMA StoreWorks ==
  ASSUME TInv, Store
  PROVE  \E m \in JobType, w \in NativeType :
           /\ Works(m, w) /\ w.pc = "session" /\ w.round = 2 /\ w.read = native.read
           /\ m.status = "pending" /\ m.previous = native.read /\ m.generation = native.read.contact
           /\ m.contact = Mine.contact /\ m.dispatched = Mine.dispatched
           /\ m.acknowledged = Mine.acknowledged
<1>1. native.pc \in AtJob /\ native.pc = "store" /\ native.read \in Identities
  BY Places DEF Store, Working, TInv, Thinks
<1>2. native.read.contact \in BOOLEAN
  BY <1>1 DEF Identities
<1> DEFINE m == [Mine EXCEPT !.previous = native.read, !.generation = native.read.contact]
           w == [native EXCEPT !.pc = "session", !.round = 2]
<1>3. /\ m \in JobType /\ m.status = "pending" /\ m.manager = Mine.manager /\ m.since = Mine.since
      /\ m.previous = native.read /\ m.dispatched = Mine.dispatched
      /\ m.acknowledged = Mine.acknowledged /\ m.generation = native.read.contact
      /\ m.contact = Mine.contact
  BY <1>1, <1>2, MineFields DEF JobType
<1>4. w \in NativeType /\ w.pc = "session" /\ w.round = 2 /\ w.read = native.read /\ w.key = native.key
  <2>1. "session" \in PCs /\ 2 \in 0..3
    BY DEF PCs
  <2> QED
    BY <2>1, ThreadFields DEF NativeType
<1>5. job' = [job EXCEPT ![native.key] = m] /\ native' = w
  BY DEF Store, Save
<1> HIDE DEF m, w
<1>6. Works(m, w)
  BY <1>1, <1>3, <1>4, <1>5, Goes, Places
<1> QED
  BY <1>3, <1>4, <1>6

LEMMA DispatchWorks ==
  ASSUME TInv, Dispatch
  PROVE  \E m \in JobType, w \in NativeType :
           /\ Works(m, w) /\ w.round = 3 /\ w.read = native.read
           /\ w.pc = IF native.read.owner = Mine.manager THEN "acknowledge" ELSE "send"
           /\ m.status = "pending" /\ m.dispatched /\ m.previous = Mine.previous
           /\ m.acknowledged = Mine.acknowledged /\ m.generation = Mine.generation
           /\ m.contact = Mine.contact
<1>1. native.pc \in AtJob /\ native.pc = "dispatch"
  BY Places DEF Dispatch, Working
<1> PICK pc \in {"acknowledge", "send"} : pc = IF native.read.owner = Mine.manager THEN "acknowledge" ELSE "send"
  OBVIOUS
<1> DEFINE m == [Mine EXCEPT !.dispatched = TRUE]
           w == [native EXCEPT !.pc = pc, !.round = 3]
<1>3. /\ m \in JobType /\ m.status = "pending" /\ m.manager = Mine.manager /\ m.since = Mine.since
      /\ m.dispatched /\ m.previous = Mine.previous
      /\ m.acknowledged = Mine.acknowledged /\ m.generation = Mine.generation /\ m.contact = Mine.contact
  BY <1>1, MineFields DEF JobType
<1>4. w \in NativeType /\ w.pc = pc /\ w.round = 3 /\ w.read = native.read /\ w.key = native.key
  <2>1. pc \in PCs /\ 3 \in 0..3
    BY DEF PCs
  <2> QED
    BY <2>1, ThreadFields DEF NativeType
<1>5. job' = [job EXCEPT ![native.key] = m] /\ native' = w
  <2>1. Save(Crossed(Mine)) /\ native' = [native EXCEPT !.round = 3, !.pc = pc]
    BY DEF Dispatch
  <2>2. native' = w
    BY <2>1, ThreadFields DEF NativeType
  <2> QED
    BY <2>1, <2>2 DEF Save, Crossed
<1> HIDE DEF m, w
<1>6. Works(m, w)
  BY <1>1, <1>3, <1>4, <1>5, Goes, Places
<1> QED
  BY <1>3, <1>4, <1>6

LEMMA AcknowledgeWorks ==
  ASSUME TInv, Acknowledge
  PROVE  \E m \in JobType, w \in NativeType :
           /\ Works(m, w) /\ w.pc = "read" /\ w.round = native.round /\ w.read = native.read
           /\ m.status = "pending" /\ m.acknowledged /\ m.previous = Mine.previous
           /\ m.dispatched = Mine.dispatched /\ m.generation = Mine.generation /\ m.contact = Mine.contact
<1>1. native.pc \in AtJob /\ native.pc = "acknowledge" /\ Goto("read")
  BY Places DEF Acknowledge, Working
<1> DEFINE m == [Mine EXCEPT !.acknowledged = TRUE]
<1>2. /\ m \in JobType /\ m.status = "pending" /\ m.manager = Mine.manager /\ m.since = Mine.since
      /\ m.dispatched = Mine.dispatched /\ m.previous = Mine.previous
      /\ m.acknowledged /\ m.generation = Mine.generation /\ m.contact = Mine.contact
  BY <1>1, MineFields DEF JobType
<1>3. job' = [job EXCEPT ![native.key] = m]
  BY DEF Acknowledge, Save
<1> HIDE DEF m
<1>4. \E w \in NativeType : Works(m, w) /\ w.pc = "read" /\ w.round = native.round /\ w.read = native.read
  BY <1>1, <1>2, <1>3, GoesOn, Places
<1> QED
  BY <1>2, <1>4

LEMMA RejectWorks ==
  ASSUME TInv, Reject
  PROVE  \E m \in JobType, w \in NativeType :
           /\ Works(m, w) /\ w.pc = "release" /\ w.round = native.round /\ w.read = native.read
           /\ m.status = "pending" /\ ~m.dispatched /\ m.previous = Mine.previous
           /\ m.acknowledged = Mine.acknowledged /\ m.generation = Mine.generation
           /\ m.contact = Mine.contact
<1>1. native.pc \in AtJob /\ native.pc = "reject" /\ Goto("release")
  BY Places DEF Reject, Working
<1> DEFINE m == [Mine EXCEPT !.dispatched = FALSE]
<1>2. /\ m \in JobType /\ m.status = "pending" /\ m.manager = Mine.manager /\ m.since = Mine.since
      /\ ~m.dispatched /\ m.previous = Mine.previous
      /\ m.acknowledged = Mine.acknowledged /\ m.generation = Mine.generation /\ m.contact = Mine.contact
  BY <1>1, MineFields DEF JobType
<1>3. job' = [job EXCEPT ![native.key] = m]
  BY DEF Reject, Save
<1> HIDE DEF m
<1>4. \E w \in NativeType : Works(m, w) /\ w.pc = "release" /\ w.round = native.round /\ w.read = native.read
  BY <1>1, <1>2, <1>3, GoesOn, Places
<1> QED
  BY <1>2, <1>4

LEMMA ConfirmWorks ==
  ASSUME TInv, Confirm
  PROVE  \E m \in JobType, w \in NativeType :
           /\ Works(m, w) /\ w.pc = "ready" /\ w.round = native.round /\ w.read = native.read
           /\ m.status = "pending" /\ m.previous = Mine.previous /\ m.dispatched = Mine.dispatched
           /\ m.acknowledged = Mine.acknowledged /\ m.generation = Mine.generation
           /\ m.contact = IF Mine.generation /\ Mine.contact = "reserved" THEN "pending" ELSE Mine.contact
<1>1. native.pc \in AtJob /\ native.pc = "confirm" /\ Goto("ready")
  BY Places DEF Confirm, Working
<1> PICK c \in {"none", "reserved", "pending", "cancelled", "conflict"} :
      c = IF Mine.generation /\ Mine.contact = "reserved" THEN "pending" ELSE Mine.contact
  BY <1>1, MineFields, JobFields
<1> PICK m : m = [Mine EXCEPT !.contact = IF Mine.generation /\ @ = "reserved" THEN "pending" ELSE @]
  OBVIOUS
<1>2. m = [Mine EXCEPT !.contact = c]
  OBVIOUS
<1>3. /\ m \in JobType /\ m.status = "pending" /\ m.manager = Mine.manager /\ m.since = Mine.since
      /\ m.dispatched = Mine.dispatched /\ m.previous = Mine.previous
      /\ m.acknowledged = Mine.acknowledged /\ m.generation = Mine.generation /\ m.contact = c
  BY <1>1, <1>2, MineFields DEF JobType
<1>4. job' = [job EXCEPT ![native.key] = m]
  BY DEF Confirm, Save
<1>5. \E w \in NativeType : Works(m, w) /\ w.pc = "ready" /\ w.round = native.round /\ w.read = native.read
  BY <1>1, <1>3, <1>4, GoesOn, Places
<1> QED
  BY <1>3, <1>5

LEMMA ReleaseWorks ==
  ASSUME TInv, Release
  PROVE  \E m \in JobType, w \in NativeType :
           /\ Works(m, w) /\ w.pc = "conflict" /\ w.round = native.round /\ w.read = native.read
           /\ m.status = "pending" /\ m.previous = Mine.previous /\ m.dispatched = Mine.dispatched
           /\ m.acknowledged = Mine.acknowledged /\ m.generation = Mine.generation
           /\ m.contact = Released(Mine)
<1>1. native.pc \in AtJob /\ native.pc = "release" /\ Goto("conflict")
  BY Places DEF Release, Working
<1> PICK c \in {"none", "reserved", "pending", "cancelled", "conflict"} : c = Released(Mine)
  BY <1>1, MineFields, JobFields DEF Released
<1> DEFINE m == [Mine EXCEPT !.contact = c]
<1>2. /\ m \in JobType /\ m.status = "pending" /\ m.manager = Mine.manager /\ m.since = Mine.since
      /\ m.dispatched = Mine.dispatched /\ m.previous = Mine.previous
      /\ m.acknowledged = Mine.acknowledged /\ m.generation = Mine.generation /\ m.contact = c
  BY <1>1, MineFields DEF JobType
<1>3. job' = [job EXCEPT ![native.key] = m]
  BY DEF Release, Save
<1> HIDE DEF m
<1>4. \E w \in NativeType : Works(m, w) /\ w.pc = "conflict" /\ w.round = native.round /\ w.read = native.read
  BY <1>1, <1>2, <1>3, GoesOn, Places
<1> QED
  BY <1>2, <1>4

LEMMA FinishWorks ==
  ASSUME TInv, Finish
  PROVE  \E m \in JobType :
           /\ Works(m, Idle) /\ native.pc \in {"ready", "conflict"} /\ m.status = native.pc
           /\ m.previous = Mine.previous /\ m.dispatched = Mine.dispatched
           /\ m.acknowledged = Mine.acknowledged /\ m.generation = Mine.generation
           /\ m.contact = Mine.contact
<1>1. PICK e \in {"ready", "conflict"} : native.pc = e /\ End(e)
  BY DEF Finish, Working
<1>2. native.pc \in AtJob /\ native' = Idle
  BY <1>1, Places DEF End, Rest
<1> DEFINE m == [Mine EXCEPT !.status = e]
<1>3. /\ m \in JobType /\ m.status = e /\ m.manager = Mine.manager /\ m.since = Mine.since
      /\ m.dispatched = Mine.dispatched /\ m.previous = Mine.previous
      /\ m.acknowledged = Mine.acknowledged /\ m.generation = Mine.generation /\ m.contact = Mine.contact
  BY <1>2, MineFields DEF JobType
<1>4. job' = [job EXCEPT ![native.key] = m]
  BY <1>1 DEF End, Save
<1> HIDE DEF m
<1>5. Works(m, Idle)
  BY <1>2, <1>3, <1>4, IdleFields, Places DEF Works
<1> QED
  BY <1>1, <1>3, <1>5
-----------------------------------------------------------------------------
(* Types: every step keeps TInv.                                           *)

LEMMA WorksTyped ==
  ASSUME TInv, native.pc \in AtJob, NEW m \in JobType, NEW w \in NativeType, Works(m, w),
         UNCHANGED <<session, deal, row, claim, events, history>>, applied' = applied,
         inflight' \in SUBSET Keys, \A k \in inflight' : k \in inflight \/ k = native.key,
         w.pc \in {"reserve", "store"} => w.read \in Identities
  PROVE  TInv'
<1>1. /\ job' = [job EXCEPT ![native.key] = m] /\ native' = w /\ m.manager = Mine.manager
      /\ m.status # "none" /\ native' \in NativeType
      /\ native'.pc \in AtJob => native'.key = native.key /\ m.status = "pending"
      /\ native'.pc \notin AtJob => native' = Idle
      /\ native'.pc \in {"reserve", "store"} => native'.read \in Identities
  BY DEF Works
<1>2. /\ job' \in [Keys -> JobType] /\ job'[native.key] = m
      /\ \A k \in Keys \ {native.key} : job'[k] = job[k]
  BY <1>1, Saved
<1>3. /\ native.key \in Keys /\ Mine = job[native.key] /\ claim.pc = "idle" /\ Mine.manager \in Managers
      /\ Mine.status = "pending"
  BY MineFields
<1>4. Assigned'
  <2>1. Assigned
    BY DEF TInv
  <2>2. \A k \in Keys : /\ job'[k].status = "none" => ~job'[k].dispatched
                        /\ job'[k].status # "none" => job'[k].manager \in Managers /\ k[2] <= row[k[1]].revision
    <3> TAKE k \in Keys
    <3>1. CASE k = native.key
      BY <1>1, <1>2, <1>3, <2>1, <3>1 DEF Assigned
    <3>2. CASE k # native.key
      BY <1>2, <2>1, <3>2 DEF Assigned
    <3> QED
      BY <3>1, <3>2
  <2>3. \A k \in inflight' : job'[k].status # "none"
    BY <1>1, <1>2, <1>3, <2>1 DEF Assigned
  <2> QED
    BY <1>3, <2>1, <2>2, <2>3 DEF Assigned
<1>5. Thinks'
  <2>1. native'.pc \notin {"seen", "fenced"}
    BY <1>1, Places, IdleFields
  <2> QED
    BY <1>1, <1>2, <1>3, <2>1 DEF Thinks
<1> QED
  BY <1>2, <1>4, <1>5, Types, Typed DEF history

LEMMA ProcessTyped ==
  ASSUME TInv, \/ ReadSession \/ ReadDeal \/ Reserve \/ Store \/ Dispatch \/ Send \/ Answer
               \/ Acknowledge \/ Reject \/ ReadBack \/ Confirm \/ Release \/ Finish
  PROVE  TInv'
<1>0. /\ native.pc \in AtJob /\ applied' = applied
      /\ UNCHANGED <<session, deal, row, claim, events, history>>
      /\ Quiet \/ Send \/ Answer
  BY Places DEF ReadSession, ReadDeal, Reserve, Store, Dispatch, Send, Answer, Acknowledge, Reject,
     ReadBack, Confirm, Release, Finish, End, Working, Quiet, bitrix, history
<1>1. inflight' \in SUBSET Keys /\ \A k \in inflight' : k \in inflight \/ k = native.key
  BY <1>0, Types, MineFields DEF Quiet, bitrix, Send, Answer
<1>2. ASSUME NEW m \in JobType, NEW w \in NativeType, Works(m, w),
             w.pc \in {"reserve", "store"} => w.read \in Identities
      PROVE  TInv'
  BY <1>0, <1>1, <1>2, WorksTyped
<1>3. Mine \in JobType
  BY <1>0, MineFields
<1>4. CASE ReadSession
  BY <1>2, <1>3, <1>4, ReadSessionWorks
<1>5. CASE ReadDeal
  <2>1. PICK w \in NativeType : /\ Works(Mine, w)
                                /\ w.pc \in {"reserve", "store"} => w.read = Identity
    BY <1>5, ReadDealWorks
  <2> QED
    BY <1>2, <1>3, <2>1, IdentityType
<1>6. CASE Reserve
  <2>1. native.read \in Identities
    BY <1>6 DEF Reserve, Working, TInv, Thinks
  <2> QED
    BY <1>2, <1>6, <2>1, ReserveWorks
<1>7. CASE Store
  BY <1>2, <1>7, StoreWorks
<1>8. CASE Dispatch
  BY <1>2, <1>8, DispatchWorks
<1>9. CASE Send
  BY <1>2, <1>3, <1>9, SendWorks
<1>10. CASE Answer
  BY <1>2, <1>3, <1>10, AnswerWorks
<1>11. CASE Acknowledge
  BY <1>2, <1>11, AcknowledgeWorks
<1>12. CASE Reject
  BY <1>2, <1>12, RejectWorks
<1>13. CASE ReadBack
  BY <1>2, <1>3, <1>13, ReadBackWorks, IdleFields
<1>14. CASE Confirm
  BY <1>2, <1>14, ConfirmWorks
<1>15. CASE Release
  BY <1>2, <1>15, ReleaseWorks
<1>16. CASE Finish
  BY <1>2, <1>16, FinishWorks, IdleFields
<1> QED
  BY <1>4, <1>5, <1>6, <1>7, <1>8, <1>9, <1>10, <1>11, <1>12, <1>13, <1>14, <1>15, <1>16

\* What happens in Bitrix or to a claim.
LEMMA AgedTyped ==
  ASSUME TInv, NEW what \in SUBSET Events, NEW claims \in BOOLEAN, Happens(what, claims),
         deal' \in DealType, claim' \in ClaimType,
         claim'.pc # "idle" => claim'.manager \in Managers /\ native.pc \notin AtJob,
         inflight' \in SUBSET inflight, applied' \in SUBSET Keys, chosen' \in BOOLEAN,
         events' \in 0..MaxEvents, accepts' = accepts,
         overtaken' \in [Sessions -> {"no", "yes", "unseen"}]
  PROVE  TInv'
<1>1. /\ session' \in [Sessions -> SessionType] /\ row' \in [Sessions -> RowType]
      /\ job' \in [Keys -> JobType] /\ native' \in NativeType
      /\ \A s \in Sessions : SameSession(session'[s], session[s]) /\ row'[s].revision = row[s].revision
      /\ \A k \in Keys : SameJob(job'[k], job[k])
      /\ SameThread(native', native)
  <2>1. session' \in [Sessions -> SessionType] /\ \A s \in Sessions : SameSession(session'[s], session[s])
    BY Aging
  <2>2. row' \in [Sessions -> RowType] /\ \A s \in Sessions : row'[s].revision = row[s].revision
    BY AgingRows
  <2>3. job' \in [Keys -> JobType] /\ \A k \in Keys : SameJob(job'[k], job[k])
    BY AgingJobs
  <2>4. SameThread(native', native) /\ native' \in NativeType
    BY AgingThread DEF SameThread
  <2> QED
    BY <2>1, <2>2, <2>3, <2>4
<1>2. Assigned'
  <2>1. /\ Assigned /\ inflight \in SUBSET Keys
        /\ \A k \in Keys : k[1] \in Sessions
    BY Types, JobFields DEF TInv
  <2>2. \A s \in Sessions : session'[s].status = "accepted" => session'[s].operator \in Managers
    BY <1>1, <2>1 DEF Assigned, SameSession
  <2>3. \A k \in Keys : /\ job'[k].status = "none" => ~job'[k].dispatched
                        /\ job'[k].status # "none" => job'[k].manager \in Managers /\ k[2] <= row'[k[1]].revision
    BY <1>1, <2>1 DEF Assigned, SameJob
  <2>4. \A k \in inflight' : job'[k].status # "none"
    BY <1>1, <2>1 DEF Assigned, SameJob
  <2> QED
    BY <2>2, <2>3, <2>4 DEF Assigned
<1>3. Thinks'
  <2>1. Thinks
    BY DEF TInv
  <2>2. /\ native'.pc = native.pc /\ native'.of = native.of /\ native'.key = native.key
        /\ native'.read = native.read
        /\ native'.session.status = native.session.status
        /\ native'.session.operator = native.session.operator
    BY <1>1 DEF SameThread
  <2>3. native'.pc \in {"seen", "fenced"} =>
          /\ native'.of \in Sessions /\ row'[native'.of].revision < MaxRevisions
          /\ native'.session.status = "accepted" => native'.session.operator \in Managers
    BY <1>1, <2>1, <2>2 DEF Thinks
  <2>4. native'.pc \in AtJob => native'.key \in Keys /\ job'[native'.key].status = "pending"
    BY <1>1, <2>1, <2>2 DEF Thinks, SameJob
  <2>5. native'.pc \in AtJob => claim'.pc = "idle"
    BY <2>2
  <2> QED
    BY <1>1, <2>1, <2>2, <2>3, <2>4, <2>5 DEF Thinks
<1>4. inflight' \in SUBSET Keys
  BY Types
<1> QED
  BY <1>1, <1>2, <1>3, <1>4, Typed, Types
LEMMA EventTyped ==
  ASSUME TInv, Event
  PROVE  events' \in 0..MaxEvents
BY Types DEF Event

LEMMA OvertakeType ==
  ASSUME TInv
  PROVE  /\ Overtake \in [Sessions -> {"no", "yes", "unseen"}]
         /\ \A s \in Sessions : session[s].status # "accepted" => Overtake[s] = overtaken[s]
<1>1. \A s \in Sessions : overtaken[s] \in {"no", "yes", "unseen"}
  BY Types
<1> QED
  BY <1>1 DEF Overtake

\* A person changes the deal, and nothing else of it than one of its parts.
LEMMA EditEffect ==
  ASSUME TInv, EditDeal
  PROVE  \E to \in DealType :
           /\ Edit(to) /\ deal' \in DealType /\ deal'.owner = to.owner
           /\ deal'.edition = deal.edition + 1
<1>1. ASSUME NEW to \in DealType, Edit(to)
      PROVE  deal' \in DealType /\ deal'.owner = to.owner /\ deal'.edition = deal.edition + 1
  BY <1>1, DealFields DEF Edit, DealType
<1>2. ASSUME NEW o \in Owners PROVE [deal EXCEPT !.owner = o] \in DealType
  BY DealFields DEF DealType
<1>3. [deal EXCEPT !.binding = deal.edition + 1, !.contact = FALSE] \in DealType
  <2> PICK n \in Nat : n = deal.edition + 1
    BY DealFields
  <2>1. [deal EXCEPT !.binding = n, !.contact = FALSE] \in DealType
    BY DealFields DEF DealType
  <2> QED
    BY <2>1
<1>4. [deal EXCEPT !.open = FALSE] \in DealType
  BY DealFields DEF DealType
<1>5. \E to \in DealType : Edit(to)
  BY <1>2, <1>3, <1>4 DEF EditDeal
<1> QED
  BY <1>1, <1>5

LEMMA ApplyEffect ==
  ASSUME TInv, NEW k \in Keys, Apply(k)
  PROVE  /\ deal' \in DealType /\ deal'.owner = job[k].manager /\ deal'.edition = deal.edition + 1
         /\ deal'.binding = deal.binding /\ deal'.contact = deal.contact
         /\ job[k].manager \in Managers
<1>1. job[k].manager \in Managers
  BY DEF TInv, Assigned, Apply
<1> PICK n \in Nat : n = deal.edition + 1
  BY DealFields
<1> PICK o \in Owners : o = job[k].manager
  BY <1>1 DEF Owners
<1>2. deal' = [deal EXCEPT !.owner = o, !.edition = n]
  BY DEF Apply
<1> QED
  BY <1>1, <1>2, DealFields DEF DealType

LEMMA WriteEffect ==
  ASSUME TInv, Write
  PROVE  /\ deal' \in DealType /\ deal'.owner = claim.manager /\ deal'.edition = deal.edition + 1
         /\ deal'.contact = deal.contact
         /\ claim' \in ClaimType /\ claim'.pc = "record" /\ claim'.manager = claim.manager
         /\ claim.manager \in Managers /\ native.pc \notin AtJob
<1>1. claim.manager \in Managers /\ native.pc \notin AtJob
  BY DEF TInv, Assigned, Thinks, Write
<1> PICK n \in Nat : n = deal.edition + 1
  BY DealFields
<1> PICK o \in Owners : o = claim.manager
  BY <1>1 DEF Owners
<1>2. deal' = [deal EXCEPT !.owner = o, !.edition = n, !.binding = n]
  BY DEF Write
<1>3. /\ deal' \in DealType /\ deal'.owner = claim.manager /\ deal'.edition = deal.edition + 1
      /\ deal'.contact = deal.contact
  BY <1>2, DealFields DEF DealType
<1>4. claim' \in ClaimType /\ claim'.pc = "record" /\ claim'.manager = claim.manager
  BY DealFields DEF Write, ClaimType
<1> QED
  BY <1>1, <1>3, <1>4

LEMMA RecordTyped ==
  ASSUME TInv, NEW b \in BOOLEAN, Record(b)
  PROVE  TInv'
<1>1. claim' \in ClaimType /\ claim'.pc = "idle"
  BY NativeAssumption DEF Record, NoClaim, ClaimType
<1>2. PICK what \in SUBSET Events : what = IF b THEN {"claim"} ELSE {}
  BY DEF Events
<1>3. Happens(what, TRUE)
  BY <1>2 DEF Record
<1>4. /\ deal' = deal /\ inflight' = inflight /\ applied' = applied /\ events' = events /\ chosen' = chosen
      /\ accepts' = accepts /\ overtaken' = overtaken
  BY DEF Record, history
<1> QED
  BY <1>1, <1>3, <1>4, AgedTyped, Types

LEMMA RecordingEffect ==
  ASSUME TInv, EndClaim \/ Sweep
  PROVE  \E b \in BOOLEAN : Record(b)
<1>1. CASE EndClaim
  <2> PICK b \in BOOLEAN : b = (claim.pc = "record")
    OBVIOUS
  <2> QED
    BY <1>1 DEF EndClaim
<1>2. CASE Sweep
  BY <1>2, DealFields DEF Sweep
<1> QED
  BY <1>1, <1>2

LEMMA BitrixTyped ==
  ASSUME TInv
  PROVE  /\ EditDeal => TInv'
         /\ \A k \in Keys : Apply(k) => TInv'
         /\ Write => TInv'
         /\ \A m \in Managers : Begin(m) => TInv'
         /\ EndClaim \/ Sweep => TInv'
<1>0. {"edit"} \in SUBSET Events /\ {} \in SUBSET Events
  BY DEF Events
<1>1. ASSUME EditDeal PROVE TInv'
  <2> PICK to \in DealType : Edit(to) /\ deal' \in DealType
    BY <1>1, EditEffect
  <2>1. overtaken' \in [Sessions -> {"no", "yes", "unseen"}]
    BY OvertakeType, Types DEF Edit
  <2>2. chosen' \in BOOLEAN
    <3>1. PICK b \in BOOLEAN : b <=> \E k \in Keys : job[k].status = "pending" /\ job[k].manager = to.owner
      BY Zenon
    <3> QED
      BY <3>1, Types DEF Edit
  <2>3. /\ Happens({"edit"}, FALSE) /\ events' \in 0..MaxEvents
        /\ claim' = claim /\ inflight' = inflight /\ applied' = applied /\ accepts' = accepts
    BY EventTyped DEF Edit
  <2>4. claim'.pc # "idle" => claim'.manager \in Managers /\ native.pc \notin AtJob
    BY <2>3 DEF TInv, Assigned, Thinks
  <2> QED
    BY <1>0, <2>1, <2>2, <2>3, <2>4, AgedTyped, Types
<1>2. ASSUME NEW k \in Keys, Apply(k) PROVE TInv'
  <2>1. /\ Happens({"edit"}, FALSE) /\ events' = events /\ chosen' = chosen
        /\ claim' = claim /\ accepts' = accepts /\ overtaken' = overtaken
        /\ inflight' \in SUBSET inflight /\ applied' \in SUBSET Keys
    BY <1>2, Types DEF Apply, history
  <2>2. claim'.pc # "idle" => claim'.manager \in Managers /\ native.pc \notin AtJob
    BY <2>1 DEF TInv, Assigned, Thinks
  <2> QED
    BY <1>0, <1>2, <2>1, <2>2, AgedTyped, ApplyEffect, Types
<1>3. ASSUME Write PROVE TInv'
  <2>1. /\ Happens({"edit"}, FALSE) /\ events' = events /\ chosen' = chosen
        /\ accepts' = accepts /\ overtaken' = Overtake
        /\ inflight' = inflight /\ applied' = applied
    BY <1>3 DEF Write
  <2> QED
    BY <1>0, <1>3, <2>1, AgedTyped, WriteEffect, OvertakeType, Types
<1>4. ASSUME NEW m \in Managers, Begin(m) PROVE TInv'
  <2>1. /\ Happens({}, TRUE) /\ events' \in 0..MaxEvents /\ deal' = deal /\ chosen' = chosen
        /\ accepts' = accepts /\ overtaken' = overtaken
        /\ inflight' = inflight /\ applied' = applied
    BY <1>4, EventTyped DEF Begin, history
  <2>2. claim' \in ClaimType /\ claim'.pc = "guard" /\ claim'.manager = m
    BY <1>4 DEF Begin, ClaimType
  <2>3. native.pc \notin AtJob
    BY <1>4 DEF Begin, DealFree, AtJob
  <2> QED
    BY <1>0, <2>1, <2>2, <2>3, AgedTyped, Types
<1>5. ASSUME EndClaim \/ Sweep PROVE TInv'
  BY <1>5, RecordingEffect, RecordTyped
<1> QED
  BY <1>1, <1>2, <1>3, <1>4, <1>5
-----------------------------------------------------------------------------
(* A session moves.                                                        *)

LEMMA SessionTyped ==
  ASSUME TInv, NEW s \in Sessions, NEW to \in SessionType,
         to.status = "accepted" => to.operator \in Managers,
         session' = [session EXCEPT ![s] = to],
         UNCHANGED <<deal, row, job, claim, native, inflight, applied, chosen>>,
         events' \in 0..MaxEvents, accepts' \in [Sessions -> 0..MaxAccepts],
         overtaken' \in [Sessions -> {"no", "yes", "unseen"}]
  PROVE  TInv'
<1>1. session' \in [Sessions -> SessionType]
  BY Types
<1>2. Assigned'
  <2>1. Assigned /\ session \in [Sessions -> SessionType]
    BY Types DEF TInv
  <2>2. \A t \in Sessions : session'[t].status = "accepted" => session'[t].operator \in Managers
    BY <2>1 DEF Assigned
  <2> QED
    BY <2>1, <2>2 DEF Assigned
<1>3. Thinks'
  <2>1. Thinks
    BY DEF TInv
  <2> QED
    BY <2>1 DEF Thinks
<1> QED
  BY <1>1, <1>2, <1>3, Types, Typed

LEMMA OpenTo ==
  ASSUME TInv, NEW s \in Sessions, Open(s)
  PROVE  \E to \in SessionType : /\ Becomes(s, to) /\ to.status = "new" /\ to.historic = FALSE
                                 /\ session[s].status = "none" /\ events' = events
<1>1. PICK bound \in BOOLEAN : Becomes(s, [NoSession EXCEPT !.status = "new", !.bound = bound])
  BY DEF Open
<1> DEFINE to == [NoSession EXCEPT !.status = "new", !.bound = bound]
<1>2. to \in SessionType /\ to.status = "new" /\ to.historic = FALSE
  BY DEF NoSession, SessionType
<1> QED
  BY <1>1, <1>2 DEF Open

LEMMA MoveTo ==
  ASSUME TInv, NEW s \in Sessions, Move(s)
  PROVE  \E to \in SessionType :
           /\ Becomes(s, to) /\ to.historic = session[s].historic
           /\ to.status = "accepted" => /\ session[s].status = "accepted" /\ to.operator \in Managers
                                        /\ to.answered = session[s].answered
<1>1. session[s] \in SessionType /\ (session[s].status = "accepted" => session[s].operator \in Managers)
  BY SessionFields DEF TInv, Assigned
<1>2. CASE Becomes(s, [session[s] EXCEPT !.status = "new", !.operator = None, !.answered = {}])
  <2> DEFINE to == [session[s] EXCEPT !.status = "new", !.operator = None, !.answered = {}]
  <2>1. to \in SessionType /\ to.historic = session[s].historic /\ to.status = "new"
    BY <1>1 DEF SessionType
  <2> QED
    BY <1>2, <2>1
<1>3. ASSUME NEW m \in Managers, session[s].status = "accepted",
             Becomes(s, [session[s] EXCEPT !.operator = m])
      PROVE  \E to \in SessionType :
               /\ Becomes(s, to) /\ to.historic = session[s].historic
               /\ to.status = "accepted" => /\ session[s].status = "accepted" /\ to.operator \in Managers
                                            /\ to.answered = session[s].answered
  <2> DEFINE to == [session[s] EXCEPT !.operator = m]
  <2>1. /\ to \in SessionType /\ to.historic = session[s].historic /\ to.operator = m
        /\ to.answered = session[s].answered
    BY <1>1 DEF SessionType
  <2> QED
    BY <1>3, <2>1
<1>4. CASE Becomes(s, [session[s] EXCEPT !.status = "closed"])
  <2> DEFINE to == [session[s] EXCEPT !.status = "closed"]
  <2>1. to \in SessionType /\ to.historic = session[s].historic /\ to.status = "closed"
    BY <1>1 DEF SessionType
  <2> QED
    BY <1>4, <2>1
<1>5. CASE Becomes(s, [session[s] EXCEPT !.bound = TRUE])
  <2> DEFINE to == [session[s] EXCEPT !.bound = TRUE]
  <2>1. /\ to \in SessionType /\ to.historic = session[s].historic /\ to.status = session[s].status
        /\ to.operator = session[s].operator /\ to.answered = session[s].answered
    BY <1>1 DEF SessionType
  <2> QED
    BY <1>1, <1>5, <2>1
<1> QED
  BY <1>2, <1>3, <1>4, <1>5 DEF Move

\* The bound on acceptances leaves room for one more of the session.
LEMMA RoomToAccept ==
  ASSUME TInv, NEW s \in Sessions, NEW m \in Managers, Accept(s, m)
  PROVE  accepts[s] < MaxAccepts
<1> DEFINE All == Sessions \X (1..MaxAccepts)
           Had == {a \in All : a[2] <= accepts[a[1]]}
           Own == {s} \X (1..MaxAccepts)
<1>1. Cardinality(Had) < MaxAccepts
  BY DEF Accept
<1>2. MaxAccepts \in Nat /\ MaxSessions \in Nat /\ accepts[s] \in 0..MaxAccepts
  BY Types
<1>3. IsFiniteSet(Sessions) /\ IsFiniteSet(1..MaxAccepts) /\ Cardinality(1..MaxAccepts) = MaxAccepts
  <2>1. 1 \in Int /\ MaxAccepts \in Int /\ MaxSessions \in Int
    BY <1>2
  <2>2. IsFiniteSet(1..MaxSessions)
    BY <2>1, FS_Interval
  <2>3. IsFiniteSet(1..MaxAccepts) /\ Cardinality(1..MaxAccepts) = IF 1 > MaxAccepts THEN 0 ELSE MaxAccepts - 1 + 1
    BY <2>1, FS_Interval
  <2> QED
    BY <1>2, <2>2, <2>3 DEF Sessions
<1>4. IsFiniteSet(All)
  BY <1>3, FS_Product
<1>5. IsFiniteSet(Had)
  BY <1>4, FS_Subset
<1>6. Cardinality(Own) = MaxAccepts
  <2>1. IsFiniteSet({s}) /\ Cardinality({s}) = 1
    BY FS_Singleton
  <2>2. Cardinality(Own) = 1 * MaxAccepts
    BY <1>3, <2>1, FS_Product
  <2> QED
    BY <1>2, <2>2
<1>7. SUFFICES ASSUME ~(accepts[s] < MaxAccepts) PROVE FALSE
  OBVIOUS
<1>8. Own \subseteq Had
  <2>1. accepts[s] = MaxAccepts
    BY <1>2, <1>7
  <2> SUFFICES ASSUME NEW a \in Own PROVE a \in Had
    OBVIOUS
  <2>2. a \in All /\ a[1] = s /\ a[2] \in 1..MaxAccepts
    OBVIOUS
  <2> QED
    BY <1>2, <2>1, <2>2
<1>9. Cardinality(Own) <= Cardinality(Had) /\ Cardinality(Had) \in Nat
  <2> HIDE DEF Own, Had
  <2> QED
    BY <1>5, <1>8, FS_Subset, FS_CardinalityType
<1> QED
  BY <1>1, <1>2, <1>6, <1>9

LEMMA AcceptTo ==
  ASSUME TInv, NEW s \in Sessions, NEW m \in Managers, Accept(s, m)
  PROVE  /\ \E to \in SessionType :
              /\ session' = [session EXCEPT ![s] = to]
              /\ to.status = "accepted" /\ to.operator = m /\ to.historic = session[s].historic
         /\ session[s].status = "new"
         /\ accepts' \in [Sessions -> 0..MaxAccepts] /\ accepts'[s] = accepts[s] + 1
         /\ \A t \in Sessions \ {s} : accepts'[t] = accepts[t] /\ overtaken'[t] = overtaken[t]
         /\ overtaken' \in [Sessions -> {"no", "yes", "unseen"}] /\ overtaken'[s] = "no"
         /\ UNCHANGED <<deal, row, job, claim, native, inflight, applied, events, chosen>>
<1> DEFINE to == [session[s] EXCEPT !.status = "accepted", !.operator = m, !.answered = {}]
<1>1. to \in SessionType /\ to.status = "accepted" /\ to.operator = m /\ to.historic = session[s].historic
  BY SessionFields DEF SessionType
<1>2. session' = [session EXCEPT ![s] = to]
  BY Types DEF Accept, SessionType
<1>3. accepts[s] + 1 \in 0..MaxAccepts
  BY RoomToAccept, Types
<1>4. /\ session[s].status = "new" /\ accepts' = [accepts EXCEPT ![s] = accepts[s] + 1]
      /\ overtaken' = [overtaken EXCEPT ![s] = "no"]
      /\ UNCHANGED <<deal, row, job, claim, native, inflight, applied, events, chosen>>
  BY DEF Accept
<1> HIDE DEF to
<1> QED
  BY <1>1, <1>2, <1>3, <1>4, Types

LEMMA SessionsTyped ==
  ASSUME TInv, NEW s \in Sessions
  PROVE  /\ Open(s) \/ Move(s) => TInv'
         /\ \A m \in Managers : Accept(s, m) => TInv'
<1>1. ASSUME NEW to \in SessionType, Becomes(s, to), events' \in 0..MaxEvents,
             to.status = "accepted" => to.operator \in Managers
      PROVE  TInv'
  BY <1>1, SessionTyped, Types DEF Becomes, history
<1>2. ASSUME Open(s) PROVE TInv'
  BY <1>1, <1>2, OpenTo, Types
<1>3. ASSUME Move(s) PROVE TInv'
  <2>1. events' \in 0..MaxEvents
    BY <1>3, EventTyped DEF Move
  <2> QED
    BY <1>1, <1>3, <2>1, MoveTo
<1>4. ASSUME NEW m \in Managers, Accept(s, m) PROVE TInv'
  BY <1>4, AcceptTo, SessionTyped, Types
<1> QED
  BY <1>2, <1>3, <1>4
-----------------------------------------------------------------------------
(* The thread looks at a session, takes a job, or stops.                   *)

LEMMA LookEffect ==
  ASSUME TInv, NEW s \in Sessions, Look(s)
  PROVE  /\ native' \in NativeType /\ native'.pc = "seen" /\ native'.of = s
         /\ native'.session = session[s]
<1> PICK u \in SessionType : u = session[s]
  BY SessionFields
<1>1. native' = [Idle EXCEPT !.pc = "seen", !.of = s, !.session = u]
  BY DEF Look
<1>2. s \in 0..MaxSessions
  BY Types DEF Sessions
<1> QED
  BY <1>1, <1>2, IdleFields DEF NativeType, PCs

LEMMA FenceEffect ==
  ASSUME TInv, Fence
  PROVE  /\ native' \in NativeType /\ native'.pc = "fenced" /\ native'.of = native.of
         /\ native'.session = native.session /\ native'.since = native.since
BY ThreadFields DEF Fence, Goto, NativeType, PCs

LEMMA TakeEffect ==
  ASSUME TInv, NEW k \in Keys, Take(k)
  PROVE  /\ native' \in NativeType /\ native'.key = k /\ native'.read = None
         /\ \/ job[k].dispatched /\ native'.pc = "read" /\ native'.round = 3
            \/ ~job[k].dispatched /\ native'.pc = "session" /\ native'.round = 1
         /\ job[k].status = "pending" /\ native.pc = "idle" /\ claim.pc = "idle"
         /\ \A j \in Keys \ {k} : ~Dispatched(j)
<1>0. job[k].dispatched \in BOOLEAN /\ {"read", "session"} \subseteq PCs
  BY JobFields DEF PCs
<1>1. PICK pc \in {"read", "session"} : pc = IF job[k].dispatched THEN "read" ELSE "session"
  OBVIOUS
<1>2. PICK round \in {1, 3} : round = IF job[k].dispatched THEN 3 ELSE 1
  OBVIOUS
<1>3. native' = [Idle EXCEPT !.key = k, !.pc = pc, !.round = round]
  BY <1>1, <1>2 DEF Take
<1>4. /\ native' \in NativeType /\ native'.key = k /\ native'.read = None /\ native'.pc = pc
      /\ native'.round = round
  <2>1. pc \in PCs /\ round \in 0..3 /\ k \in Keys \cup {<<0, 0>>}
    BY <1>0
  <2> QED
    BY <1>3, <2>1, IdleFields DEF NativeType
<1> QED
  BY <1>0, <1>1, <1>2, <1>4 DEF Take, DealFree

\* What a look at session s leaves behind: its row r and, maybe, a job.
LEMMA ObserveEffect ==
  ASSUME TInv, Observe
  PROVE  /\ native.of \in Sessions /\ native.pc = "fenced" /\ native' = Idle
         /\ \E r \in RowType :
              /\ row' = [row EXCEPT ![native.of] = r] /\ r.known
              /\ r.armed => /\ \/ native.session.status = "new"
                               \/ Eligible(native.of) /\ native.session.status = "accepted"
                            /\ r.seen = LastSeen(EventBound(native.of))
              /\ \/ r.revision = row[native.of].revision /\ job' = job
                 \/ /\ Eligible(native.of) /\ native.session.status = "accepted" /\ ~r.armed
                    /\ r.revision = row[native.of].revision + 1
                    /\ <<native.of, r.revision>> \in Keys
                    /\ \E m \in JobType :
                         /\ job' = [job EXCEPT ![<<native.of, r.revision>>] = m]
                         /\ m.status = "pending" /\ m.manager = native.session.operator
                         /\ m.since = EventBound(native.of) /\ m.previous = None
                         /\ ~m.dispatched /\ ~m.acknowledged /\ ~m.generation /\ m.contact = "none"
<1>1. native.pc = "fenced" /\ native.of \in Sessions /\ row[native.of].revision < MaxRevisions /\ native' = Idle
  BY DEF Observe, Rest, TInv, Thinks
<1> PICK s \in Sessions : s = native.of
  BY <1>1
<1>2. EventBound(s) \in SUBSET Events /\ LastSeen(EventBound(s)) \in SUBSET Events
  BY SessionFields, ThreadFields DEF EventBound, LastSeen
<1> DEFINE accepted == Eligible(s) /\ native.session.status = "accepted"
           revision == row[s].revision + (IF accepted /\ native.session.bound THEN 1 ELSE 0)
           armed == native.session.status = "new" \/ (accepted /\ ~native.session.bound)
           seen == IF armed THEN LastSeen(EventBound(s)) ELSE {}
           m == [NoJob EXCEPT !.status = "pending", !.manager = native.session.operator,
                              !.since = EventBound(s), !.touched = native.touched]
<1>3. /\ row' = [row EXCEPT ![s] = [known |-> TRUE, armed |-> armed, revision |-> revision, seen |-> seen]]
      /\ job' = IF revision = row[s].revision THEN job ELSE [job EXCEPT ![<<s, revision>>] = m]
  BY DEF Observe
<1>4. PICK a \in BOOLEAN : a = armed
  OBVIOUS
<1>5. PICK b \in BOOLEAN : b <=> accepted /\ native.session.bound
  BY Zenon
<1>6. PICK n \in 0..MaxRevisions : n = revision
  <2>1. row[s].revision \in 0..MaxRevisions /\ row[s].revision < MaxRevisions /\ MaxRevisions \in Nat
    BY <1>1, SessionFields, Types
  <2>2. revision = row[s].revision + 0 \/ revision = row[s].revision + 1
    OBVIOUS
  <2> QED
    BY <2>1, <2>2
<1>7. (b => n = row[s].revision + 1) /\ (~b => n = row[s].revision)
  <2>1. row[s].revision \in Nat
    BY SessionFields
  <2>2. (b => revision = row[s].revision + 1) /\ (~b => revision = row[s].revision + 0)
    BY <1>5
  <2> QED
    BY <1>6, <2>1, <2>2
<1> DEFINE r == [known |-> TRUE, armed |-> a, revision |-> n, seen |-> seen]
<1>8. r \in RowType /\ r.known /\ r.armed = a /\ r.revision = n /\ r.seen = seen
  BY <1>2 DEF RowType
<1>9. row' = [row EXCEPT ![s] = r]
  BY <1>3, <1>4, <1>6
<1>10. /\ m \in JobType /\ m.status = "pending" /\ m.manager = native.session.operator
       /\ m.since = EventBound(s) /\ m.previous = None
       /\ ~m.dispatched /\ ~m.acknowledged /\ ~m.generation /\ m.contact = "none"
  BY <1>2, ThreadFields DEF JobType, NoJob
<1>11. r.armed => /\ \/ native.session.status = "new"
                     \/ Eligible(s) /\ native.session.status = "accepted"
                  /\ r.seen = LastSeen(EventBound(s))
  BY <1>4, <1>8
<1>12. CASE ~b
  <2>1. r.revision = row[s].revision /\ job' = job
    BY <1>3, <1>6, <1>7, <1>8, <1>12
  <2> QED
    BY <1>1, <1>8, <1>9, <1>11, <2>1
<1>13. CASE b
  <2>1. r.revision = row[s].revision + 1 /\ n # row[s].revision
    <3>1. row[s].revision \in Nat
      BY SessionFields
    <3> QED
      BY <1>7, <1>8, <1>13, <3>1
  <2>2. job' = [job EXCEPT ![<<s, n>>] = m]
    BY <1>3, <1>6, <2>1
  <2>3. n \in 1..MaxRevisions
    BY <2>1, <1>8, SessionFields
  <2>4. <<s, n>> \in Keys
    BY <2>3 DEF Keys
  <2>5. Eligible(s) /\ native.session.status = "accepted" /\ ~r.armed
    BY <1>4, <1>5, <1>8, <1>13
  <2>6. n = r.revision
    BY <1>8
  <2> HIDE DEF r, m
  <2> QED
    BY <1>1, <1>8, <1>9, <1>10, <1>11, <2>1, <2>2, <2>4, <2>5, <2>6
<1> QED
  BY <1>12, <1>13

\* A step of the thread that looks at a session, takes a job or stops.
LEMMA ThreadTyped ==
  ASSUME TInv, UNCHANGED <<session, deal, inflight, applied, events, history>>,
         row' \in [Sessions -> RowType], job' \in [Keys -> JobType], claim' \in ClaimType,
         Thinks', Assigned'
  PROVE  TInv'
BY Types, Typed DEF history

LEMMA StepsTyped ==
  ASSUME TInv
  PROVE  /\ \A s \in Sessions : Look(s) => TInv'
         /\ Fence \/ Observe \/ Fails \/ Crash \/ Guard => TInv'
         /\ \A k \in Keys : Take(k) \/ Lose(k) => TInv'
<1>0. Thinks /\ Assigned
  BY DEF TInv
<1>1. ASSUME NEW s \in Sessions, Look(s) PROVE TInv'
  <2>1. /\ UNCHANGED <<session, deal, inflight, applied, events, chosen, accepts, overtaken>>
        /\ UNCHANGED <<row, job, claim>> /\ row[s].revision < MaxRevisions
    BY <1>1 DEF Look, bitrix, history
  <2>2. Assigned'
    BY <1>0, <2>1 DEF Assigned
  <2>3. native'.session.status = "accepted" => native'.session.operator \in Managers
    BY <1>0, <1>1, LookEffect DEF Assigned
  <2>4. Thinks'
    BY <1>1, <2>1, <2>3, LookEffect, Places DEF Thinks
  <2> QED
    BY <2>1, <2>2, <2>4, Types, Typed
<1>2. ASSUME Fence PROVE TInv'
  <2>1. /\ UNCHANGED <<session, deal, inflight, applied, events, chosen, accepts, overtaken>>
        /\ UNCHANGED <<row, job, claim>> /\ native.pc = "seen"
    BY <1>2 DEF Fence, bitrix, history
  <2>2. Assigned'
    BY <1>0, <2>1 DEF Assigned
  <2>3. Thinks'
    BY <1>0, <1>2, <2>1, FenceEffect, Places DEF Thinks
  <2> QED
    BY <2>1, <2>2, <2>3, Types, Typed
<1>3. ASSUME UNCHANGED <<bitrix, row, job, history>>, Rest, events' \in 0..MaxEvents,
             claim' = claim \/ claim' = [claim EXCEPT !.pc = "idle"]
      PROVE  TInv'
  <2>1. /\ UNCHANGED <<session, deal, inflight, applied, chosen, accepts, overtaken>>
        /\ UNCHANGED <<row, job>> /\ native' = Idle
    BY <1>3 DEF Rest, bitrix, history
  <2>2. claim' \in ClaimType /\ (claim'.pc # "idle" => claim'.manager \in Managers)
    BY <1>0, <1>3, DealFields DEF ClaimType, Assigned
  <2>3. Assigned'
    BY <1>0, <2>1, <2>2 DEF Assigned
  <2>4. Thinks'
    BY <2>1, IdleFields, Places DEF Thinks
  <2> QED
    BY <1>3, <2>1, <2>2, <2>3, <2>4, Types, Typed
<1>4. ASSUME Observe PROVE TInv'
  <2>1. /\ UNCHANGED <<session, deal, inflight, applied, events, chosen, accepts, overtaken>>
        /\ UNCHANGED claim
    BY <1>4 DEF Observe, bitrix, history
  <2> PICK s \in Sessions : s = native.of
    BY <1>4, ObserveEffect
  <2>2. PICK r \in RowType :
          /\ row' = [row EXCEPT ![s] = r]
          /\ \/ r.revision = row[s].revision /\ job' = job
             \/ /\ native.session.status = "accepted" /\ r.revision = row[s].revision + 1
                /\ <<s, r.revision>> \in Keys
                /\ \E m \in JobType :
                     /\ job' = [job EXCEPT ![<<s, r.revision>>] = m]
                     /\ m.status = "pending" /\ m.manager = native.session.operator
    BY <1>4, ObserveEffect
  <2>3. row' \in [Sessions -> RowType] /\ row'[s] = r /\ \A t \in Sessions \ {s} : row'[t] = row[t]
    BY <2>2, Types
  <2>4. row[s].revision \in Nat /\ r.revision \in Nat /\ r.revision >= row[s].revision
    <3>1. row[s].revision \in Nat
      BY SessionFields
    <3> QED
      BY <2>2, <3>1
  <2>5. native'.pc = "idle" /\ native' = Idle
    BY <1>4, ObserveEffect, IdleFields
  <2>6. \A k \in Keys : row[k[1]].revision <= row'[k[1]].revision
    <3> SUFFICES ASSUME NEW k \in Keys PROVE row[k[1]].revision <= row'[k[1]].revision
      OBVIOUS
    <3>1. k[1] \in Sessions /\ row[k[1]].revision \in Nat
      BY JobFields, SessionFields
    <3> QED
      BY <2>3, <2>4, <3>1
  <2>7. job' \in [Keys -> JobType] /\ Assigned'
    <3>1. CASE job' = job
      <4>1. job \in [Keys -> JobType]
        BY Types
      <4>2. \A k \in Keys : job[k].status # "none" => k[2] <= row'[k[1]].revision
        <5> TAKE k \in Keys
        <5>1. k[1] \in Sessions /\ row[k[1]].revision \in Nat /\ row'[k[1]].revision \in Nat /\ k[2] \in Nat
          BY <2>3, JobFields, SessionFields DEF RowType
        <5> QED
          BY <1>0, <2>6, <5>1 DEF Assigned
      <4> QED
        BY <1>0, <2>1, <3>1, <4>1, <4>2 DEF Assigned
    <3>2. CASE job' # job
      <4>1. native.session.status = "accepted" /\ r.revision = row[s].revision + 1 /\ <<s, r.revision>> \in Keys
        BY <2>2, <3>2
      <4> PICK k \in Keys : k = <<s, r.revision>>
        BY <4>1
      <4>2. PICK m \in JobType : /\ job' = [job EXCEPT ![k] = m]
                                 /\ m.status = "pending" /\ m.manager = native.session.operator
        BY <2>2, <3>2
      <4>3. job' \in [Keys -> JobType] /\ job'[k] = m /\ \A j \in Keys \ {k} : job'[j] = job[j]
        BY <4>2, Types
      <4>4. m.manager \in Managers
        BY <1>0, <1>4, <4>1, <4>2, ObserveEffect DEF Thinks
      <4>5. k[1] = s /\ k[2] = r.revision /\ k[2] <= row'[k[1]].revision
        BY <2>3, <2>4
      <4>6. \A j \in Keys : job'[j].status # "none" => j[2] <= row'[j[1]].revision
        <5> TAKE j \in Keys
        <5>1. j[1] \in Sessions /\ row[j[1]].revision \in Nat /\ row'[j[1]].revision \in Nat /\ j[2] \in Nat
          BY <2>3, JobFields, SessionFields DEF RowType
        <5> QED
          BY <1>0, <2>6, <4>3, <4>5, <5>1 DEF Assigned
      <4>7. \A j \in inflight : job'[j].status # "none"
        BY <1>0, <4>2, <4>3, Types DEF Assigned
      <4>8. \A j \in Keys : /\ job'[j].status = "none" => ~job'[j].dispatched
                            /\ job'[j].status # "none" => job'[j].manager \in Managers
        BY <1>0, <4>2, <4>3, <4>4 DEF Assigned
      <4> QED
        BY <1>0, <2>1, <4>3, <4>6, <4>7, <4>8 DEF Assigned
    <3> QED
      BY <3>1, <3>2
  <2>8. Thinks'
    BY <2>5, IdleFields, Places DEF Thinks
  <2> QED
    BY <2>1, <2>3, <2>7, <2>8, Types, Typed
<1>5. ASSUME Fails PROVE TInv'
  BY <1>3, <1>5, EventTyped DEF Fails
<1>6. ASSUME Crash PROVE TInv'
  BY <1>3, <1>6, EventTyped DEF Crash
<1>7. ASSUME Guard PROVE TInv'
  <2>1. /\ UNCHANGED <<session, deal, inflight, applied, events, chosen, accepts, overtaken>>
        /\ UNCHANGED <<row, job, native>>
    BY <1>7 DEF Guard, history
  <2>2. claim' \in ClaimType /\ claim'.manager = claim.manager /\ claim.pc = "guard"
    BY <1>7, DealFields DEF Guard, ClaimType
  <2>3. Assigned'
    BY <1>0, <2>1, <2>2 DEF Assigned
  <2>4. Thinks'
    BY <1>0, <2>1, <2>2 DEF Thinks
  <2> QED
    BY <2>1, <2>2, <2>3, <2>4, Types, Typed
<1>8. ASSUME NEW k \in Keys, Take(k) PROVE TInv'
  <2>1. /\ UNCHANGED <<session, deal, inflight, applied, events, chosen, accepts, overtaken>>
        /\ UNCHANGED <<row, job, claim>>
    BY <1>8 DEF Take, Quiet, bitrix, history
  <2>2. Assigned'
    BY <1>0, <2>1 DEF Assigned
  <2>3. Thinks'
    <3>1. /\ native' \in NativeType /\ native'.key = k /\ native'.pc \in {"read", "session"}
          /\ job[k].status = "pending" /\ claim.pc = "idle"
      BY <1>8, TakeEffect
    <3> QED
      BY <2>1, <3>1 DEF Thinks
  <2> QED
    BY <2>1, <2>2, <2>3, Types, Typed
<1>9. ASSUME NEW k \in Keys, Lose(k) PROVE TInv'
  <2>1. /\ UNCHANGED <<session, deal, applied, events, chosen, accepts, overtaken>>
        /\ UNCHANGED <<row, job, claim, native>> /\ inflight' = inflight \ {k}
    BY <1>9 DEF Lose, history
  <2>2. Assigned'
    BY <1>0, <2>1 DEF Assigned
  <2>3. Thinks'
    BY <1>0, <2>1 DEF Thinks
  <2> QED
    BY <2>1, <2>2, <2>3, Types, Typed
<1> QED
  BY <1>1, <1>2, <1>4, <1>5, <1>6, <1>7, <1>8, <1>9

LEMMA InitTyped == Init => TInv
<1> SUFFICES ASSUME Init PROVE TInv
  OBVIOUS
<1>1. /\ MaxSessions \in Nat /\ MaxRevisions \in Nat /\ MaxAccepts \in Nat /\ MaxEvents \in Nat
  BY NativeAssumption
<1>2. session \in [Sessions -> SessionType] /\ Assigned
  <2>1. PICK old \in {NoSession, [NoSession EXCEPT !.status = "new", !.bound = TRUE, !.historic = TRUE]}
           \cup {[NoSession EXCEPT !.status = "accepted", !.operator = m, !.bound = TRUE,
                                   !.historic = TRUE] : m \in Managers} :
          session = [s \in Sessions |-> IF s = 1 THEN old ELSE NoSession]
    BY DEF Init
  <2>2. old \in SessionType /\ (old.status = "accepted" => old.operator \in Managers)
    <3>1. CASE old = NoSession
      BY <3>1, IdleFields
    <3>2. CASE old = [NoSession EXCEPT !.status = "new", !.bound = TRUE, !.historic = TRUE]
      BY <3>2 DEF NoSession, SessionType
    <3>3. ASSUME NEW m \in Managers,
                 old = [NoSession EXCEPT !.status = "accepted", !.operator = m, !.bound = TRUE,
                                         !.historic = TRUE]
          PROVE  old \in SessionType /\ (old.status = "accepted" => old.operator \in Managers)
      BY <3>3 DEF NoSession, SessionType
    <3> QED
      BY <2>1, <3>1, <3>2, <3>3
  <2>3. session \in [Sessions -> SessionType]
    BY <2>1, <2>2, IdleFields
  <2>4. \A s \in Sessions : session[s].status = "accepted" => session[s].operator \in Managers
    BY <2>1, <2>2, IdleFields
  <2>5. job = [k \in Keys |-> NoJob] /\ inflight = {} /\ claim.pc = "idle"
    BY DEF Init, NoClaim
  <2>6. NoJob.status = "none" /\ ~NoJob.dispatched
    BY DEF NoJob
  <2> QED
    BY <2>3, <2>4, <2>5, <2>6 DEF Assigned
<1>3. deal \in DealType
  <2>1. deal \in [owner : Others, edition : {0}, binding : {0}, contact : {TRUE}, open : {TRUE}]
    BY DEF Init
  <2>2. [owner : Others, edition : {0}, binding : {0}, contact : {TRUE}, open : {TRUE}] \subseteq DealType
    <3>1. {0} \subseteq Nat /\ {TRUE} \subseteq BOOLEAN /\ Others \subseteq Owners
      BY DEF Owners
    <3> QED
      BY <3>1 DEF DealType
  <2> QED
    BY <2>1, <2>2
<1>4. row \in [Sessions -> RowType]
  <2>1. NoRow \in RowType
    BY <1>1 DEF NoRow, RowType
  <2> QED
    BY <2>1 DEF Init
<1>5. job \in [Keys -> JobType]
  BY DEF Init, NoJob, JobType
<1>6. claim \in ClaimType /\ claim.pc = "idle"
  BY DEF Init, NoClaim, ClaimType
<1>7. Thinks
  BY IdleFields, Places DEF Init, Thinks
<1>8. native \in NativeType /\ native.pc \in PCs /\ native.round \in 0..3 /\ native.pc = "idle"
  BY IdleFields DEF Init, NativeType
<1>9. /\ inflight = {} /\ applied = {} /\ chosen = FALSE /\ events = 0
      /\ accepts = [s \in Sessions |-> 0] /\ overtaken = [s \in Sessions |-> "no"]
  BY DEF Init
<1>10. TypeOK
  <2>1. native.pc \notin {"idle", "seen", "fenced"} => native.key \in Keys
    BY <1>8
  <2>2. /\ inflight \subseteq Keys /\ applied \subseteq Keys /\ chosen \in BOOLEAN /\ events \in 0..MaxEvents
        /\ accepts \in [Sessions -> 0..MaxAccepts] /\ overtaken \in [Sessions -> {"no", "yes", "unseen"}]
    <3>1. 0 \in 0..MaxAccepts /\ 0 \in 0..MaxEvents
      BY <1>1
    <3>2. chosen \in BOOLEAN
      BY <1>9
    <3> QED
      BY <1>9, <3>1, <3>2
  <2>3. session \in [Sessions -> SessionType]
    BY <1>2
  <2> QED
    BY <1>3, <1>4, <1>5, <1>6, <1>8, <2>1, <2>2, <2>3
       DEF TypeOK, SessionType, RowType, JobType, DealType, ClaimType
<1> QED
  BY <1>2, <1>7, <1>10 DEF TInv

LEMMA NextTyped ==
  ASSUME TInv, [Next]_vars
  PROVE  TInv'
<1>1. CASE UNCHANGED vars
  BY <1>1 DEF vars, TInv, TypeOK, Thinks, Assigned
<1>2. CASE \E s \in Sessions : Open(s) \/ Move(s) \/ Look(s) \/ \E m \in Managers : Accept(s, m)
  BY <1>2, SessionsTyped, StepsTyped
<1>3. CASE EditDeal \/ (\E k \in Keys : Apply(k) \/ Lose(k)) \/ (\E m \in Managers : Begin(m))
           \/ ClaimSteps \/ Sweep
  BY <1>3, BitrixTyped, StepsTyped DEF ClaimSteps
<1>4. CASE Thread \/ Fails \/ Crash
  BY <1>4, ProcessTyped, StepsTyped DEF Thread, Process
<1> QED
  BY <1>1, <1>2, <1>3, <1>4 DEF Next

LEMMA TypedInvariance == Spec => []TInv
BY InitTyped, NextTyped, PTL DEF Spec

\* Sessions, deal, jobs, claims and the thread keep their types, whatever
\* clients, employees, claims and crashes do.
THEOREM NativeTypeCorrect == Spec => []TypeOK
<1>1. TInv => TypeOK
  BY DEF TInv
<1> QED
  BY <1>1, TypedInvariance, PTL
-----------------------------------------------------------------------------
(* JobsJustified.                                                          *)

\* Steps that accept no session and record no look at one.
LEMMA JustifiedFrame ==
  ASSUME TInv, JInv,
         \A s \in Sessions : /\ session'[s].status = "accepted" => session[s].status = "accepted"
                             /\ session'[s].historic = session[s].historic
                             /\ row'[s].known = row[s].known /\ row'[s].armed = row[s].armed
                             /\ row'[s].revision = row[s].revision /\ accepts'[s] = accepts[s],
         native'.pc \in {"seen", "fenced"} =>
           /\ native.pc \in {"seen", "fenced"} /\ native'.of = native.of
           /\ native'.session.status = native.session.status
           /\ native'.session.historic = native.session.historic
  PROVE  JInv'
<1>1. JobsJustified'
  BY DEF JInv, JobsJustified
<1>2. \A s \in Sessions :
        /\ ~row'[s].known => row'[s].revision = 0 /\ ~row'[s].armed
        /\ session'[s].status = "accepted" /\ ~session'[s].historic => accepts'[s] >= 1
        /\ session'[s].status = "accepted" /\ row'[s].armed => row'[s].revision < accepts'[s]
  BY DEF JInv, Fresh
<1>3. ASSUME native'.pc \in {"seen", "fenced"}
      PROVE  /\ native'.session.status = "accepted"
                /\ (row'[native'.of].armed \/ (~row'[native'.of].known /\ ~native'.session.historic)) =>
                  row'[native'.of].revision < accepts'[native'.of]
             /\ native'.session.status = "new" /\ session'[native'.of].status = "accepted" =>
                  row'[native'.of].revision < accepts'[native'.of]
  <2>1. native.of \in Sessions
    BY <1>3 DEF TInv, Thinks
  <2> QED
    BY <1>3, <2>1 DEF JInv, Eligible, Fresh
<1> QED
  BY <1>1, <1>2, <1>3 DEF JInv, Eligible, Fresh

LEMMA JustifiedAged ==
  ASSUME TInv, JInv, NEW what \in SUBSET Events, NEW claims \in BOOLEAN, Happens(what, claims),
         accepts' = accepts
  PROVE  JInv'
<1>1. \A s \in Sessions : /\ session'[s].status = session[s].status
                          /\ session'[s].historic = session[s].historic
  BY Aging DEF SameSession
<1>2. \A s \in Sessions : /\ row'[s].known = row[s].known /\ row'[s].armed = row[s].armed
                          /\ row'[s].revision = row[s].revision
  BY AgingRows
<1>3. /\ native'.pc = native.pc /\ native'.of = native.of
      /\ native'.session.status = native.session.status
      /\ native'.session.historic = native.session.historic
  BY AgingThread DEF SameThread
<1> QED
  BY <1>1, <1>2, <1>3, JustifiedFrame

\* Which steps are told to the stored times, and which leave all of them alone.
LEMMA Surroundings ==
  ASSUME TInv, \/ EditDeal \/ (\E k \in Keys : Apply(k)) \/ Write \/ (\E m \in Managers : Begin(m))
               \/ EndClaim \/ Sweep
  PROVE  /\ accepts' = accepts
         /\ \E what \in SUBSET Events, claims \in BOOLEAN : Happens(what, claims)
<1>0. {"edit"} \in SUBSET Events /\ {} \in SUBSET Events /\ {"claim"} \in SUBSET Events
  BY DEF Events
<1>1. CASE EditDeal
  <2> PICK to \in DealType : Edit(to)
    BY <1>1, EditEffect
  <2> QED
    BY <1>0 DEF Edit
<1>2. CASE \E k \in Keys : Apply(k)
  BY <1>0, <1>2 DEF Apply, history
<1>3. CASE Write
  BY <1>0, <1>3 DEF Write
<1>4. CASE \E m \in Managers : Begin(m)
  BY <1>0, <1>4 DEF Begin, history
<1>5. CASE EndClaim \/ Sweep
  <2>1. \E b \in BOOLEAN : Record(b)
    BY <1>5, RecordingEffect
  <2> PICK b \in BOOLEAN : Record(b)
    BY <2>1
  <2>2. accepts' = accepts /\ Happens(IF b THEN {"claim"} ELSE {}, TRUE)
    BY DEF Record, history
  <2> QED
    BY <1>0, <2>2
<1> QED
  BY <1>1, <1>2, <1>3, <1>4, <1>5

\* A step of a job, or one that ends the work of the thread.
LEMMA ProcessQuiet ==
  ASSUME TInv, \/ ReadSession \/ ReadDeal \/ Reserve \/ Store \/ Dispatch \/ Send \/ Answer
               \/ Acknowledge \/ Reject \/ ReadBack \/ Confirm \/ Release \/ Finish
  PROVE  /\ UNCHANGED <<session, deal, row, claim, events, accepts, overtaken, chosen, applied>>
         /\ native.pc \in AtJob
         /\ \E m \in JobType, w \in NativeType : Works(m, w)
         /\ native'.pc \notin {"seen", "fenced"}
<1>1. /\ native.pc \in AtJob
      /\ UNCHANGED <<session, deal, row, claim, events, accepts, overtaken, chosen, applied>>
  BY Places DEF ReadSession, ReadDeal, Reserve, Store, Dispatch, Send, Answer, Acknowledge, Reject,
     ReadBack, Confirm, Release, Finish, End, Working, Quiet, bitrix, history
<1>2. Mine \in JobType /\ Idle \in NativeType
  BY <1>1, MineFields, IdleFields
<1>3. CASE ReadSession \/ ReadDeal \/ Send \/ Answer \/ ReadBack
  <2>1. \E w \in NativeType : Works(Mine, w)
    BY <1>3, ReadSessionWorks, ReadDealWorks, SendWorks, AnswerWorks, ReadBackWorks
  <2> QED
    BY <1>1, <1>2, <2>1, IdleFields, Places DEF Works
<1>4. CASE Reserve \/ Store \/ Dispatch \/ Acknowledge \/ Reject \/ Confirm \/ Release
  <2>1. \E m \in JobType, w \in NativeType : Works(m, w)
    BY <1>4, ReserveWorks, StoreWorks, DispatchWorks, AcknowledgeWorks, RejectWorks, ConfirmWorks, ReleaseWorks
  <2> QED
    BY <1>1, <2>1, IdleFields, Places DEF Works
<1>5. CASE Finish
  BY <1>1, <1>2, <1>5, FinishWorks, IdleFields DEF Works
<1> QED
  BY <1>3, <1>4, <1>5

LEMMA JustifiedSessions ==
  ASSUME TInv, JInv, NEW s \in Sessions
  PROVE  /\ Open(s) \/ Move(s) => JInv'
         /\ \A m \in Managers : Accept(s, m) => JInv'
<1>1. ASSUME NEW to \in SessionType, Becomes(s, to),
             \/ to.status = "new" /\ session[s].status = "none"
             \/ /\ to.historic = session[s].historic
                /\ to.status = "accepted" => session[s].status = "accepted"
      PROVE  JInv'
  <2>1. /\ UNCHANGED <<row, native, accepts>> /\ session' = [session EXCEPT ![s] = to]
    BY <1>1 DEF Becomes, history
  <2>2. session'[s] = to /\ \A t \in Sessions \ {s} : session'[t] = session[t]
    BY <2>1, Types
  <2>3. JobsJustified'
    BY <2>1 DEF JInv, JobsJustified
  <2>4. \A t \in Sessions : session'[t].status = "accepted" =>
          session[t].status = "accepted" /\ session'[t].historic = session[t].historic
    BY <1>1, <2>2
  <2>5. \A t \in Sessions :
        /\ ~row[t].known => row[t].revision = 0 /\ ~row[t].armed
        /\ session'[t].status = "accepted" /\ ~session'[t].historic => accepts[t] >= 1
        /\ session'[t].status = "accepted" /\ row[t].armed => Fresh(t)
    BY <2>4 DEF JInv
  <2>6. native.pc \in {"seen", "fenced"} => native.of \in Sessions
    BY DEF TInv, Thinks
  <2>7. native.pc \in {"seen", "fenced"} =>
          /\ native.session.status = "accepted" /\ Eligible(native.of) => Fresh(native.of)
          /\ native.session.status = "new" /\ session'[native.of].status = "accepted" => Fresh(native.of)
    BY <2>4, <2>6 DEF JInv
  <2> QED
    BY <2>1, <2>3, <2>5, <2>7 DEF JInv, Fresh, Eligible
<1>2. ASSUME Open(s) PROVE JInv'
  BY <1>1, <1>2, OpenTo
<1>3. ASSUME Move(s) PROVE JInv'
  BY <1>1, <1>3, MoveTo
<1>4. ASSUME NEW m \in Managers, Accept(s, m) PROVE JInv'
  <2>1. /\ UNCHANGED <<row, native>> /\ accepts'[s] = accepts[s] + 1
        /\ \A t \in Sessions \ {s} : accepts'[t] = accepts[t]
    BY <1>4, AcceptTo
  <2>2. \A t \in Sessions \ {s} : session'[t] = session[t]
    BY <1>4, Types DEF Accept
  <2>3. \A t \in Sessions : accepts[t] \in Nat /\ row[t].revision \in Nat
    BY SessionFields
  <2>4. row[s].revision < accepts'[s] /\ accepts'[s] >= 1
    BY <2>1, <2>3 DEF JInv, JobsJustified
  <2>5. JobsJustified'
    BY <2>1, <2>3, <2>4 DEF JInv, JobsJustified
  <2>6. \A t \in Sessions :
        /\ ~row[t].known => row[t].revision = 0 /\ ~row[t].armed
        /\ session'[t].status = "accepted" /\ ~session'[t].historic => accepts'[t] >= 1
        /\ session'[t].status = "accepted" /\ row[t].armed => row[t].revision < accepts'[t]
    BY <2>1, <2>2, <2>4 DEF JInv, Fresh
  <2>7. native.pc \in {"seen", "fenced"} => native.of \in Sessions
    BY DEF TInv, Thinks
  <2>8. native.pc \in {"seen", "fenced"} =>
          /\ native.session.status = "accepted" /\ Eligible(native.of) =>
               row[native.of].revision < accepts'[native.of]
          /\ native.session.status = "new" /\ session'[native.of].status = "accepted" =>
               row[native.of].revision < accepts'[native.of]
    BY <2>1, <2>2, <2>4, <2>7 DEF JInv, Fresh
  <2> QED
    BY <2>1, <2>5, <2>6, <2>8 DEF JInv, Fresh, Eligible
<1> QED
  BY <1>2, <1>3, <1>4

LEMMA JustifiedObserve ==
  ASSUME TInv, JInv, Observe
  PROVE  JInv'
<1>1. UNCHANGED <<session, accepts>> /\ native'.pc = "idle"
  BY ObserveEffect, IdleFields DEF Observe, bitrix, history
<1> PICK s \in Sessions : s = native.of
  BY ObserveEffect
<1>2. PICK r \in RowType :
        /\ row' = [row EXCEPT ![s] = r] /\ r.known
        /\ r.armed => \/ native.session.status = "new"
                      \/ Eligible(s) /\ native.session.status = "accepted"
        /\ \/ r.revision = row[s].revision
           \/ /\ Eligible(s) /\ native.session.status = "accepted" /\ ~r.armed
              /\ r.revision = row[s].revision + 1
  BY ObserveEffect
<1>3. row'[s] = r /\ \A t \in Sessions \ {s} : row'[t] = row[t]
  BY <1>2, Types
<1>4. native.pc = "fenced" /\ row[s].revision \in Nat /\ accepts[s] \in Nat
  BY ObserveEffect, SessionFields
<1>5. /\ native.session.status = "accepted" /\ Eligible(s) => Fresh(s)
      /\ native.session.status = "new" /\ session[s].status = "accepted" => Fresh(s)
  BY <1>4 DEF JInv
<1>6. r.revision <= accepts[s]
  BY <1>2, <1>4, <1>5 DEF JInv, JobsJustified, Fresh
<1>7. session[s].status = "accepted" /\ r.armed => r.revision < accepts[s]
  BY <1>2, <1>5 DEF Fresh
<1>8. JobsJustified'
  BY <1>1, <1>3, <1>6 DEF JInv, JobsJustified
<1>9. \A t \in Sessions :
        /\ ~row'[t].known => row'[t].revision = 0 /\ ~row'[t].armed
        /\ session[t].status = "accepted" /\ ~session[t].historic => accepts[t] >= 1
        /\ session[t].status = "accepted" /\ row'[t].armed => row'[t].revision < accepts[t]
  BY <1>2, <1>3, <1>7 DEF JInv, Fresh
<1> QED
  BY <1>1, <1>8, <1>9 DEF JInv, Fresh

LEMMA JustifiedStep ==
  ASSUME TInv, JInv, [Next]_vars
  PROVE  JInv'
<1>1. CASE UNCHANGED vars
  BY <1>1 DEF vars, JInv, JobsJustified, Fresh, Eligible
<1>2. CASE \E s \in Sessions : Open(s) \/ Move(s) \/ \E m \in Managers : Accept(s, m)
  BY <1>2, JustifiedSessions
<1>3. CASE \/ EditDeal \/ (\E k \in Keys : Apply(k)) \/ Write \/ (\E m \in Managers : Begin(m))
           \/ EndClaim \/ Sweep
  BY <1>3, Surroundings, JustifiedAged
<1>4. ASSUME NEW s \in Sessions, Look(s) PROVE JInv'
  <2>1. /\ UNCHANGED <<session, row, accepts>> /\ row[s].revision < MaxRevisions
    BY <1>4 DEF Look, bitrix, history
  <2>2. native'.pc = "seen" /\ native'.of = s /\ native'.session = session[s]
    BY <1>4, LookEffect
  <2>3. session[s].status = "accepted" /\ (row[s].armed \/ (~row[s].known /\ ~session[s].historic)) => Fresh(s)
    <3>1. row[s].revision \in Nat /\ accepts[s] \in Nat
      BY SessionFields
    <3> QED
      BY <3>1 DEF JInv, Fresh
  <2>4. JobsJustified'
    BY <2>1 DEF JInv, JobsJustified
  <2> QED
    BY <2>1, <2>2, <2>3, <2>4 DEF JInv, Fresh, Eligible
<1>5. CASE Observe
  BY <1>5, JustifiedObserve
<1>6. ASSUME UNCHANGED <<session, row, accepts>>,
             native'.pc \in {"seen", "fenced"} =>
               /\ native.pc \in {"seen", "fenced"} /\ native'.of = native.of
               /\ native'.session = native.session
      PROVE  JInv'
  BY <1>6, JustifiedFrame
<1>7. CASE Fence
  BY <1>6, <1>7, FenceEffect DEF Fence, bitrix, history
<1>8. CASE Guard \/ \E k \in Keys : Lose(k)
  BY <1>6, <1>8 DEF Guard, Lose, history
<1>9. CASE \E k \in Keys : Take(k)
  BY <1>6, <1>9, TakeEffect DEF Take, Quiet, bitrix, history
<1>10. CASE Fails \/ Crash
  BY <1>6, <1>10, IdleFields DEF Fails, Crash, Rest, bitrix, history
<1>11. CASE \/ ReadSession \/ ReadDeal \/ Reserve \/ Store \/ Dispatch \/ Send \/ Answer
            \/ Acknowledge \/ Reject \/ ReadBack \/ Confirm \/ Release \/ Finish
  BY <1>6, <1>11, ProcessQuiet
<1> QED
  BY <1>1, <1>2, <1>3, <1>4, <1>5, <1>7, <1>8, <1>9, <1>10, <1>11 DEF Next, Thread, Process, ClaimSteps

LEMMA InitJustified == Init => JInv
<1> SUFFICES ASSUME Init PROVE JInv
  OBVIOUS
<1>1. /\ row = [s \in Sessions |-> NoRow] /\ accepts = [s \in Sessions |-> 0] /\ native.pc = "idle"
      /\ NoRow.revision = 0 /\ ~NoRow.armed
  BY IdleFields DEF Init, NoRow
<1>2. \A s \in Sessions : session[s].status = "accepted" => session[s].historic
  <2>1. PICK old \in {NoSession, [NoSession EXCEPT !.status = "new", !.bound = TRUE, !.historic = TRUE]}
           \cup {[NoSession EXCEPT !.status = "accepted", !.operator = m, !.bound = TRUE,
                                   !.historic = TRUE] : m \in Managers} :
          session = [s \in Sessions |-> IF s = 1 THEN old ELSE NoSession]
    BY DEF Init
  <2>2. old.status = "accepted" => old.historic
    <3>1. CASE old = NoSession
      BY <3>1, IdleFields
    <3>2. CASE old = [NoSession EXCEPT !.status = "new", !.bound = TRUE, !.historic = TRUE]
      BY <3>2 DEF NoSession
    <3>3. ASSUME NEW m \in Managers,
                 old = [NoSession EXCEPT !.status = "accepted", !.operator = m, !.bound = TRUE,
                                         !.historic = TRUE]
          PROVE  old.historic
      BY <3>3 DEF NoSession
    <3> QED
      BY <2>1, <3>1, <3>2, <3>3
  <2>3. \A s \in Sessions : session[s] = old \/ session[s] = NoSession
    BY <2>1
  <2> QED
    BY <2>2, <2>3, IdleFields
<1>3. \A s \in Sessions : row[s].revision <= accepts[s] /\ row[s].revision = 0 /\ ~row[s].armed
  BY <1>1
<1> QED
  BY <1>1, <1>2, <1>3 DEF JInv, JobsJustified

LEMMA JustifiedInvariance == Spec => []JInv
BY InitJustified, JustifiedStep, TypedInvariance, PTL DEF Spec

\* A dialog gets a job only for an acceptance after the activation, and at most
\* one for each, although the thread sees it late, twice, or under other states.
THEOREM JobsAreJustified == Spec => []JobsJustified
<1>1. JInv => JobsJustified
  BY DEF JInv
<1> QED
  BY <1>1, JustifiedInvariance, PTL
-----------------------------------------------------------------------------
(* NotOverwritten: what overtook an acceptance is remembered.              *)

\* Where a step of a job gets from the first proof to the boundary.
LEMMA AfterFirstFields ==
  ASSUME TInv, OInv, AfterFirst
  PROVE  /\ native.pc \in AtJob /\ native.read \in Identities /\ native.read.edition <= deal.edition
         /\ native.read.edition \in Nat
         /\ native.read.edition = deal.edition => "edit" \notin Mine.since
BY Places DEF OInv, AfterFirst, Identities, Mine

\* A time that is stored forgets nothing.
LEMMA RememberedAged ==
  ASSUME TInv, NEW s \in Sessions, Remembered(s),
         NEW what \in SUBSET Events, NEW claims \in BOOLEAN, Happens(what, claims)
  PROVE  Remembered(s)'
<1>1. \A t \in Sessions : session'[t].status = session[t].status /\ session[t].answered \subseteq session'[t].answered
  BY Aging DEF SameSession
<1>2. \A t \in Sessions : row'[t].armed = row[t].armed /\ row[t].seen \subseteq row'[t].seen
  BY AgingRows
<1>3. \A k \in Keys : job'[k].status = job[k].status /\ job[k].since \subseteq job'[k].since
  BY AgingJobs DEF SameJob
<1>4. /\ native'.pc = native.pc /\ native'.of = native.of
      /\ native'.session.status = native.session.status
      /\ native.session.answered \subseteq native'.session.answered /\ native.since \subseteq native'.since
  BY AgingThread DEF SameThread
<1> QED
  BY <1>1, <1>2, <1>3, <1>4 DEF Remembered, Observes

\* What sets the owner now is told to every time that is stored.
LEMMA RememberedNow ==
  ASSUME TInv, NEW s \in Sessions, session[s].status = "accepted", Overtake[s] = "yes",
         NEW claims \in BOOLEAN, Happens({"edit"}, claims)
  PROVE  Remembered(s)'
<1>0. {"edit"} \in SUBSET Events
  BY DEF Events
<1>1. session'[s].status = "accepted" /\ "edit" \in session'[s].answered
  BY <1>0, Aging DEF SameSession
<1>2. row'[s].armed => "edit" \in row'[s].seen
  BY <1>0, AgingRows
<1>3. \A k \in Keys : job'[k].status = "pending" => "edit" \in job'[k].since
  <2> TAKE k \in Keys
  <2>1. job'[k].status = job[k].status /\ (job[k].status = "pending" => job'[k].since = job[k].since \cup {"edit"})
    BY <1>0, AgingJobs DEF SameJob
  <2> QED
    BY <2>1
<1>4. /\ native'.pc = native.pc /\ native'.of = native.of
      /\ native'.session.status = native.session.status
      /\ native.pc \in {"seen", "fenced"} => "edit" \in native'.session.answered
      /\ native.pc = "fenced" => "edit" \in native'.since
  BY <1>0, AgingThread DEF SameThread
<1>5. ~(native.pc = "seen" /\ native.of = s /\ native.session.status = "new")
  BY DEF Overtake
<1> QED
  BY <1>1, <1>2, <1>3, <1>4, <1>5 DEF Remembered, Observes

\* The readings of a job when the deal and its times move on.
LEMMA ReadingsAged ==
  ASSUME TInv, OInv, NEW what \in SUBSET Events, NEW claims \in BOOLEAN, Happens(what, claims),
         deal'.edition = deal.edition + 1 \/ (deal' = deal /\ "edit" \notin what)
  PROVE  Rounds' /\ (AfterFirst' => /\ native'.read \in Identities /\ native'.read.edition <= deal'.edition
                                    /\ native'.read.edition = deal'.edition =>
                                         "edit" \notin job'[native'.key].since)
<1>1. native'.pc = native.pc /\ native'.round = native.round /\ native'.read = native.read /\ native'.key = native.key
  BY AgingThread DEF SameThread
<1>2. Rounds' /\ (AfterFirst' => AfterFirst)
  BY <1>1 DEF OInv, Rounds, AfterFirst
<1>3. ASSUME AfterFirst
      PROVE  /\ native.read \in Identities /\ native.read.edition <= deal'.edition
             /\ native.read.edition = deal'.edition => "edit" \notin job'[native.key].since
  <2>1. /\ native.pc \in AtJob /\ native.read \in Identities /\ native.read.edition <= deal.edition
        /\ native.read.edition \in Nat /\ deal.edition \in Nat
        /\ native.read.edition = deal.edition => "edit" \notin Mine.since
    BY <1>3, AfterFirstFields, DealFields
  <2>2. job'[native.key].since = Mine.since \cup what
    BY <2>1, MineFields, AgingJobs
  <2> QED
    BY <2>1, <2>2
<1> QED
  BY <1>1, <1>2, <1>3

LEMMA EditRemembered ==
  ASSUME TInv, OInv, EditDeal
  PROVE  OInv'
<1>0. {"edit"} \in SUBSET Events
  BY DEF Events
<1> PICK to \in DealType : Edit(to) /\ deal'.edition = deal.edition + 1
  BY EditEffect
<1>1. /\ Happens({"edit"}, FALSE)
      /\ overtaken' = IF to.owner # deal.owner /\ native.pc \notin {"dispatch", "send"} THEN Overtake ELSE overtaken
  BY DEF Edit
<1>2. Rounds' /\ (AfterFirst' => /\ native'.read \in Identities /\ native'.read.edition <= deal'.edition
                                 /\ native'.read.edition = deal'.edition =>
                                      "edit" \notin job'[native'.key].since)
  BY <1>0, <1>1, ReadingsAged
<1>3. \A s \in Sessions : overtaken'[s] = "yes" => Remembered(s)'
  <2> SUFFICES ASSUME NEW s \in Sessions, overtaken'[s] = "yes" PROVE Remembered(s)'
    OBVIOUS
  <2>1. CASE overtaken[s] = "yes"
    BY <1>0, <1>1, <2>1, RememberedAged DEF OInv
  <2>2. CASE overtaken[s] # "yes"
    <3>1. Overtake[s] = "yes" /\ session[s].status = "accepted"
      BY <1>1, <2>2, OvertakeType
    <3> QED
      BY <1>1, <3>1, RememberedNow
  <2> QED
    BY <2>1, <2>2
<1>4. native'.pc \in {"dispatch", "send"} => overtaken'[native'.key[1]] # "yes"
  <2>1. native'.pc = native.pc /\ native'.key = native.key
    BY <1>0, <1>1, AgingThread DEF SameThread
  <2> QED
    BY <1>1, <2>1 DEF OInv
<1> QED
  BY <1>2, <1>3, <1>4 DEF OInv

LEMMA WriteRemembered ==
  ASSUME TInv, OInv, Write
  PROVE  OInv'
<1>0. {"edit"} \in SUBSET Events
  BY DEF Events
<1>1. Happens({"edit"}, FALSE) /\ overtaken' = Overtake /\ deal'.edition = deal.edition + 1
      /\ native.pc \notin AtJob
  BY WriteEffect DEF Write
<1>2. Rounds' /\ (AfterFirst' => /\ native'.read \in Identities /\ native'.read.edition <= deal'.edition
                                 /\ native'.read.edition = deal'.edition =>
                                      "edit" \notin job'[native'.key].since)
  BY <1>0, <1>1, ReadingsAged
<1>3. \A s \in Sessions : overtaken'[s] = "yes" => Remembered(s)'
  <2> SUFFICES ASSUME NEW s \in Sessions, overtaken'[s] = "yes" PROVE Remembered(s)'
    OBVIOUS
  <2>1. CASE overtaken[s] = "yes"
    BY <1>0, <1>1, <2>1, RememberedAged DEF OInv
  <2>2. CASE overtaken[s] # "yes"
    <3>1. Overtake[s] = "yes" /\ session[s].status = "accepted"
      BY <1>1, <2>2, OvertakeType
    <3> QED
      BY <1>1, <3>1, RememberedNow
  <2> QED
    BY <2>1, <2>2
<1>4. native'.pc \notin {"dispatch", "send"}
  <2>1. native'.pc = native.pc
    BY <1>0, <1>1, AgingThread DEF SameThread
  <2> QED
    BY <1>1, <2>1, Places
<1> QED
  BY <1>2, <1>3, <1>4 DEF OInv

\* Updates that are applied, and the rest of the claims, overtake nothing.
LEMMA AgedRemembered ==
  ASSUME TInv, OInv, NEW what \in SUBSET Events, NEW claims \in BOOLEAN, Happens(what, claims),
         deal'.edition = deal.edition + 1 \/ (deal' = deal /\ "edit" \notin what),
         overtaken' = overtaken
  PROVE  OInv'
<1>1. Rounds' /\ (AfterFirst' => /\ native'.read \in Identities /\ native'.read.edition <= deal'.edition
                                 /\ native'.read.edition = deal'.edition =>
                                      "edit" \notin job'[native'.key].since)
  BY ReadingsAged
<1>2. \A s \in Sessions : overtaken'[s] = "yes" => Remembered(s)'
  BY RememberedAged DEF OInv
<1>3. native'.pc = native.pc /\ native'.key = native.key
  BY AgingThread DEF SameThread
<1> QED
  BY <1>1, <1>2, <1>3 DEF OInv

LEMMA ClaimsRemembered ==
  ASSUME TInv, OInv, (\E k \in Keys : Apply(k)) \/ (\E m \in Managers : Begin(m)) \/ EndClaim \/ Sweep
  PROVE  OInv'
<1>0. {"edit"} \in SUBSET Events /\ {} \in SUBSET Events /\ {"claim"} \in SUBSET Events
  BY DEF Events
<1>1. ASSUME NEW k \in Keys, Apply(k) PROVE OInv'
  <2>1. Happens({"edit"}, FALSE) /\ overtaken' = overtaken /\ deal'.edition = deal.edition + 1
    BY <1>1, ApplyEffect DEF Apply, history
  <2> QED
    BY <1>0, <2>1, AgedRemembered
<1>2. ASSUME NEW m \in Managers, Begin(m) PROVE OInv'
  <2>1. Happens({}, TRUE) /\ overtaken' = overtaken /\ deal' = deal
    BY <1>2 DEF Begin, history
  <2> QED
    BY <1>0, <2>1, AgedRemembered
<1>3. CASE EndClaim \/ Sweep
  <2> PICK b \in BOOLEAN : Record(b)
    BY <1>3, RecordingEffect
  <2>1. Happens(IF b THEN {"claim"} ELSE {}, TRUE) /\ overtaken' = overtaken /\ deal' = deal
    BY DEF Record, history
  <2> PICK what \in SUBSET Events : what = IF b THEN {"claim"} ELSE {}
    BY <1>0
  <2>2. Happens(what, TRUE) /\ "edit" \notin what
    BY <2>1
  <2> QED
    BY <2>1, <2>2, AgedRemembered
<1> QED
  BY <1>1, <1>2, <1>3
\* Steps that change no session, no look, no time and not the deal.
LEMMA RememberedFrame ==
  ASSUME TInv, OInv, UNCHANGED <<session, row, overtaken>>,
         \A k \in Keys : job'[k].status = "pending" => job[k].status = "pending"
                                                       /\ job'[k].since = job[k].since,
         native'.pc \notin {"seen", "fenced"}
  PROVE  \A s \in Sessions : overtaken'[s] = "yes" => Remembered(s)'
<1> SUFFICES ASSUME NEW s \in Sessions, overtaken[s] = "yes" PROVE Remembered(s)'
  OBVIOUS
<1>1. Remembered(s)
  BY DEF OInv
<1> QED
  BY <1>1 DEF Remembered, Observes

LEMMA SessionsRemembered ==
  ASSUME TInv, OInv, NEW s \in Sessions
  PROVE  /\ Open(s) \/ Move(s) => OInv'
         /\ \A m \in Managers : Accept(s, m) => OInv'
<1>1. ASSUME NEW to \in SessionType, session' = [session EXCEPT ![s] = to],
             UNCHANGED <<deal, row, job, native>>,
             \A t \in Sessions : overtaken'[t] = "yes" => overtaken[t] = "yes",
             overtaken'[s] = "yes" /\ to.status = "accepted" =>
               session[s].status = "accepted" /\ to.answered = session[s].answered
      PROVE  OInv'
  <2>1. session'[s] = to /\ \A t \in Sessions \ {s} : session'[t] = session[t]
    BY <1>1, Types
  <2>2. ASSUME NEW t \in Sessions, overtaken'[t] = "yes" PROVE Remembered(t)'
    <3>1. Remembered(t)
      BY <1>1, <2>2 DEF OInv
    <3>2. session'[t].status = "accepted" => /\ session[t].status = "accepted"
                                             /\ session'[t].answered = session[t].answered
      BY <1>1, <2>1, <2>2
    <3> QED
      BY <1>1, <3>1, <3>2 DEF Remembered, Observes
  <2>3. Rounds' /\ (AfterFirst' => AfterFirst)
    BY <1>1 DEF OInv, Rounds, AfterFirst
  <2>4. native.pc \in {"dispatch", "send"} => overtaken'[native.key[1]] # "yes"
    <3>1. native.pc \in {"dispatch", "send"} => native.key[1] \in Sessions
      BY MineFields, Places
    <3> QED
      BY <1>1, <3>1 DEF OInv
  <2> QED
    BY <1>1, <2>2, <2>3, <2>4 DEF OInv
<1>2. ASSUME Open(s) PROVE OInv'
  <2> PICK to \in SessionType : Becomes(s, to) /\ to.status = "new"
    BY <1>2, OpenTo
  <2> QED
    BY <1>1 DEF Becomes, history
<1>3. ASSUME Move(s) PROVE OInv'
  <2> PICK to \in SessionType : /\ Becomes(s, to)
                                /\ to.status = "accepted" => /\ session[s].status = "accepted"
                                                             /\ to.answered = session[s].answered
    BY <1>3, MoveTo
  <2> QED
    BY <1>1 DEF Becomes, history
<1>4. ASSUME NEW m \in Managers, Accept(s, m) PROVE OInv'
  <2>1. PICK to \in SessionType : session' = [session EXCEPT ![s] = to]
    BY <1>4, AcceptTo
  <2>2. /\ UNCHANGED <<deal, row, job, native>> /\ overtaken'[s] = "no"
        /\ \A t \in Sessions \ {s} : overtaken'[t] = overtaken[t]
    BY <1>4, AcceptTo
  <2> QED
    BY <1>1, <2>1, <2>2
<1> QED
  BY <1>2, <1>3, <1>4

LEMMA LooksRemembered ==
  ASSUME TInv, OInv
  PROVE  /\ \A s \in Sessions : Look(s) => OInv'
         /\ Fence => OInv'
<1>1. ASSUME NEW s \in Sessions, Look(s) PROVE OInv'
  <2>1. UNCHANGED <<session, deal, row, job, overtaken>> /\ native.pc = "idle"
    BY <1>1 DEF Look, bitrix, history
  <2>2. native'.pc = "seen" /\ native'.of = s /\ native'.session = session[s]
    BY <1>1, LookEffect
  <2>3. ASSUME NEW t \in Sessions, overtaken[t] = "yes" PROVE Remembered(t)'
    <3>1. Remembered(t)
      BY <2>3 DEF OInv
    <3>2. t = s => native'.session = session[t]
      BY <2>2
    <3> QED
      BY <2>1, <2>2, <3>1, <3>2 DEF Remembered, Observes
  <2>4. Rounds' /\ ~AfterFirst'
    BY <2>2 DEF Rounds, AfterFirst
  <2> QED
    BY <2>1, <2>2, <2>3, <2>4 DEF OInv
<1>2. ASSUME Fence PROVE OInv'
  <2>1. UNCHANGED <<session, deal, row, job, overtaken>> /\ native.pc = "seen"
    BY <1>2 DEF Fence, bitrix, history
  <2>2. /\ native'.pc = "fenced" /\ native'.of = native.of /\ native'.session = native.session
    BY <1>2, FenceEffect
  <2>3. ASSUME NEW t \in Sessions, overtaken[t] = "yes" PROVE Remembered(t)'
    <3>1. Remembered(t)
      BY <2>3 DEF OInv
    <3> QED
      BY <2>1, <2>2, <3>1 DEF Remembered, Observes
  <2>4. Rounds' /\ ~AfterFirst'
    BY <2>2 DEF Rounds, AfterFirst
  <2> QED
    BY <2>1, <2>2, <2>3, <2>4 DEF OInv
<1> QED
  BY <1>1, <1>2

LEMMA ObserveRemembered ==
  ASSUME TInv, OInv, Observe
  PROVE  OInv'
<1>1. UNCHANGED <<session, overtaken>> /\ native' = Idle /\ native.pc = "fenced" /\ native'.pc = "idle"
  BY ObserveEffect, IdleFields DEF Observe, bitrix, history
<1> PICK s \in Sessions : s = native.of
  BY ObserveEffect
<1>2. PICK r \in RowType :
        /\ row' = [row EXCEPT ![s] = r]
        /\ r.armed => /\ native.session.status = "new" \/ native.session.status = "accepted"
                      /\ r.seen = LastSeen(EventBound(s))
        /\ \/ job' = job
           \/ /\ native.session.status = "accepted" /\ <<s, r.revision>> \in Keys
              /\ \E m \in JobType : /\ job' = [job EXCEPT ![<<s, r.revision>>] = m]
                                    /\ m.since = EventBound(s)
  BY ObserveEffect
<1>3. row'[s] = r /\ \A t \in Sessions \ {s} : row'[t] = row[t]
  BY <1>2, Types
<1>4. \A k \in Keys : k[1] # s => job'[k] = job[k]
  <2>1. ASSUME NEW m, job' = [job EXCEPT ![<<s, r.revision>>] = m] PROVE \A k \in Keys : k[1] # s => job'[k] = job[k]
    BY <2>1, Types
  <2> QED
    BY <1>2, <2>1
<1>5. ASSUME overtaken[s] = "yes", Remembered(s) PROVE Remembered(s)'
  <2>1. native.session.status = "accepted" => "edit" \in EventBound(s)
    BY <1>1, <1>5 DEF Remembered, Observes, EventBound
  <2>2. session[s].status = "accepted" /\ r.armed => "edit" \in r.seen
    BY <1>1, <1>2, <1>5, <2>1 DEF Remembered, Observes, LastSeen
  <2>3. \A k \in Keys : k[1] = s /\ job'[k].status = "pending" => "edit" \in job'[k].since
    <3>1. CASE job' = job
      BY <1>5, <3>1 DEF Remembered
    <3>2. CASE job' # job
      <4>1. native.session.status = "accepted" /\ <<s, r.revision>> \in Keys
        BY <1>2, <3>2
      <4> PICK k \in Keys : k = <<s, r.revision>>
        BY <4>1
      <4>2. PICK m \in JobType : job' = [job EXCEPT ![k] = m] /\ m.since = EventBound(s)
        BY <1>2, <3>2
      <4>3. job'[k] = m /\ \A j \in Keys \ {k} : job'[j] = job[j]
        BY <4>2, Types
      <4> QED
        BY <1>5, <2>1, <4>1, <4>2, <4>3 DEF Remembered
    <3> QED
      BY <3>1, <3>2
  <2> QED
    BY <1>1, <1>3, <1>5, <2>2, <2>3 DEF Remembered, Observes
<1>6. ASSUME NEW t \in Sessions, overtaken[t] = "yes" PROVE Remembered(t)'
  <2>1. Remembered(t)
    BY <1>6 DEF OInv
  <2>2. CASE t = s
    BY <1>5, <1>6, <2>1, <2>2
  <2>3. CASE t # s
    BY <1>1, <1>3, <1>4, <2>1, <2>3 DEF Remembered, Observes
  <2> QED
    BY <2>2, <2>3
<1> QED
  BY <1>1, <1>6 DEF OInv, Rounds, AfterFirst

LEMMA RestRemembered ==
  ASSUME TInv, OInv, Fails \/ Crash \/ Guard \/ (\E k \in Keys : Take(k) \/ Lose(k))
  PROVE  OInv'
<1>1. UNCHANGED <<session, deal, row, job, overtaken>>
  BY DEF Fails, Crash, Guard, Take, Lose, Quiet, bitrix, history
<1>2. CASE native' = native
  BY <1>1, <1>2 DEF OInv, Rounds, AfterFirst, Remembered, Observes
<1>3. CASE native'.pc \notin {"seen", "fenced"} /\ Rounds' /\ ~AfterFirst' /\ native'.pc \notin {"dispatch", "send"}
  BY <1>1, <1>3, RememberedFrame DEF OInv
<1>4. CASE Fails \/ Crash
  BY <1>3, <1>4, IdleFields DEF Fails, Crash, Rest, Rounds, AfterFirst
<1>5. CASE \E k \in Keys : Take(k)
  BY <1>3, <1>5, TakeEffect DEF Rounds, AfterFirst
<1> QED
  BY <1>2, <1>4, <1>5 DEF Guard, Lose

\* A step of a job forgets nothing either; what is left are its readings.
LEMMA WorksRemembered ==
  ASSUME TInv, OInv, UNCHANGED <<session, deal, row, overtaken>>, native.pc \in AtJob,
         NEW m \in JobType, NEW w \in NativeType, Works(m, w),
         w.pc \in {"session", "deal"} => w.round \in 1..3,
         w.pc \in {"send", "wait", "acknowledge", "read"} => w.round = 3,
         w.pc \in {"reserve", "store"} \/ (w.pc \in {"session", "deal"} /\ w.round = 2) =>
           /\ w.read \in Identities /\ w.read.edition <= deal.edition
           /\ w.read.edition = deal.edition => "edit" \notin Mine.since,
         w.pc \in {"dispatch", "send"} => overtaken[native.key[1]] # "yes"
  PROVE  OInv'
<1>1. /\ job'[native.key] = m /\ \A k \in Keys \ {native.key} : job'[k] = job[k]
      /\ native' = w /\ m.since = Mine.since /\ Mine = job[native.key] /\ Mine.status = "pending"
      /\ w.pc \in AtJob => w.key = native.key
      /\ w.pc \notin {"seen", "fenced"}
  BY Saved, MineFields, Places, IdleFields DEF Works
<1>2. \A s \in Sessions : overtaken'[s] = "yes" => Remembered(s)'
  <2>1. \A k \in Keys : job'[k].status = "pending" => /\ job[k].status = "pending"
                                                      /\ job'[k].since = job[k].since
    BY <1>1
  <2> QED
    BY <1>1, <2>1, RememberedFrame
<1>3. Rounds'
  BY <1>1 DEF Rounds
<1>4. AfterFirst' => /\ native'.read \in Identities /\ native'.read.edition <= deal'.edition
                     /\ native'.read.edition = deal'.edition => "edit" \notin job'[native'.key].since
  BY <1>1, Places DEF AfterFirst
<1>5. native'.pc \in {"dispatch", "send"} => overtaken'[native'.key[1]] # "yes"
  BY <1>1, Places
<1> QED
  BY <1>2, <1>3, <1>4, <1>5 DEF OInv

LEMMA ProcessRemembered ==
  ASSUME TInv, OInv, \/ ReadSession \/ ReadDeal \/ Reserve \/ Store \/ Dispatch \/ Send \/ Answer
                     \/ Acknowledge \/ Reject \/ ReadBack \/ Confirm \/ Release \/ Finish
  PROVE  OInv'
<1>0. UNCHANGED <<session, deal, row, overtaken>> /\ native.pc \in AtJob
  BY ProcessQuiet
<1>1. ASSUME NEW m \in JobType, NEW w \in NativeType, Works(m, w),
             w.pc \in {"session", "deal"} => w.round \in 1..3,
             w.pc \in {"send", "wait", "acknowledge", "read"} => w.round = 3,
             w.pc \in {"reserve", "store"} \/ (w.pc \in {"session", "deal"} /\ w.round = 2) =>
               /\ w.read \in Identities /\ w.read.edition <= deal.edition
               /\ w.read.edition = deal.edition => "edit" \notin Mine.since,
             w.pc \in {"dispatch", "send"} => overtaken[native.key[1]] # "yes"
      PROVE  OInv'
  BY <1>0, <1>1, WorksRemembered
<1>2. AfterFirst => /\ native.read \in Identities /\ native.read.edition <= deal.edition
                    /\ native.read.edition = deal.edition => "edit" \notin Mine.since
  BY AfterFirstFields
<1>3. Rounds /\ Mine \in JobType
  BY <1>0, MineFields DEF OInv
<1>4. CASE ReadSession
  <2> PICK w \in NativeType : /\ Works(Mine, w) /\ w.pc \in {"deal", "release"} /\ w.round = native.round
                              /\ w.read = native.read
    BY <1>4, ReadSessionWorks
  <2>1. native.pc = "session"
    BY <1>4 DEF ReadSession, Working
  <2> QED
    BY <1>1, <1>2, <1>3, <2>1 DEF AfterFirst, Rounds
<1>5. CASE ReadDeal
  <2>1. native.pc = "deal"
    BY <1>5 DEF ReadDeal, Working
  <2>2. PICK w \in NativeType :
           /\ Works(Mine, w)
           /\ \/ w.pc = "release"
              \/ /\ DealUnchanged
                 /\ \/ /\ native.round = 1 /\ w.pc = "reserve" /\ w.round = 1 /\ w.read = Identity
                    \/ /\ native.round = 1 /\ w.pc = "session" /\ w.round = 2 /\ w.read = Identity
                    \/ /\ native.round = 2 /\ w.pc = "dispatch"
                    \/ w.pc = "confirm"
    BY <1>5, ReadDealWorks
  <2>3. /\ Identity \in Identities /\ Identity.edition = deal.edition /\ deal.edition \in Nat
    BY IdentityType, DealFields
  <2>4. DealUnchanged /\ native.round = 1 => "edit" \notin Mine.since
    BY DEF DealUnchanged
  <2>5. DealUnchanged /\ native.round = 2 => overtaken[native.key[1]] # "yes"
    <3> SUFFICES ASSUME DealUnchanged, native.round = 2, overtaken[native.key[1]] = "yes" PROVE FALSE
      OBVIOUS
    <3>1. native.read = Identity
      BY DEF DealUnchanged
    <3>2. "edit" \notin Mine.since
      BY <1>2, <2>1, <2>3, <3>1 DEF AfterFirst
    <3>3. /\ native.key \in Keys /\ native.key[1] \in Sessions /\ Mine = job[native.key]
          /\ Mine.status = "pending"
      BY <1>0, MineFields
    <3>4. "edit" \in Mine.since
      BY <3>3 DEF OInv, Remembered
    <3> QED
      BY <3>2, <3>4
  <2> QED
    BY <1>1, <1>3, <2>2, <2>3, <2>4, <2>5
<1>6. CASE Reserve
  <2>1. native.pc = "reserve"
    BY <1>6 DEF Reserve, Working
  <2>2. PICK m \in JobType, w \in NativeType :
          Works(m, w) /\ w.read = native.read /\ w.pc \in {"store", "release"}
    BY <1>6, ReserveWorks
  <2> QED
    BY <1>1, <1>2, <2>1, <2>2 DEF AfterFirst
<1>7. CASE Store
  <2>1. native.pc = "store"
    BY <1>7 DEF Store, Working
  <2>2. PICK m \in JobType, w \in NativeType :
          Works(m, w) /\ w.read = native.read /\ w.pc = "session" /\ w.round = 2
    BY <1>7, StoreWorks
  <2> QED
    BY <1>1, <1>2, <2>1, <2>2 DEF AfterFirst
<1>8. CASE Dispatch
  <2>1. native.pc = "dispatch"
    BY <1>8 DEF Dispatch, Working
  <2>2. PICK m \in JobType, w \in NativeType :
          Works(m, w) /\ w.round = 3 /\ w.pc \in {"acknowledge", "send"}
    BY <1>8, DispatchWorks
  <2>3. overtaken[native.key[1]] # "yes"
    BY <2>1 DEF OInv
  <2> QED
    BY <1>1, <2>2, <2>3
<1>9. CASE Send \/ Answer \/ Acknowledge
  <2>1. native.pc \in {"send", "wait", "acknowledge"}
    BY <1>9 DEF Send, Answer, Acknowledge, Working
  <2>2. native.round = 3
    BY <1>3, <2>1 DEF Rounds
  <2>3. PICK m \in JobType, w \in NativeType :
          Works(m, w) /\ w.round = native.round /\ w.pc \in {"wait", "acknowledge", "reject", "read"}
    BY <1>3, <1>9, SendWorks, AnswerWorks, AcknowledgeWorks
  <2> QED
    BY <1>1, <2>2, <2>3
<1>10. CASE ReadBack
  <2>1. native.round = 3
    BY <1>3, <1>10 DEF Rounds, ReadBack, Working
  <2>2. PICK w \in NativeType :
          /\ Works(Mine, w)
          /\ w = Idle \/ (w.pc \in {"session", "release"} /\ w.round = native.round)
    BY <1>10, ReadBackWorks
  <2> QED
    BY <1>1, <1>3, <2>1, <2>2, IdleFields
<1>11. CASE Reject \/ Confirm \/ Release
  <2>1. PICK m \in JobType, w \in NativeType : Works(m, w) /\ w.pc \in {"release", "ready", "conflict"}
    BY <1>11, RejectWorks, ConfirmWorks, ReleaseWorks
  <2> QED
    BY <1>1, <2>1
<1>12. CASE Finish
  BY <1>1, <1>12, FinishWorks, IdleFields
<1> QED
  BY <1>4, <1>5, <1>6, <1>7, <1>8, <1>9, <1>10, <1>11, <1>12

LEMMA RememberedStep ==
  ASSUME TInv, OInv, [Next]_vars
  PROVE  OInv'
<1>1. CASE UNCHANGED vars
  BY <1>1 DEF vars, OInv, Rounds, AfterFirst, Remembered, Observes
<1>2. CASE \E s \in Sessions : Open(s) \/ Move(s) \/ Look(s) \/ \E m \in Managers : Accept(s, m)
  BY <1>2, SessionsRemembered, LooksRemembered
<1>3. CASE EditDeal \/ Write
  BY <1>3, EditRemembered, WriteRemembered
<1>4. CASE (\E k \in Keys : Apply(k)) \/ (\E m \in Managers : Begin(m)) \/ EndClaim \/ Sweep
  BY <1>4, ClaimsRemembered
<1>5. CASE Fence \/ Observe
  BY <1>5, LooksRemembered, ObserveRemembered
<1>6. CASE Fails \/ Crash \/ Guard \/ (\E k \in Keys : Take(k) \/ Lose(k))
  BY <1>6, RestRemembered
<1>7. CASE \/ ReadSession \/ ReadDeal \/ Reserve \/ Store \/ Dispatch \/ Send \/ Answer
           \/ Acknowledge \/ Reject \/ ReadBack \/ Confirm \/ Release \/ Finish
  BY <1>7, ProcessRemembered
<1> QED
  BY <1>1, <1>2, <1>3, <1>4, <1>5, <1>6, <1>7 DEF Next, Thread, Process, ClaimSteps

LEMMA InitRemembered == Init => OInv
<1> SUFFICES ASSUME Init PROVE OInv
  OBVIOUS
<1>1. native.pc = "idle" /\ overtaken = [s \in Sessions |-> "no"]
  BY IdleFields DEF Init
<1> QED
  BY <1>1 DEF OInv, Rounds, AfterFirst

LEMMA RememberedInvariance == Spec => []OInv
BY InitRemembered, RememberedStep, TypedInvariance, PTL DEF Spec

\* Only Send puts an update under way.
LEMMA OnlySends ==
  ASSUME TInv, [Next]_vars, NEW k \in inflight', k \notin inflight
  PROVE  Send /\ k = native.key
<1>1. CASE Send
  BY <1>1 DEF Send
<1>2. CASE inflight' \subseteq inflight
  BY <1>2
<1>3. CASE UNCHANGED vars
  BY <1>2, <1>3 DEF vars
<1>4. CASE \E s \in Sessions : Open(s) \/ Move(s) \/ Look(s) \/ \E m \in Managers : Accept(s, m)
  BY <1>2, <1>4 DEF Open, Move, Becomes, Look, Accept, bitrix
<1>5. CASE EditDeal
  BY <1>2, <1>5, EditEffect DEF Edit
<1>6. CASE \/ (\E j \in Keys : Apply(j) \/ Lose(j) \/ Take(j)) \/ (\E m \in Managers : Begin(m))
           \/ Guard \/ Write \/ Fence \/ Observe \/ Fails \/ Crash
  BY <1>2, <1>6 DEF Apply, Lose, Take, Begin, Guard, Write, Fence, Observe, Fails, Crash, Quiet, bitrix
<1>7. CASE EndClaim \/ Sweep
  BY <1>2, <1>7, RecordingEffect DEF Record
<1>8. CASE \/ ReadSession \/ ReadDeal \/ Reserve \/ Store \/ Dispatch \/ Acknowledge
           \/ Reject \/ ReadBack \/ Confirm \/ Release \/ Finish
  BY <1>2, <1>8 DEF ReadSession, ReadDeal, Reserve, Store, Dispatch, Acknowledge, Reject, ReadBack, Confirm,
     Release, Finish, End, Quiet, bitrix
<1>9. CASE Answer
  BY <1>2, <1>9, AnswerWorks
<1> QED
  BY <1>1, <1>3, <1>4, <1>5, <1>6, <1>7, <1>8, <1>9 DEF Next, Thread, Process, ClaimSteps

\* The owner of the deal is sent only for an acceptance that neither a claim nor
\* a person's edit has overtaken, but for the gap between a look and its time.
THEOREM NewerNotOverwritten == Spec => NotOverwritten
<1>1. TInv /\ OInv /\ [Next]_vars => [\A k \in inflight' \ inflight : overtaken[k[1]] # "yes"]_vars
  <2> SUFFICES ASSUME TInv, OInv, [Next]_vars, NEW k \in inflight', k \notin inflight
               PROVE  overtaken[k[1]] # "yes"
    OBVIOUS
  <2>1. Send /\ k = native.key
    BY OnlySends
  <2> QED
    BY <2>1 DEF Send, Working, OInv
<1> QED
  BY <1>1, TypedInvariance, RememberedInvariance, PTL DEF Spec, NotOverwritten
-----------------------------------------------------------------------------
(* Fenced: one update under way, for a job that holds the deal.            *)

\* Steps that leave alone what the jobs, the deal and the claims show of an
\* update: where the thread is at a job, it stays.
SameDispatch ==
  /\ \A k \in Keys : /\ job'[k].status = job[k].status /\ job'[k].manager = job[k].manager
                     /\ job'[k].dispatched = job[k].dispatched
                     /\ job'[k].acknowledged = job[k].acknowledged
  /\ native.pc \in AtJob => /\ native'.pc = native.pc /\ native'.key = native.key
                            /\ native'.round = native.round /\ native'.read = native.read
  /\ native'.pc \in AtJob => native.pc \in AtJob

LEMMA DispatchedSame ==
  ASSUME SameDispatch
  PROVE  \A k \in Keys : Dispatched(k)' <=> Dispatched(k)
BY DEF SameDispatch, Dispatched

LEMMA DispatchFrame ==
  ASSUME TInv, Placed, OneDispatched, SentOnce, SameDispatch,
         claim'.pc # "idle" => claim.pc # "idle" \/ ~Unresolved,
         inflight' \subseteq inflight, applied' \subseteq applied \cup (inflight \ inflight')
  PROVE  Placed' /\ OneDispatched' /\ SentOnce'
<1>1. \A k \in Keys : Dispatched(k)' <=> Dispatched(k)
  BY DispatchedSame
<1>2. /\ native.pc \in AtJob => native.key \in Keys
      /\ {"reserve", "store", "dispatch", "session", "deal"} \cup After \subseteq AtJob
      /\ inflight \subseteq Keys
  BY Places, Types DEF TInv, Thinks, After
<1>3. Placed'
  BY <1>2 DEF Placed, Before, SameDispatch
<1>4. OneDispatched'
  BY <1>1, <1>2 DEF OneDispatched, SameDispatch, Unresolved
<1>5. SentOnce'
  BY <1>2, Places DEF SentOnce, SameDispatch
<1> QED
  BY <1>3, <1>4, <1>5

LEMMA AgedDispatch ==
  ASSUME TInv, NEW what \in SUBSET Events, NEW claims \in BOOLEAN, Happens(what, claims)
  PROVE  SameDispatch
<1>1. \A k \in Keys : SameJob(job'[k], job[k])
  BY AgingJobs
<1>2. SameThread(native', native)
  BY AgingThread
<1> QED
  BY <1>1, <1>2 DEF SameDispatch, SameJob, SameThread

\* The owner of the deal and the updates under way stay.
LEMMA OwnerFrame ==
  ASSUME TInv, FInv, SameDispatch, chosen' = chosen, deal'.owner = deal.owner, inflight' \subseteq inflight
  PROVE  OnlyByUpdate'
<1>1. CASE chosen
  BY <1>1 DEF OnlyByUpdate
<1>2. CASE ~chosen
  <2>1. \A k \in Keys : Dispatched(k)' <=> Dispatched(k)
    BY DispatchedSame
  <2>2. /\ native.pc \in AtJob => native.key \in Keys
        /\ inflight \subseteq Keys
    BY Types DEF TInv, Thinks
  <2>3. \A k \in inflight' : Dispatched(k)' /\ deal'.owner # job'[k].manager
    BY <1>2, <2>1, <2>2 DEF FInv, OnlyByUpdate, SameDispatch
  <2>4. /\ native'.pc = "dispatch" /\ native'.read.owner # job'[native'.key].manager =>
             deal'.owner # job'[native'.key].manager
        /\ native'.pc = "send" => deal'.owner # job'[native'.key].manager
        /\ native'.pc \in AtJob \ {"wait", "read"} => native'.key \notin inflight'
    BY <1>2, <2>2, Places DEF FInv, OnlyByUpdate, SameDispatch
  <2> QED
    BY <2>3, <2>4 DEF OnlyByUpdate
<1> QED
  BY <1>1, <1>2

LEMMA EditFenced ==
  ASSUME TInv, FInv, EditDeal
  PROVE  FInv'
<1> PICK to \in DealType : Edit(to) /\ deal'.owner = to.owner
  BY EditEffect
<1>1. SameDispatch
  <2>1. {"edit"} \in SUBSET Events
    BY DEF Events
  <2> QED
    BY <2>1, AgedDispatch DEF Edit
<1>2. UNCHANGED <<claim, inflight, applied>>
  BY DEF Edit
<1>3. Placed' /\ OneDispatched' /\ SentOnce'
  BY <1>1, <1>2, DispatchFrame DEF FInv
<1>4. OnlyByUpdate'
  <2>1. CASE chosen'
    BY <2>1 DEF OnlyByUpdate
  <2>2. CASE ~chosen'
    <3>1. ~chosen /\ \A k \in Keys : job[k].status = "pending" => job[k].manager # to.owner
      BY <2>2, Types DEF Edit
    <3>2. /\ native.pc \in AtJob => native.key \in Keys /\ job[native.key].status = "pending"
          /\ inflight \subseteq Keys
      BY Types DEF TInv, Thinks
    <3>3. \A k \in inflight : Dispatched(k)' /\ deal'.owner # job'[k].manager
      BY <1>1, <3>1, <3>2, DispatchedSame DEF FInv, OnlyByUpdate, SameDispatch, Dispatched
    <3>4. native'.pc \in AtJob => deal'.owner # job'[native'.key].manager
      BY <1>1, <3>1, <3>2 DEF SameDispatch
    <3>5. native'.pc \in AtJob \ {"wait", "read"} => native'.key \notin inflight
      BY <1>1, <3>1 DEF SameDispatch, FInv, OnlyByUpdate
    <3> QED
      BY <1>2, <3>3, <3>4, <3>5, Places DEF OnlyByUpdate
  <2> QED
    BY <2>1, <2>2
<1> QED
  BY <1>3, <1>4 DEF FInv

LEMMA ApplyFenced ==
  ASSUME TInv, FInv, NEW k \in Keys, Apply(k)
  PROVE  FInv'
<1>1. SameDispatch
  <2>1. {"edit"} \in SUBSET Events
    BY DEF Events
  <2> QED
    BY <2>1, AgedDispatch DEF Apply
<1>2. /\ UNCHANGED <<claim, chosen>> /\ k \in inflight
      /\ inflight' = inflight \ {k} /\ applied' = applied \cup {k}
  BY DEF Apply, history
<1>3. Placed' /\ OneDispatched' /\ SentOnce'
  BY <1>1, <1>2, DispatchFrame DEF FInv
<1>4. OnlyByUpdate'
  <2>1. CASE chosen
    BY <1>2, <2>1 DEF OnlyByUpdate
  <2>2. CASE ~chosen
    <3>1. /\ native.pc \in AtJob => native.key \in Keys
          /\ inflight \subseteq Keys
      BY Types DEF TInv, Thinks
    <3>2. Dispatched(k) /\ \A j \in inflight : Dispatched(j)
      BY <1>2, <2>2 DEF FInv, OnlyByUpdate
    <3>3. inflight' = {}
      BY <1>2, <3>1, <3>2 DEF FInv, OneDispatched
    <3>4. native.pc \in AtJob => native.key = k
      BY <3>2 DEF FInv, OneDispatched
    <3>5. native.pc # "dispatch"
      BY <3>2, <3>4, Places DEF FInv, Placed, Before, Dispatched
    <3>6. native.pc # "send"
      BY <1>2, <3>4, Places DEF FInv, SentOnce
    <3>7. native'.pc \notin {"dispatch", "send"}
      BY <1>1, <3>5, <3>6, Places DEF SameDispatch
    <3> QED
      BY <3>3, <3>7 DEF OnlyByUpdate
  <2> QED
    BY <2>1, <2>2
<1> QED
  BY <1>3, <1>4 DEF FInv

LEMMA WriteFenced ==
  ASSUME TInv, FInv, Write
  PROVE  FInv'
<1>1. SameDispatch
  <2>1. {"edit"} \in SUBSET Events
    BY DEF Events
  <2> QED
    BY <2>1, AgedDispatch DEF Write
<1>2. UNCHANGED <<inflight, applied, chosen>> /\ claim.pc # "idle" /\ native.pc \notin AtJob
  BY WriteEffect DEF Write
<1>3. Placed' /\ OneDispatched' /\ SentOnce'
  BY <1>1, <1>2, DispatchFrame DEF FInv
<1>4. OnlyByUpdate'
  <2>1. CASE chosen
    BY <1>2, <2>1 DEF OnlyByUpdate
  <2>2. CASE ~chosen
    <3>1. inflight \subseteq Keys
      BY Types
    <3>2. inflight = {}
      BY <1>2, <2>2, <3>1 DEF FInv, OnlyByUpdate, OneDispatched
    <3>3. native'.pc \notin AtJob
      BY <1>1, <1>2 DEF SameDispatch
    <3> QED
      BY <1>2, <3>2, <3>3, Places DEF OnlyByUpdate
  <2> QED
    BY <2>1, <2>2
<1> QED
  BY <1>3, <1>4 DEF FInv

LEMMA AroundFenced ==
  ASSUME TInv, FInv, \/ (\E m \in Managers : Begin(m)) \/ EndClaim \/ Sweep \/ Guard
                     \/ (\E k \in Keys : Lose(k))
                     \/ (\E s \in Sessions : Open(s) \/ Move(s) \/ Look(s) \/ \E m \in Managers : Accept(s, m))
                     \/ Fence \/ Fails \/ Crash
  PROVE  FInv'
<1>1. ASSUME SameDispatch, chosen' = chosen, deal' = deal, inflight' \subseteq inflight, applied' = applied,
             claim'.pc # "idle" => claim.pc # "idle" \/ ~Unresolved
      PROVE  FInv'
  BY <1>1, DispatchFrame, OwnerFrame DEF FInv
<1>2. ASSUME NEW m \in Managers, Begin(m) PROVE FInv'
  <2>1. {} \in SUBSET Events
    BY DEF Events
  <2>2. SameDispatch
    BY <1>2, <2>1, AgedDispatch DEF Begin
  <2> QED
    BY <1>1, <1>2, <2>2 DEF Begin, history
<1>3. CASE EndClaim \/ Sweep
  <2> PICK b \in BOOLEAN : Record(b)
    BY <1>3, RecordingEffect
  <2> PICK what \in SUBSET Events : what = IF b THEN {"claim"} ELSE {}
    BY DEF Events
  <2>1. /\ SameDispatch /\ chosen' = chosen /\ deal' = deal /\ inflight' = inflight /\ applied' = applied
        /\ claim'.pc = "idle"
    BY AgedDispatch DEF Record, NoClaim, history
  <2> QED
    BY <1>1, <2>1
<1>4. ASSUME UNCHANGED <<job, deal, applied, chosen>>, inflight' \subseteq inflight,
             claim'.pc # "idle" => claim.pc # "idle",
             native' = native \/ (native'.pc \notin AtJob /\ native.pc \notin AtJob)
      PROVE  FInv'
  <2>1. SameDispatch
    BY <1>4 DEF SameDispatch
  <2> QED
    BY <1>1, <1>4, <2>1
<1>5. CASE Guard \/ \E k \in Keys : Lose(k)
  BY <1>4, <1>5 DEF Guard, Lose, history
<1>6. CASE \E s \in Sessions : Open(s) \/ Move(s) \/ \E m \in Managers : Accept(s, m)
  BY <1>4, <1>6 DEF Open, Move, Becomes, Accept, history
<1>7. CASE Fence \/ \E s \in Sessions : Look(s)
  <2>1. native.pc \notin AtJob /\ native'.pc \notin AtJob
    BY <1>7, FenceEffect, LookEffect, Places DEF Fence, Look
  <2> QED
    BY <1>4, <1>7, <2>1 DEF Fence, Look, bitrix, history
<1>8. CASE Fails \/ Crash
  <2>1. /\ UNCHANGED <<job, deal, inflight, applied, chosen>> /\ native'.pc \notin AtJob
        /\ claim'.pc # "idle" => claim.pc # "idle"
    <3>1. Rest /\ UNCHANGED <<job, deal, inflight, applied, chosen>>
      BY <1>8 DEF Fails, Crash, bitrix, history
    <3>2. claim' = claim \/ claim' = [claim EXCEPT !.pc = "idle"]
      BY <1>8 DEF Fails, Crash
    <3>3. claim'.pc # "idle" => claim.pc # "idle"
      BY <3>2, DealFields DEF ClaimType
    <3> QED
      BY <3>1, <3>3, IdleFields, Places DEF Rest
  <2>2. \A k \in Keys : Dispatched(k)' <=> Dispatched(k)
    BY <2>1 DEF Dispatched
  <2>3. Placed'
    BY <2>1, Places DEF Placed, Before, After
  <2>4. OneDispatched'
    BY <2>1, <2>2 DEF FInv, OneDispatched
  <2>5. SentOnce'
    BY <2>1, Places DEF FInv, SentOnce
  <2>6. OnlyByUpdate'
    BY <2>1, <2>2, Types, Places DEF FInv, OnlyByUpdate
  <2> QED
    BY <2>3, <2>4, <2>5, <2>6 DEF FInv
<1> QED
  BY <1>2, <1>3, <1>5, <1>6, <1>7, <1>8
\* A new job is not dispatched, and nothing of it is under way.
LEMMA ObserveFenced ==
  ASSUME TInv, FInv, Observe
  PROVE  FInv'
<1>1. /\ UNCHANGED <<deal, claim, inflight, applied, chosen>> /\ native'.pc \notin AtJob
      /\ native.pc = "fenced"
  BY ObserveEffect, IdleFields, Places DEF Observe, bitrix, history
<1>2. \A k \in Keys : \/ job'[k] = job[k]
                      \/ /\ ~job'[k].dispatched /\ ~job'[k].acknowledged
                         /\ ~job[k].dispatched /\ k \notin inflight \cup applied
  <2>1. CASE job' = job
    BY <2>1
  <2>2. CASE job' # job
    <3> PICK s \in Sessions : s = native.of
      BY ObserveEffect
    <3>1. PICK r \in RowType :
            /\ r.revision = row[s].revision + 1 /\ <<s, r.revision>> \in Keys
            /\ \E m \in JobType : /\ job' = [job EXCEPT ![<<s, r.revision>>] = m]
                                  /\ ~m.dispatched /\ ~m.acknowledged
      BY <2>2, ObserveEffect
    <3> PICK k \in Keys : k = <<s, r.revision>>
      BY <3>1
    <3>2. PICK m \in JobType : /\ job' = [job EXCEPT ![k] = m] /\ ~m.dispatched /\ ~m.acknowledged
      BY <3>1
    <3>3. job'[k] = m /\ \A j \in Keys \ {k} : job'[j] = job[j]
      BY <3>2, Types
    <3>4. ~job[k].dispatched
      <4>1. k[1] = s /\ k[2] = row[s].revision + 1 /\ row[s].revision \in Nat
        BY <3>1, SessionFields
      <4>2. ~(k[2] <= row[k[1]].revision)
        BY <4>1
      <4> QED
        BY <4>2 DEF TInv, Assigned
    <3>5. k \notin inflight \cup applied
      BY <3>4 DEF FInv, SentOnce
    <3> QED
      BY <3>2, <3>3, <3>4, <3>5
  <2> QED
    BY <2>1, <2>2
<1>3. \A k \in Keys : Dispatched(k)' <=> Dispatched(k)
  BY <1>2 DEF Dispatched
<1>4. Placed'
  BY <1>1, Places DEF Placed, Before, After
<1>5. OneDispatched'
  BY <1>1, <1>3 DEF FInv, OneDispatched
<1>6. SentOnce'
  <2>1. \A k \in Keys : ~job'[k].dispatched => k \notin inflight \cup applied
    BY <1>2 DEF FInv, SentOnce
  <2>2. \A k \in Keys : job'[k].acknowledged => job'[k].dispatched /\ k \notin inflight
    BY <1>2 DEF FInv, SentOnce
  <2> QED
    BY <1>1, <2>1, <2>2, Places DEF FInv, SentOnce
<1>7. OnlyByUpdate'
  <2>1. inflight \subseteq Keys
    BY Types
  <2>2. \A k \in inflight : job'[k] = job[k]
    BY <1>2, <2>1
  <2> QED
    BY <1>1, <1>3, <2>1, <2>2, Places DEF FInv, OnlyByUpdate
<1> QED
  BY <1>4, <1>5, <1>6, <1>7 DEF FInv

LEMMA TakeFenced ==
  ASSUME TInv, FInv, NEW k \in Keys, Take(k)
  PROVE  FInv'
<1>1. /\ UNCHANGED <<deal, job, claim, inflight, applied, chosen>>
  BY DEF Take, Quiet, bitrix, history
<1>2. /\ native'.key = k /\ claim.pc = "idle"
      /\ \/ job[k].dispatched /\ native'.pc = "read" /\ native'.round = 3
         \/ ~job[k].dispatched /\ native'.pc = "session" /\ native'.round = 1
      /\ \A j \in Keys \ {k} : ~Dispatched(j)
  BY TakeEffect
<1>3. Placed'
  BY <1>1, <1>2 DEF Placed, Before, After
<1>4. OneDispatched'
  <2>1. \A j \in Keys : Dispatched(j)' <=> Dispatched(j)
    BY <1>1 DEF Dispatched
  <2> QED
    BY <1>1, <1>2, <2>1 DEF FInv, OneDispatched
<1>5. SentOnce'
  BY <1>1, <1>2 DEF FInv, SentOnce
<1>6. OnlyByUpdate'
  <2>1. \A j \in inflight : Dispatched(j)' <=> Dispatched(j)
    BY <1>1 DEF Dispatched
  <2>2. native'.pc # "read" => k \notin inflight
    BY <1>2 DEF FInv, SentOnce
  <2> QED
    BY <1>1, <1>2, <2>1, <2>2 DEF FInv, OnlyByUpdate
<1> QED
  BY <1>3, <1>4, <1>5, <1>6 DEF FInv

\* A step of a job that does not send and stays on its side of the boundary.
LEMMA WorksFenced ==
  ASSUME TInv, FInv, native.pc \in AtJob, UNCHANGED <<deal, claim, inflight, applied, chosen>>,
         NEW m \in JobType, NEW w \in NativeType, Works(m, w),
         m.dispatched = Mine.dispatched, m.acknowledged = Mine.acknowledged,
         m.status = "pending" \/ (~chosen => native.key \notin inflight),
         w.pc \in Before \/ (w.pc \in {"session", "deal"} /\ w.round # 3) => ~m.dispatched,
         w.pc \in After \/ (w.pc \in {"session", "deal"} /\ w.round = 3) => m.dispatched,
         w.pc \notin {"send", "wait", "reject"},
         w.pc = "acknowledge" => native.key \notin inflight,
         w.pc = "dispatch" /\ w.read.owner # m.manager => deal.owner # m.manager,
         w.pc \in AtJob \ {"wait", "read"} => chosen \/ native.key \notin inflight
  PROVE  FInv'
<1>1. /\ native.key \in Keys /\ Mine = job[native.key] /\ claim.pc = "idle" /\ Mine.status = "pending"
      /\ job'[native.key] = m /\ \A k \in Keys \ {native.key} : job'[k] = job[k]
      /\ native' = w /\ m.manager = Mine.manager
      /\ w.pc \in AtJob => w.key = native.key
  BY Saved, MineFields DEF Works
<1>2. \A k \in Keys : Dispatched(k)' => Dispatched(k)
  BY <1>1 DEF Dispatched
<1>3. Placed'
  BY <1>1, Places DEF Placed, Before, After
<1>4. OneDispatched'
  BY <1>1, <1>2 DEF FInv, OneDispatched
<1>5. SentOnce'
  BY <1>1, Places DEF FInv, SentOnce
<1>6. OnlyByUpdate'
  <2>1. CASE chosen
    BY <2>1 DEF OnlyByUpdate
  <2>2. CASE ~chosen
    <3>1. inflight \subseteq Keys
      BY Types
    <3>2. \A k \in inflight : Dispatched(k)' /\ deal.owner # job'[k].manager
      BY <1>1, <2>2, <3>1 DEF FInv, OnlyByUpdate, Dispatched
    <3> QED
      BY <1>1, <2>2, <3>2, Places DEF OnlyByUpdate
  <2> QED
    BY <2>1, <2>2
<1> QED
  BY <1>3, <1>4, <1>5, <1>6 DEF FInv

LEMMA ProcessFenced ==
  ASSUME TInv, FInv, Rounds, \/ ReadSession \/ ReadDeal \/ Reserve \/ Store \/ ReadBack \/ Confirm
                             \/ Release \/ Finish
  PROVE  FInv'
<1>0. UNCHANGED <<deal, claim, inflight, applied, chosen>> /\ native.pc \in AtJob
  BY ProcessQuiet DEF ReadSession, ReadDeal, Reserve, Store, ReadBack, Confirm, Release, Finish, End, Quiet, bitrix
<1>1. ASSUME NEW m \in JobType, NEW w \in NativeType, Works(m, w),
             m.dispatched = Mine.dispatched, m.acknowledged = Mine.acknowledged,
             m.status = "pending" \/ (~chosen => native.key \notin inflight),
             w.pc \in Before \/ (w.pc \in {"session", "deal"} /\ w.round # 3) => ~m.dispatched,
             w.pc \in After \/ (w.pc \in {"session", "deal"} /\ w.round = 3) => m.dispatched,
             w.pc \notin {"send", "wait", "reject"},
             w.pc = "acknowledge" => native.key \notin inflight,
             w.pc = "dispatch" /\ w.read.owner # m.manager => deal.owner # m.manager,
             w.pc \in AtJob \ {"wait", "read"} => chosen \/ native.key \notin inflight
      PROVE  FInv'
  BY <1>0, <1>1, WorksFenced
<1>2. Mine \in JobType /\ Mine = job[native.key] /\ Mine.status = "pending" /\ native.key \in Keys
  BY <1>0, MineFields
<1>3. native.pc \notin {"wait", "read"} => chosen \/ native.key \notin inflight
  BY <1>0 DEF FInv, OnlyByUpdate
<1>4. CASE ReadSession
  <2>1. native.pc = "session"
    BY <1>4 DEF ReadSession, Working
  <2>2. PICK w \in NativeType : /\ Works(Mine, w) /\ w.pc \in {"deal", "release"} /\ w.round = native.round
    BY <1>4, ReadSessionWorks
  <2>3. (native.round # 3 => ~Mine.dispatched) /\ (native.round = 3 => Mine.dispatched)
    BY <1>2, <2>1 DEF FInv, Placed
  <2> QED
    BY <1>1, <1>2, <1>3, <2>1, <2>2, <2>3 DEF Before, After
<1>5. CASE ReadDeal
  <2>1. native.pc = "deal" /\ native.round \in 1..3
    BY <1>5 DEF ReadDeal, Working, Rounds
  <2>2. PICK w \in NativeType :
           /\ Works(Mine, w)
           /\ \/ w.pc = "release"
              \/ native.round = 1 /\ w.pc = "reserve"
              \/ native.round = 1 /\ w.pc = "session" /\ w.round = 2
              \/ native.round = 2 /\ w.pc = "dispatch" /\ w.read = native.read /\ DealUnchanged
              \/ native.round \notin {1, 2} /\ w.pc = "confirm"
    BY <1>5, ReadDealWorks
  <2>3. (native.round # 3 => ~Mine.dispatched) /\ (native.round = 3 => Mine.dispatched)
    BY <1>2, <2>1 DEF FInv, Placed
  <2>4. native.round = 2 /\ DealUnchanged => native.read.owner = deal.owner
    BY IdentityType DEF DealUnchanged
  <2> QED
    BY <1>1, <1>2, <1>3, <2>1, <2>2, <2>3, <2>4 DEF Before, After
<1>6. CASE Reserve
  <2>1. native.pc = "reserve"
    BY <1>6 DEF Reserve, Working
  <2>2. PICK m \in JobType, w \in NativeType :
          /\ Works(m, w) /\ w.pc \in {"store", "release"} /\ m.status = "pending"
          /\ m.dispatched = Mine.dispatched /\ m.acknowledged = Mine.acknowledged
    BY <1>2, <1>6, ReserveWorks
  <2>3. ~Mine.dispatched
    BY <1>2, <2>1 DEF FInv, Placed, Before
  <2> QED
    BY <1>1, <1>3, <2>1, <2>2, <2>3 DEF Before, After
<1>7. CASE Store
  <2>1. native.pc = "store"
    BY <1>7 DEF Store, Working
  <2>2. PICK m \in JobType, w \in NativeType :
          /\ Works(m, w) /\ w.pc = "session" /\ w.round = 2 /\ m.status = "pending"
          /\ m.dispatched = Mine.dispatched /\ m.acknowledged = Mine.acknowledged
    BY <1>7, StoreWorks
  <2>3. ~Mine.dispatched
    BY <1>2, <2>1 DEF FInv, Placed, Before
  <2> QED
    BY <1>1, <1>3, <2>1, <2>2, <2>3 DEF Before, After
<1>8. CASE ReadBack
  <2>1. native.pc = "read" /\ native.round = 3
    BY <1>8 DEF ReadBack, Working, Rounds
  <2>2. PICK w \in NativeType :
          /\ Works(Mine, w)
          /\ \/ w = Idle
             \/ w.pc \in {"session", "release"} /\ w.round = native.round /\ ~InDoubt
    BY <1>8, ReadBackWorks
  <2>3. Mine.dispatched
    BY <1>2, <2>1 DEF FInv, Placed, After
  <2>4. ~InDoubt => chosen \/ native.key \notin inflight
    BY <1>2 DEF InDoubt, FInv, OnlyByUpdate, SentOnce
  <2> QED
    BY <1>1, <1>2, <2>1, <2>2, <2>3, <2>4, IdleFields, Places DEF Before, After
<1>9. CASE Confirm \/ Release
  <2>1. native.pc \notin {"wait", "read"}
    BY <1>9 DEF Confirm, Release, Working
  <2>2. PICK m \in JobType, w \in NativeType :
          /\ Works(m, w) /\ w.pc \in {"ready", "conflict"} /\ m.status = "pending"
          /\ m.dispatched = Mine.dispatched /\ m.acknowledged = Mine.acknowledged
    BY <1>9, ConfirmWorks, ReleaseWorks
  <2> QED
    BY <1>1, <1>3, <2>1, <2>2 DEF Before, After
<1>10. CASE Finish
  <2>1. PICK m \in JobType :
          /\ Works(m, Idle) /\ native.pc \in {"ready", "conflict"}
          /\ m.dispatched = Mine.dispatched /\ m.acknowledged = Mine.acknowledged
    BY <1>10, FinishWorks
  <2> QED
    BY <1>1, <1>3, <2>1, IdleFields, Places DEF Before, After
<1> QED
  BY <1>4, <1>5, <1>6, <1>7, <1>8, <1>9, <1>10
\* The steps that cross the boundary, send, and learn of the update.
LEMMA CrossFenced ==
  ASSUME TInv, FInv, Dispatch
  PROVE  FInv'
<1>0. UNCHANGED <<deal, claim, inflight, applied, chosen>> /\ native.pc \in AtJob /\ native.pc = "dispatch"
  BY ProcessQuiet DEF Dispatch, Quiet, bitrix, Working
<1>1. PICK m \in JobType, w \in NativeType :
        /\ Works(m, w) /\ w.round = 3 /\ w.read = native.read
        /\ w.pc = IF native.read.owner = Mine.manager THEN "acknowledge" ELSE "send"
        /\ m.status = "pending" /\ m.dispatched /\ m.acknowledged = Mine.acknowledged
  BY DispatchWorks
<1>2. /\ native.key \in Keys /\ Mine = job[native.key] /\ claim.pc = "idle" /\ Mine.status = "pending"
      /\ job'[native.key] = m /\ \A k \in Keys \ {native.key} : job'[k] = job[k]
      /\ native' = w /\ m.manager = Mine.manager /\ w.key = native.key
  BY <1>0, <1>1, Saved, MineFields, Places DEF Works
<1>3. ~Mine.dispatched /\ ~Mine.acknowledged /\ native.key \notin inflight \cup applied
  BY <1>0, <1>2 DEF FInv, Placed, Before, SentOnce
<1>4. Placed'
  BY <1>1, <1>2 DEF Placed, Before, After
<1>5. OneDispatched'
  <2>1. \A k \in Keys : Dispatched(k)' => k = native.key
    BY <1>0, <1>2 DEF FInv, OneDispatched, Dispatched
  <2> QED
    BY <1>0, <1>2, <2>1 DEF OneDispatched
<1>6. SentOnce'
  <2>1. \A k \in Keys : ~job'[k].dispatched => k \notin inflight \cup applied
    BY <1>1, <1>2 DEF FInv, SentOnce
  <2>2. \A k \in Keys : job'[k].acknowledged => job'[k].dispatched /\ k \notin inflight
    BY <1>1, <1>2, <1>3 DEF FInv, SentOnce
  <2> QED
    BY <1>0, <1>1, <1>2, <1>3, <2>1, <2>2 DEF FInv, SentOnce
<1>7. OnlyByUpdate'
  <2>1. inflight \subseteq Keys
    BY Types
  <2> QED
    BY <1>0, <1>1, <1>2, <1>3, <2>1 DEF FInv, OnlyByUpdate, Dispatched
<1> QED
  BY <1>4, <1>5, <1>6, <1>7 DEF FInv

LEMMA SendFenced ==
  ASSUME TInv, FInv, Send
  PROVE  FInv'
<1>0. /\ UNCHANGED <<deal, job, claim, applied, chosen>> /\ native.pc \in AtJob /\ native.pc = "send"
      /\ inflight' = inflight \cup {native.key}
  BY ProcessQuiet DEF Send, Working
<1>1. PICK w \in NativeType : Works(Mine, w) /\ w.pc = "wait"
  BY SendWorks
<1>2. /\ native.key \in Keys /\ Mine = job[native.key] /\ claim.pc = "idle" /\ Mine.status = "pending"
      /\ native' = w /\ w.key = native.key
  BY <1>0, <1>1, MineFields, Places DEF Works
<1>3. Mine.dispatched /\ ~Mine.acknowledged /\ native.key \notin applied
  BY <1>0, <1>2 DEF FInv, Placed, After, SentOnce
<1>4. Placed'
  BY <1>0, <1>1, <1>2, <1>3 DEF Placed, Before, After
<1>5. OneDispatched'
  <2>1. \A k \in Keys : Dispatched(k)' <=> Dispatched(k)
    BY <1>0 DEF Dispatched
  <2> QED
    BY <1>0, <1>2, <2>1 DEF FInv, OneDispatched
<1>6. SentOnce'
  BY <1>0, <1>1, <1>2, <1>3 DEF FInv, SentOnce
<1>7. OnlyByUpdate'
  <2>1. \A k \in Keys : Dispatched(k)' <=> Dispatched(k)
    BY <1>0 DEF Dispatched
  <2>2. inflight \subseteq Keys /\ Dispatched(native.key)
    BY <1>2, <1>3, Types DEF Dispatched
  <2> QED
    BY <1>0, <1>1, <1>2, <2>1, <2>2 DEF FInv, OnlyByUpdate
<1> QED
  BY <1>4, <1>5, <1>6, <1>7 DEF FInv

LEMMA AnswerFenced ==
  ASSUME TInv, FInv, Answer
  PROVE  FInv'
<1>0. UNCHANGED <<deal, job, claim, applied, chosen>> /\ native.pc \in AtJob /\ native.pc = "wait"
  BY ProcessQuiet DEF Answer, Working
<1>1. PICK w \in NativeType :
        /\ Works(Mine, w)
        /\ \/ native.key \in applied /\ w.pc = "acknowledge" /\ inflight' = inflight
           \/ native.key \in inflight /\ w.pc = "reject" /\ inflight' = inflight \ {native.key}
           \/ w.pc = "read" /\ inflight' = inflight
  BY AnswerWorks
<1>2. /\ native.key \in Keys /\ Mine = job[native.key] /\ claim.pc = "idle" /\ Mine.status = "pending"
      /\ native' = w /\ w.key = native.key
  BY <1>0, <1>1, MineFields, Places DEF Works
<1>3. Mine.dispatched /\ ~Mine.acknowledged
  BY <1>0, <1>2 DEF FInv, Placed, After, SentOnce
<1>4. Placed'
  BY <1>0, <1>1, <1>2, <1>3 DEF Placed, Before, After
<1>5. \A k \in Keys : Dispatched(k)' <=> Dispatched(k)
  BY <1>0 DEF Dispatched
<1>6. OneDispatched'
  BY <1>0, <1>2, <1>5 DEF FInv, OneDispatched
<1>7. SentOnce'
  BY <1>0, <1>1, <1>2, <1>3 DEF FInv, SentOnce
<1>8. OnlyByUpdate'
  <2>1. inflight' \subseteq inflight /\ inflight \subseteq Keys
    BY <1>1, Types
  <2>2. native'.pc \in AtJob \ {"wait", "read"} => native'.key \notin inflight'
    BY <1>1, <1>2 DEF FInv, SentOnce
  <2> QED
    BY <1>0, <1>1, <1>2, <1>5, <2>1, <2>2 DEF FInv, OnlyByUpdate
<1> QED
  BY <1>4, <1>6, <1>7, <1>8 DEF FInv

LEMMA LearnFenced ==
  ASSUME TInv, FInv, Acknowledge \/ Reject
  PROVE  FInv'
<1>0. UNCHANGED <<deal, claim, inflight, applied, chosen>> /\ native.pc \in AtJob
  BY ProcessQuiet DEF Acknowledge, Reject, Quiet, bitrix
<1>1. native.pc = (IF Acknowledge THEN "acknowledge" ELSE "reject")
  BY DEF Acknowledge, Reject, Working
<1>2. PICK m \in JobType, w \in NativeType :
        /\ Works(m, w) /\ m.status = "pending"
        /\ \/ /\ native.pc = "acknowledge" /\ w.pc = "read"
              /\ m.acknowledged /\ m.dispatched = Mine.dispatched
           \/ /\ native.pc = "reject" /\ w.pc = "release"
              /\ m.acknowledged = Mine.acknowledged /\ ~m.dispatched
  <2>1. CASE Acknowledge
    BY <1>1, <2>1, AcknowledgeWorks
  <2>2. CASE Reject
    <3>1. native.pc = "reject"
      BY <2>2 DEF Reject, Working
    <3> QED
      BY <2>2, <3>1, RejectWorks
  <2> QED
    BY <2>1, <2>2
<1>3. /\ native.key \in Keys /\ Mine = job[native.key] /\ claim.pc = "idle" /\ Mine.status = "pending"
      /\ job'[native.key] = m /\ \A k \in Keys \ {native.key} : job'[k] = job[k]
      /\ native' = w /\ m.manager = Mine.manager /\ w.key = native.key
  BY <1>0, <1>2, Saved, MineFields, Places DEF Works
<1>4. /\ native.key \notin inflight /\ Mine.dispatched
      /\ native.pc = "reject" => ~Mine.acknowledged /\ native.key \notin applied
  BY <1>2, <1>3 DEF FInv, Placed, After, SentOnce
<1>5. \A k \in Keys : Dispatched(k)' => Dispatched(k)
  BY <1>3, <1>4 DEF Dispatched
<1>6. Placed'
  BY <1>2, <1>3, <1>4 DEF Placed, Before, After
<1>7. OneDispatched'
  BY <1>0, <1>3, <1>5 DEF FInv, OneDispatched
<1>8. SentOnce'
  <2>1. \A k \in Keys : ~job'[k].dispatched => k \notin inflight \cup applied
    BY <1>2, <1>3, <1>4 DEF FInv, SentOnce
  <2>2. \A k \in Keys : job'[k].acknowledged => job'[k].dispatched /\ k \notin inflight
    BY <1>2, <1>3, <1>4 DEF FInv, SentOnce
  <2> QED
    BY <1>0, <1>2, <1>3, <2>1, <2>2 DEF FInv, SentOnce
<1>9. OnlyByUpdate'
  <2>1. inflight \subseteq Keys
    BY Types
  <2>2. \A k \in inflight : job'[k] = job[k]
    BY <1>3, <1>4, <2>1
  <2> QED
    BY <1>0, <1>2, <1>3, <1>4, <2>1, <2>2 DEF FInv, OnlyByUpdate, Dispatched
<1> QED
  BY <1>6, <1>7, <1>8, <1>9 DEF FInv

LEMMA FencedStep ==
  ASSUME TInv, FInv, Rounds, [Next]_vars
  PROVE  FInv'
<1>1. CASE UNCHANGED vars
  BY <1>1 DEF vars, FInv, Placed, OneDispatched, SentOnce, OnlyByUpdate, Dispatched
<1>2. CASE EditDeal \/ Write \/ \E k \in Keys : Apply(k)
  BY <1>2, EditFenced, WriteFenced, ApplyFenced
<1>3. CASE \/ (\E m \in Managers : Begin(m)) \/ EndClaim \/ Sweep \/ Guard
           \/ (\E k \in Keys : Lose(k))
           \/ (\E s \in Sessions : Open(s) \/ Move(s) \/ Look(s) \/ \E m \in Managers : Accept(s, m))
           \/ Fence \/ Fails \/ Crash
  BY <1>3, AroundFenced
<1>4. CASE Observe \/ \E k \in Keys : Take(k)
  BY <1>4, ObserveFenced, TakeFenced
<1>5. CASE ReadSession \/ ReadDeal \/ Reserve \/ Store \/ ReadBack \/ Confirm \/ Release \/ Finish
  BY <1>5, ProcessFenced
<1>6. CASE Dispatch \/ Send \/ Answer \/ Acknowledge \/ Reject
  BY <1>6, CrossFenced, SendFenced, AnswerFenced, LearnFenced
<1> QED
  BY <1>1, <1>2, <1>3, <1>4, <1>5, <1>6 DEF Next, Thread, Process, ClaimSteps

LEMMA InitFenced == Init => FInv
<1> SUFFICES ASSUME Init PROVE FInv
  OBVIOUS
<1>1. /\ native.pc = "idle" /\ inflight = {} /\ applied = {} /\ job = [k \in Keys |-> NoJob] /\ claim.pc = "idle"
      /\ ~NoJob.dispatched /\ ~NoJob.acknowledged
  BY IdleFields DEF Init, NoClaim, NoJob
<1>2. \A k \in Keys : ~job[k].dispatched /\ ~job[k].acknowledged
  BY <1>1
<1> QED
  BY <1>1, <1>2, Places DEF FInv, Placed, Before, After, OneDispatched, SentOnce, OnlyByUpdate, Dispatched

LEMMA FencedInvariance == Spec => []FInv
<1>1. OInv => Rounds
  BY DEF OInv
<1> QED
  BY <1>1, InitFenced, FencedStep, TypedInvariance, RememberedInvariance, PTL DEF Spec

\* While an update of the owner may still be applied its job is pending and
\* dispatched, which keeps claims and other jobs away from the deal.
THEOREM UpdatesFenced == Spec => []Fenced
<1>1. FInv => Fenced
  BY DEF FInv, OnlyByUpdate, Fenced
<1> QED
  BY <1>1, FencedInvariance, PTL
-----------------------------------------------------------------------------
(* ContactSettled: what a job reserves it ends.                            *)

SameContact ==
  /\ \A k \in Keys : /\ job'[k].status = job[k].status /\ job'[k].contact = job[k].contact
                     /\ job'[k].previous = job[k].previous /\ job'[k].generation = job[k].generation
                     /\ job'[k].dispatched = job[k].dispatched
                     /\ job[k].since \subseteq job'[k].since
  /\ native'.pc \in AtJob => /\ native'.pc = native.pc /\ native'.key = native.key
                             /\ native'.round = native.round /\ native'.read = native.read

\* Steps that change no row, or tell the rows of an edit.
LEMMA ContactFrame ==
  ASSUME TInv, CInv, SameContact,
         \/ deal'.contact = deal.contact
         \/ \A k \in Keys : job[k].status = "pending" => "edit" \in job'[k].since
  PROVE  CInv'
<1>1. ContactSettled'
  BY DEF CInv, ContactSettled, SameContact
<1>2. \A k \in Keys :
       /\ job'[k].status = "pending" /\ job'[k].contact = "reserved" /\ ~job'[k].generation =>
            "edit" \in job'[k].since \/ deal'.contact
       /\ job'[k].previous # None /\ job'[k].contact = "reserved" => job'[k].generation
       /\ job'[k].dispatched \/ job'[k].generation => job'[k].previous # None
  BY DEF CInv, SameContact, Reserved
<1>3. native.pc \in AtJob => native.key \in Keys /\ job[native.key].status = "pending"
  BY DEF TInv, Thinks
<1>4. native'.pc \in {"reserve", "store"} =>
        /\ job'[native'.key].previous = None
        /\ job'[native'.key].contact = "reserved" => native'.read.contact
        /\ native'.read.contact => deal'.contact \/ "edit" \in job'[native'.key].since
  BY <1>3, Places DEF CInv, SameContact, Reserved
<1>5. /\ native'.pc = "dispatch" \/ (native'.pc \in {"session", "deal"} /\ native'.round = 2) =>
           job'[native'.key].previous # None
      /\ native'.pc \in {"ready", "conflict"} => job'[native'.key].contact # "reserved"
  BY <1>3, Places DEF CInv, SameContact, Reserved
<1> QED
  BY <1>1, <1>2, <1>4, <1>5 DEF CInv, Reserved

LEMMA AgedContact ==
  ASSUME TInv, NEW what \in SUBSET Events, NEW claims \in BOOLEAN, Happens(what, claims)
  PROVE  SameContact
<1>1. \A k \in Keys : SameJob(job'[k], job[k])
  BY AgingJobs
<1>2. SameThread(native', native)
  BY AgingThread
<1> QED
  BY <1>1, <1>2 DEF SameContact, SameJob, SameThread

LEMMA AroundContact ==
  ASSUME TInv, CInv, \/ EditDeal \/ (\E k \in Keys : Apply(k) \/ Lose(k) \/ Take(k)) \/ Write
                     \/ (\E m \in Managers : Begin(m)) \/ EndClaim \/ Sweep \/ Guard
                     \/ (\E s \in Sessions : Open(s) \/ Move(s) \/ Look(s) \/ \E m \in Managers : Accept(s, m))
                     \/ Fence \/ Fails \/ Crash
  PROVE  CInv'
<1>0. {"edit"} \in SUBSET Events /\ {} \in SUBSET Events
  BY DEF Events
<1>1. CASE EditDeal
  <2>1. Happens({"edit"}, FALSE)
    BY <1>1, EditEffect DEF Edit
  <2>2. \A k \in Keys : job[k].status = "pending" => "edit" \in job'[k].since
    <3> TAKE k \in Keys
    <3>1. job[k].status = "pending" => job'[k].since = job[k].since \cup {"edit"}
      BY <1>0, <2>1, AgingJobs
    <3> QED
      BY <3>1
  <2> QED
    BY <1>0, <2>1, <2>2, AgedContact, ContactFrame
<1>2. ASSUME NEW k \in Keys, Apply(k) PROVE CInv'
  <2>1. Happens({"edit"}, FALSE) /\ deal'.contact = deal.contact
    BY <1>2, ApplyEffect DEF Apply
  <2> QED
    BY <1>0, <2>1, AgedContact, ContactFrame
<1>3. CASE Write
  <2>1. Happens({"edit"}, FALSE) /\ deal'.contact = deal.contact
    BY <1>3, WriteEffect DEF Write
  <2> QED
    BY <1>0, <2>1, AgedContact, ContactFrame
<1>4. ASSUME NEW m \in Managers, Begin(m) PROVE CInv'
  <2>1. Happens({}, TRUE) /\ deal' = deal
    BY <1>4 DEF Begin
  <2> QED
    BY <1>0, <2>1, AgedContact, ContactFrame
<1>5. CASE EndClaim \/ Sweep
  <2> PICK b \in BOOLEAN : Record(b)
    BY <1>5, RecordingEffect
  <2> PICK what \in SUBSET Events : what = IF b THEN {"claim"} ELSE {}
    BY DEF Events
  <2>1. Happens(what, TRUE) /\ deal' = deal
    BY DEF Record
  <2> QED
    BY <2>1, AgedContact, ContactFrame
<1>6. ASSUME UNCHANGED <<job, deal>>, native' = native \/ native'.pc \notin AtJob PROVE CInv'
  <2>1. SameContact
    BY <1>6 DEF SameContact
  <2> QED
    BY <1>6, <2>1, ContactFrame
<1>7. CASE Guard \/ \E k \in Keys : Lose(k)
  BY <1>6, <1>7 DEF Guard, Lose
<1>8. CASE \E s \in Sessions : Open(s) \/ Move(s) \/ \E m \in Managers : Accept(s, m)
  BY <1>6, <1>8 DEF Open, Move, Becomes, Accept
<1>9. CASE Fence \/ \E s \in Sessions : Look(s)
  <2>1. native'.pc \notin AtJob
    BY <1>9, FenceEffect, LookEffect, Places
  <2> QED
    BY <1>6, <1>9, <2>1 DEF Fence, Look, bitrix
<1>10. CASE Fails \/ Crash
  BY <1>6, <1>10, IdleFields, Places DEF Fails, Crash, Rest, bitrix
<1>11. ASSUME NEW k \in Keys, Take(k) PROVE CInv'
  <2>1. /\ UNCHANGED <<deal, job>>
        /\ native'.pc = "read" \/ (native'.pc = "session" /\ native'.round = 1)
    BY <1>11, TakeEffect DEF Take, Quiet, bitrix
  <2> QED
    BY <2>1 DEF CInv, ContactSettled, Reserved
<1> QED
  BY <1>1, <1>2, <1>3, <1>4, <1>5, <1>7, <1>8, <1>9, <1>10, <1>11

LEMMA ObserveContact ==
  ASSUME TInv, CInv, Observe
  PROVE  CInv'
<1>1. UNCHANGED deal /\ native'.pc = "idle"
  BY ObserveEffect, IdleFields DEF Observe, bitrix
<1>2. \A k \in Keys : \/ job'[k] = job[k]
                      \/ /\ job'[k].status = "pending" /\ ~job'[k].dispatched /\ ~job'[k].generation
                         /\ job'[k].contact = "none"
  <2>1. ASSUME job' # job
        PROVE  \E k \in Keys, m \in JobType :
                 /\ job' = [job EXCEPT ![k] = m] /\ m.status = "pending" /\ ~m.dispatched /\ ~m.generation
                 /\ m.contact = "none"
    <3> PICK s \in Sessions : s = native.of
      BY ObserveEffect
    <3>1. PICK r \in RowType :
            /\ <<s, r.revision>> \in Keys
            /\ \E m \in JobType :
                 /\ job' = [job EXCEPT ![<<s, r.revision>>] = m] /\ m.status = "pending"
                 /\ ~m.dispatched /\ ~m.generation /\ m.contact = "none"
      BY <2>1, ObserveEffect
    <3> QED
      BY <3>1
  <2>2. ASSUME NEW k \in Keys, NEW m \in JobType, job' = [job EXCEPT ![k] = m]
        PROVE  job'[k] = m /\ \A j \in Keys \ {k} : job'[j] = job[j]
    BY <2>2, Types
  <2> QED
    BY <2>1, <2>2
<1> QED
  BY <1>1, <1>2 DEF CInv, ContactSettled, Reserved

\* A step of a job changes its row only.
LEMMA WorksContact ==
  ASSUME TInv, CInv, native.pc \in AtJob, UNCHANGED deal,
         NEW m \in JobType, NEW w \in NativeType, Works(m, w),
         m.status \in {"ready", "conflict"} => m.contact # "reserved",
         m.contact = "reserved" /\ ~m.generation => "edit" \in Mine.since \/ deal.contact,
         m.previous # None /\ m.contact = "reserved" => m.generation,
         m.dispatched \/ m.generation => m.previous # None,
         w.pc \in {"reserve", "store"} =>
           /\ m.previous = None /\ (m.contact = "reserved" => w.read.contact)
           /\ w.read.contact => deal.contact \/ "edit" \in Mine.since,
         w.pc = "dispatch" \/ (w.pc \in {"session", "deal"} /\ w.round = 2) => m.previous # None,
         w.pc \in {"ready", "conflict"} => m.contact # "reserved"
  PROVE  CInv'
<1>1. /\ native.key \in Keys /\ Mine = job[native.key] /\ Mine.status = "pending"
      /\ job'[native.key] = m /\ \A k \in Keys \ {native.key} : job'[k] = job[k]
      /\ native' = w /\ m.since = Mine.since
      /\ w.pc \in AtJob => w.key = native.key
  BY Saved, MineFields DEF Works
<1>2. ContactSettled'
  BY <1>1 DEF CInv, ContactSettled
<1>3. \A k \in Keys :
       /\ job'[k].status = "pending" /\ job'[k].contact = "reserved" /\ ~job'[k].generation =>
            "edit" \in job'[k].since \/ deal'.contact
       /\ job'[k].previous # None /\ job'[k].contact = "reserved" => job'[k].generation
       /\ job'[k].dispatched \/ job'[k].generation => job'[k].previous # None
  <2> SUFFICES ASSUME NEW k \in Keys
               PROVE  /\ job'[k].status = "pending" /\ job'[k].contact = "reserved" /\ ~job'[k].generation =>
                           "edit" \in job'[k].since \/ deal'.contact
                      /\ job'[k].previous # None /\ job'[k].contact = "reserved" => job'[k].generation
                      /\ job'[k].dispatched \/ job'[k].generation => job'[k].previous # None
    OBVIOUS
  <2>1. CASE k = native.key
    BY <1>1, <2>1
  <2>2. CASE k # native.key
    <3>1. job'[k] = job[k]
      BY <1>1, <2>2
    <3> QED
      BY <3>1 DEF CInv, Reserved
  <2> QED
    BY <2>1, <2>2
<1> QED
  BY <1>1, <1>2, <1>3, Places DEF CInv, Reserved

LEMMA ProcessContact ==
  ASSUME TInv, CInv, FInv, \/ ReadSession \/ ReadDeal \/ Reserve \/ Store \/ Dispatch \/ Send \/ Answer
                           \/ Acknowledge \/ Reject \/ ReadBack \/ Confirm \/ Release \/ Finish
  PROVE  CInv'
<1>0. UNCHANGED deal /\ native.pc \in AtJob
  BY ProcessQuiet
<1>1. ASSUME NEW m \in JobType, NEW w \in NativeType, Works(m, w),
             m.status \in {"ready", "conflict"} => m.contact # "reserved",
             m.contact = "reserved" /\ ~m.generation => "edit" \in Mine.since \/ deal.contact,
             m.previous # None /\ m.contact = "reserved" => m.generation,
             m.dispatched \/ m.generation => m.previous # None,
             w.pc \in {"reserve", "store"} =>
               /\ m.previous = None /\ (m.contact = "reserved" => w.read.contact)
               /\ w.read.contact => deal.contact \/ "edit" \in Mine.since,
             w.pc = "dispatch" \/ (w.pc \in {"session", "deal"} /\ w.round = 2) => m.previous # None,
             w.pc \in {"ready", "conflict"} => m.contact # "reserved"
      PROVE  CInv'
  BY <1>0, <1>1, WorksContact
<1>2. /\ native.key \in Keys /\ Mine = job[native.key] /\ Mine.status = "pending" /\ Mine \in JobType
      /\ Mine.contact \in {"none", "reserved", "pending", "cancelled", "conflict"}
      /\ Mine.generation \in BOOLEAN /\ Mine.dispatched \in BOOLEAN
  BY <1>0, MineFields, JobFields
<1>3. /\ Mine.contact = "reserved" /\ ~Mine.generation => "edit" \in Mine.since \/ deal.contact
      /\ Mine.previous # None /\ Mine.contact = "reserved" => Mine.generation
      /\ Mine.dispatched \/ Mine.generation => Mine.previous # None
  BY <1>2 DEF CInv, Reserved
<1>4. ASSUME NEW m \in JobType, NEW w \in NativeType, Works(m, w),
             m.status \notin {"ready", "conflict"}, m.contact = Mine.contact, m.generation = Mine.generation,
             m.previous = Mine.previous, m.dispatched => Mine.previous # None,
             w.pc \notin {"reserve", "store", "ready", "conflict"},
             w.pc = "dispatch" \/ (w.pc \in {"session", "deal"} /\ w.round = 2) => Mine.previous # None
      PROVE  CInv'
  BY <1>1, <1>3, <1>4
<1>5. native.pc = "dispatch" \/ (native.pc \in {"session", "deal"} /\ native.round = 2) => Mine.previous # None
  BY <1>2 DEF CInv
<1>6. native.pc \in {"reserve", "store"} =>
        /\ Mine.previous = None
        /\ Mine.contact = "reserved" => native.read.contact
        /\ native.read.contact => deal.contact \/ "edit" \in Mine.since
  BY <1>2 DEF CInv, Reserved
<1>7. CASE ReadSession
  <2>1. native.pc = "session"
    BY <1>7 DEF ReadSession, Working
  <2>2. PICK w \in NativeType : Works(Mine, w) /\ w.pc \in {"deal", "release"} /\ w.round = native.round
    BY <1>7, ReadSessionWorks
  <2> QED
    BY <1>2, <1>3, <1>4, <1>5, <2>1, <2>2
<1>8. CASE ReadDeal
  <2>1. native.pc = "deal"
    BY <1>8 DEF ReadDeal, Working
  <2>2. PICK w \in NativeType :
           /\ Works(Mine, w)
           /\ \/ w.pc = "release"
              \/ DealUnchanged /\ native.round = 1 /\ Mine.previous = None /\ w.pc = "reserve" /\ w.read = Identity
              \/ Mine.previous # None /\ w.pc = "session" /\ w.round = 2
              \/ native.round = 2 /\ w.pc = "dispatch"
              \/ w.pc = "confirm"
    BY <1>8, ReadDealWorks
  <2>3. CASE w.pc = "reserve"
    <3>1. Identity.contact = deal.contact /\ "edit" \notin Mine.since /\ Mine.previous = None /\ w.read = Identity
      BY <2>2, <2>3, IdentityType DEF DealUnchanged
    <3>2. Mine.contact = "reserved" => deal.contact
      BY <1>3, <3>1
    <3> QED
      BY <1>1, <1>2, <1>3, <2>2, <2>3, <3>1, <3>2
  <2>4. CASE w.pc # "reserve"
    BY <1>2, <1>3, <1>4, <1>5, <2>1, <2>2, <2>4
  <2> QED
    BY <2>3, <2>4
<1>9. CASE Reserve
  <2>1. native.pc = "reserve"
    BY <1>9 DEF Reserve, Working
  <2>2. PICK m \in JobType, w \in NativeType :
           /\ Works(m, w) /\ w.read = native.read
           /\ m.status = "pending" /\ m.previous = Mine.previous /\ m.dispatched = Mine.dispatched
           /\ m.generation = Mine.generation
           /\ \/ w.pc = "store" /\ ~native.read.contact /\ m = Mine
              \/ /\ w.pc = "store" /\ native.read.contact
                 /\ m.contact = IF Mine.contact = "none" THEN "reserved" ELSE Mine.contact
              \/ w.pc = "release" /\ m = Mine
    BY <1>9, ReserveWorks
  <2> QED
    BY <1>1, <1>3, <1>6, <2>1, <2>2
<1>10. CASE Store
  <2>1. native.pc = "store" /\ native.read \in Identities
    BY <1>10 DEF Store, Working, TInv, Thinks
  <2>2. PICK m \in JobType, w \in NativeType :
           /\ Works(m, w) /\ w.pc = "session" /\ w.round = 2
           /\ m.status = "pending" /\ m.previous = native.read /\ m.generation = native.read.contact
           /\ m.contact = Mine.contact /\ m.dispatched = Mine.dispatched
    BY <1>10, StoreWorks
  <2>3. m.previous # None
    BY <2>1, <2>2, IdentityType
  <2> QED
    BY <1>1, <1>6, <2>1, <2>2, <2>3
<1>11. CASE Dispatch
  <2>1. native.pc = "dispatch"
    BY <1>11 DEF Dispatch, Working
  <2>2. PICK m \in JobType, w \in NativeType :
           /\ Works(m, w) /\ w.pc \in {"acknowledge", "send"}
           /\ m.status = "pending" /\ m.previous = Mine.previous
           /\ m.generation = Mine.generation /\ m.contact = Mine.contact
    BY <1>11, DispatchWorks
  <2> QED
    BY <1>4, <1>5, <2>1, <2>2
<1>12. CASE Send \/ Answer \/ Acknowledge \/ Reject
  <2>1. PICK m \in JobType, w \in NativeType :
           /\ Works(m, w) /\ w.pc \in {"wait", "acknowledge", "reject", "read", "release"}
           /\ m.status = "pending" /\ m.previous = Mine.previous
           /\ m.generation = Mine.generation /\ m.contact = Mine.contact
           /\ m.dispatched => Mine.dispatched
    <3>1. CASE Send
      BY <1>2, <3>1, SendWorks
    <3>2. CASE Answer
      BY <1>2, <3>2, AnswerWorks
    <3>3. CASE Acknowledge
      BY <3>3, AcknowledgeWorks
    <3>4. CASE Reject
      BY <3>4, RejectWorks
    <3> QED
      BY <1>12, <3>1, <3>2, <3>3, <3>4
  <2> QED
    BY <1>3, <1>4, <2>1
<1>13. CASE ReadBack
  <2>1. native.pc = "read"
    BY <1>13 DEF ReadBack, Working
  <2>2. Mine.previous # None
    BY <1>2, <1>3, <2>1 DEF FInv, Placed, After
  <2>3. PICK w \in NativeType : Works(Mine, w) /\ w.pc \in {"idle", "session", "release"}
    BY <1>13, ReadBackWorks, IdleFields
  <2> QED
    BY <1>2, <1>4, <2>2, <2>3
<1>14. CASE Confirm
  <2>1. native.pc = "confirm"
    BY <1>14 DEF Confirm, Working
  <2>2. Mine.previous # None
    BY <1>2, <1>3, <2>1 DEF FInv, Placed, After
  <2>3. PICK m \in JobType, w \in NativeType :
           /\ Works(m, w) /\ w.pc = "ready"
           /\ m.status = "pending" /\ m.previous = Mine.previous /\ m.dispatched = Mine.dispatched
           /\ m.generation = Mine.generation
           /\ m.contact = IF Mine.generation /\ Mine.contact = "reserved" THEN "pending" ELSE Mine.contact
    BY <1>14, ConfirmWorks
  <2>4. m.contact # "reserved"
    BY <1>3, <2>2, <2>3
  <2> QED
    BY <1>1, <1>3, <2>3, <2>4
<1>15. CASE Release
  <2>1. PICK m \in JobType, w \in NativeType :
           /\ Works(m, w) /\ w.pc = "conflict"
           /\ m.status = "pending" /\ m.previous = Mine.previous /\ m.dispatched = Mine.dispatched
           /\ m.generation = Mine.generation /\ m.contact = Released(Mine)
    BY <1>15, ReleaseWorks
  <2>2. m.contact # "reserved"
    BY <1>2, <1>3, <2>1 DEF Released
  <2> QED
    BY <1>1, <1>3, <2>1, <2>2
<1>16. CASE Finish
  <2>1. PICK m \in JobType :
           /\ Works(m, Idle) /\ native.pc \in {"ready", "conflict"}
           /\ m.previous = Mine.previous /\ m.dispatched = Mine.dispatched
           /\ m.generation = Mine.generation /\ m.contact = Mine.contact
    BY <1>16, FinishWorks
  <2>2. Mine.contact # "reserved"
    BY <1>2, <2>1 DEF CInv, Reserved
  <2> QED
    BY <1>1, <1>3, <2>1, <2>2, IdleFields
<1> QED
  BY <1>7, <1>8, <1>9, <1>10, <1>11, <1>12, <1>13, <1>14, <1>15, <1>16

LEMMA ContactStep ==
  ASSUME TInv, FInv, CInv, [Next]_vars
  PROVE  CInv'
<1>1. CASE UNCHANGED vars
  BY <1>1 DEF vars, CInv, ContactSettled, Reserved
<1>2. CASE \/ EditDeal \/ (\E k \in Keys : Apply(k) \/ Lose(k) \/ Take(k)) \/ Write
           \/ (\E m \in Managers : Begin(m)) \/ EndClaim \/ Sweep \/ Guard
           \/ (\E s \in Sessions : Open(s) \/ Move(s) \/ Look(s) \/ \E m \in Managers : Accept(s, m))
           \/ Fence \/ Fails \/ Crash
  BY <1>2, AroundContact
<1>3. CASE Observe
  BY <1>3, ObserveContact
<1>4. CASE \/ ReadSession \/ ReadDeal \/ Reserve \/ Store \/ Dispatch \/ Send \/ Answer
           \/ Acknowledge \/ Reject \/ ReadBack \/ Confirm \/ Release \/ Finish
  BY <1>4, ProcessContact
<1> QED
  BY <1>1, <1>2, <1>3, <1>4 DEF Next, Thread, Process, ClaimSteps

LEMMA InitContact == Init => CInv
<1> SUFFICES ASSUME Init PROVE CInv
  OBVIOUS
<1>1. native.pc = "idle" /\ job = [k \in Keys |-> NoJob]
  BY IdleFields DEF Init
<1>2. NoJob.status = "none" /\ ~NoJob.dispatched /\ ~NoJob.generation /\ NoJob.contact = "none"
  BY DEF NoJob
<1> QED
  BY <1>1, <1>2 DEF CInv, ContactSettled, Reserved

\* A job that has ended leaves no contact job behind that is still reserved.
THEOREM ContactsSettled == Spec => []ContactSettled
<1>1. CInv => ContactSettled
  BY DEF CInv
<1> QED
  BY <1>1, InitContact, ContactStep, TypedInvariance, FencedInvariance, PTL DEF Spec
=============================================================================
