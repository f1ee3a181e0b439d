------------------------------- MODULE SslProofs -------------------------------
(***************************************************************************)
(* Proofs about SslCertificates, for any groups, any number of requests    *)
(* and renewals, and any failures.                                         *)
(*                                                                         *)
(* That the domains of a group show the same certificate is inductive but  *)
(* for the sync, which writes what each lineage covers as it was listed    *)
(* before: the invariant says that every lineage, and every one that was   *)
(* listed, covers a whole site or told no name but its own, as long as no  *)
(* renewal fell back to issuing for one name, no sync wrote one name of a  *)
(* group, and no request was made for a primary domain while isolated.     *)
(*                                                                         *)
(* That rows, lineages and files agree between requests that come one      *)
(* after the other takes a second invariant, Order: what a request leaves  *)
(* of its site in order at each of its steps, and what it has read of it.  *)
(***************************************************************************)
EXTENDS SslCertificates, WellFoundedInduction, TLAPS

Pcs == {"idle", "certbot", "fetch", "persist", "confirm", "enable", "gather", "choose", "write",
        "test", "resolve", "renew", "wait", "fallback", "reload", "drop", "clear", "disable",
        "list", "names", "details", "merge"}
Ops == {None, "issue", "renew", "delete", "sync"}
Outcomes == {None, "RUNNING", "COMPLETED", "FAILED"}
Numbers == 0..MaxRowId
WaitNumbers == 0..MaxWaits
TaskType == [op : Ops, pc : Pcs, name : Names \cup {None}, id : Numbers, secure : BOOLEAN,
             lineage : Sites \cup {None}, alone : BOOLEAN, cert : Certificate, waits : WaitNumbers,
             tls : Sites \cup {None}, left : SUBSET Sites, seen : [Sites -> Certificate], known : [Names -> Numbers]]

\* Where a task is about no domain, where it is about a lineage, and where it renews one.
Syncing == {"idle", "list", "names", "details", "merge"}
OnCertbot == {"renew", "wait", "fallback", "drop", "fetch"}
Renewing == {"renew", "wait", "fallback"}

Formed ==
    \A t \in Tasks :
        /\ tasks[t].pc \notin Syncing => tasks[t].name \in Names
        /\ tasks[t].pc \in OnCertbot \cup {"details"} => tasks[t].lineage \in Sites
        /\ tasks[t].alone => apart /\ narrowed

\* Lineages cover whole sites, and those a sync has listed do too or have told no name.
LineagesWhole ==
    ~narrowed => \A s \in Sites : lineages[s] # None => lineages[s].covers = Members(s)
SeenWhole ==
    ~narrowed => \A t \in Tasks, s \in Sites :
        tasks[t].seen[s].covers = {} \/ tasks[t].seen[s].covers = Members(s)
\* A renewal is about the lineage of its domain's site.
RenewsOwn ==
    ~narrowed => \A t \in Tasks : tasks[t].pc \in Renewing => tasks[t].lineage = SiteOf(tasks[t].name)

Inv == TypeOK /\ Formed /\ LineagesWhole /\ SeenWhole /\ RenewsOwn /\ GroupInStep

-----------------------------------------------------------------------------
(* Sites and certificates *)

LEMMA SiteFacts ==
  /\ Primary \in Names /\ Members(Primary) = Group
  /\ \A n \in Names : SiteOf(n) \in Sites /\ Members(SiteOf(n)) = Members(n) /\ n \in Members(n)
  /\ \A n \in Names : Members(n) \subseteq Names
  /\ \A s \in Sites : s \in Names /\ SiteOf(s) = s
  /\ \A s \in Sites, n \in Names : n \in Members(s) => SiteOf(n) = s
  /\ \A s \in Sites, n \in Group : n \in Members(s) => s = Primary
BY SslAssumption DEF Sites, Names, SiteOf, Members

\* Of any bounded numbers one is the largest.
LEMMA Largest ==
  ASSUME NEW n \in Nat, NEW V, V \subseteq 0..n, V # {}
  PROVE  \E x \in V : \A y \in V : y <= x
<1> DEFINE R == OpToRel(<, Nat)
           T == {k \in Nat : k <= n /\ n - k \in V}
<1>1. IsWellFoundedOn(R, Nat)
  BY NatLessThanWellFounded
<1>2. \A j, k \in Nat : <<j, k>> \in R <=> j < k
  BY DEF OpToRel
<1>3. T \subseteq Nat
  OBVIOUS
<1>4. T # {}
  <2>1. PICK x \in V : TRUE
    OBVIOUS
  <2>2. n - x \in T
    BY <2>1
  <2> QED
    BY <2>2
<1> HIDE DEF R, T
<1>5. PICK k \in T : \A j \in T : <<j, k>> \notin R
  BY <1>1, <1>3, <1>4, WFMin
<1>6. k \in Nat /\ k <= n /\ n - k \in V
  BY <1>5 DEF T
<1>7. ASSUME NEW y \in V PROVE y <= n - k
  <2>1. n - y \in T
    BY <1>7 DEF T
  <2>2. n - y \in Nat /\ ~(n - y < k)
    BY <1>2, <1>3, <1>5, <1>6, <2>1
  <2> QED
    BY <1>6, <2>2
<1> QED
  BY <1>6, <1>7

\* Of the listed lineages that tell of a name, a newest is chosen.
LEMMA BestTells ==
  ASSUME NEW q \in TaskType, NEW n, NEW x \in Sites, n \in Tells(q, x)
  PROVE  Best(q, n) \in Sites /\ n \in Tells(q, Best(q, n))
<1> DEFINE telling == {s \in Sites : n \in Tells(q, s)}
           V == {q.seen[s].version : s \in telling}
<1>1. \A s \in Sites : q.seen[s].version \in 0..MaxVersion
  BY DEF TaskType, Certificate
<1>2. V \subseteq 0..MaxVersion /\ V # {} /\ MaxVersion \in Nat
  BY <1>1, SslAssumption
<1>3. PICK v \in V : \A w \in V : w <= v
  <2> HIDE DEF V
  <2> QED
    BY <1>2, Largest, Zenon
<1>4. \E s \in telling : \A y \in telling : q.seen[y].version <= q.seen[s].version
  BY <1>3
<1>5. Best(q, n) = CHOOSE s \in telling : \A y \in telling : q.seen[y].version <= q.seen[s].version
  BY DEF Best
<1>6. Best(q, n) \in telling
  BY <1>4, <1>5
<1> QED
  BY <1>6

-----------------------------------------------------------------------------
(* Types *)

\* TypeOK, variable by variable.
Typed ==
    /\ lineages \in [Sites -> Certificate \cup {None}]
    /\ certs \in [Names -> SslCert \cup {None}]
    /\ enabled \subseteq Names
    /\ nginx \in [Sites -> File]
    /\ operation \in [Names -> Outcomes]
    /\ tasks \in [Tasks -> TaskType]
    /\ issued \in 0..MaxVersion /\ rowIds \in Numbers
    /\ begun \in 0..MaxBegun /\ faults \in 0..MaxFaults
    /\ overlapped \in BOOLEAN /\ narrowed \in BOOLEAN /\ apart \in BOOLEAN
    /\ bared \subseteq Isolated /\ adopted \subseteq Names

LEMMA TypedOK == (TypeOK <=> Typed) /\ (TypeOK' <=> Typed')
<1>1. TypeOK <=> Typed
  BY DEF TypeOK, Typed, TaskType, Pcs, Ops, Outcomes, Numbers, WaitNumbers
<1>2. TypeOK' <=> Typed'
  BY DEF TypeOK, Typed, TaskType, Pcs, Ops, Outcomes, Numbers, WaitNumbers
<1> QED
  BY <1>1, <1>2

LEMMA NoTaskType ==
  /\ NoTask \in TaskType /\ NoTask.pc = "idle" /\ NoCert \in Certificate
  /\ NoTask.seen = [s \in Sites |-> NoCert] /\ NoCert.covers = {} /\ ~NoTask.alone
<1>1. NoCert \in Certificate /\ NoCert.covers = {}
  BY SslAssumption DEF NoCert, Certificate
<1>2. 0 \in Numbers /\ 0 \in WaitNumbers /\ None \in Ops /\ "idle" \in Pcs
  BY SslAssumption DEF Numbers, WaitNumbers, Ops, Pcs
<1>3. /\ [s \in Sites |-> NoCert] \in [Sites -> Certificate]
      /\ [n \in Names |-> 0] \in [Names -> Numbers]
  BY <1>1, <1>2
<1> QED
  BY <1>1, <1>2, <1>3 DEF NoTask, TaskType

\* What a step changes in a task.
LEMMA TaskFields ==
  ASSUME NEW q \in TaskType, NEW pc \in Pcs, NEW s \in Sites \cup {None}, NEW c \in Certificate,
         NEW w \in WaitNumbers, NEW b \in BOOLEAN, NEW l \in SUBSET Sites, NEW f \in [Sites -> Certificate],
         NEW g \in [Names -> Numbers]
  PROVE  /\ [q EXCEPT !.pc = pc] \in TaskType
         /\ [q EXCEPT !.pc = pc, !.lineage = s] \in TaskType
         /\ [q EXCEPT !.lineage = s, !.pc = pc] \in TaskType
         /\ [q EXCEPT !.pc = pc, !.cert = c] \in TaskType
         /\ [q EXCEPT !.pc = pc, !.waits = w] \in TaskType
         /\ [q EXCEPT !.pc = pc, !.secure = b] \in TaskType
         /\ [q EXCEPT !.pc = pc, !.tls = s] \in TaskType
         /\ [q EXCEPT !.pc = pc, !.left = l] \in TaskType
         /\ [q EXCEPT !.pc = pc, !.lineage = s, !.left = l, !.seen = f] \in TaskType
         /\ [q EXCEPT !.pc = pc, !.lineage = s, !.seen = f] \in TaskType
         /\ [q EXCEPT !.pc = pc, !.known = g] \in TaskType
BY DEF TaskType

\* What a task is about, and where it may go without more.
Same(q, r) == r.name = q.name /\ r.lineage = q.lineage /\ r.seen = q.seen /\ r.alone = q.alone
Onward(from, to) ==
    /\ to \in Syncing \/ from \notin Syncing
    /\ to \in OnCertbot \cup {"details"} => from \in OnCertbot
    /\ to \in Renewing => from \in Renewing

LEMMA Onwards ==
  /\ Onward("fetch", "persist") /\ Onward("renew", "fetch") /\ Onward("renew", "wait")
  /\ Onward("renew", "fallback") /\ Onward("wait", "renew") /\ Onward("fallback", "fetch")
  /\ Onward("resolve", "clear") /\ Onward("drop", "clear")
  /\ \A pc \in {"confirm", "gather", "enable", "reload"} : Onward("persist", pc)
  /\ Onward("confirm", "gather") /\ Onward("enable", "choose") /\ Onward("gather", "choose")
  /\ Onward("clear", "gather") /\ Onward("clear", "disable")
  /\ Onward("choose", "write") /\ Onward("write", "test")
  /\ Onward("list", "names") /\ Onward("names", "merge")
BY DEF Onward, Syncing, OnCertbot, Renewing

\* A step of one task keeps what it is about, or ends it.
Kept(t) ==
    /\ tasks' \in [Tasks -> TaskType] /\ \A u \in Tasks \ {t} : tasks'[u] = tasks[u]
    /\ \/ tasks'[t] = NoTask
       \/ Same(tasks[t], tasks'[t]) /\ Onward(tasks[t].pc, tasks'[t].pc)

KeptTyped(t) == Kept(t) /\ operation' \in [Names -> Outcomes]

LEMMA EndTask ==
  ASSUME Typed, NEW t \in Tasks, NEW o \in {"COMPLETED", "FAILED"}, End(t, o)
  PROVE  KeptTyped(t)
<1>1. tasks' = [tasks EXCEPT ![t] = NoTask]
  BY DEF End
<1>2. Kept(t)
  BY <1>1, NoTaskType DEF Kept, Typed
<1>3. o \in Outcomes
  BY DEF Outcomes
<1>4. operation' \in [Names -> Outcomes]
  BY <1>3 DEF End, Typed
<1> QED
  BY <1>2, <1>4 DEF KeptTyped

LEMMA FailTask ==
  ASSUME Typed, NEW t \in Tasks, Fail(t)
  PROVE  KeptTyped(t)
BY EndTask DEF Fail

LEMMA ContinueTask ==
  ASSUME Typed, NEW t \in Tasks, NEW q \in TaskType, Continue(t, q)
  PROVE  /\ tasks' \in [Tasks -> TaskType] /\ tasks'[t] = q
         /\ \A u \in Tasks \ {t} : tasks'[u] = tasks[u]
         /\ operation' \in [Names -> Outcomes]
<1>1. tasks' = [tasks EXCEPT ![t] = q] /\ operation' = operation
  BY DEF Continue
<1> QED
  BY <1>1 DEF Typed

\* A task goes on, and is about what it was.
LEMMA GoTask ==
  ASSUME Typed, NEW t \in Tasks, NEW pc \in Pcs, Go(t, pc), UNCHANGED operation,
         Onward(tasks[t].pc, pc)
  PROVE  KeptTyped(t)
<1> DEFINE q == [tasks[t] EXCEPT !.pc = pc]
<1>1. tasks[t] \in TaskType /\ tasks \in [Tasks -> TaskType]
  BY DEF Typed
<1>2. q \in TaskType
  BY <1>1 DEF TaskType
<1>3. q.pc = pc /\ Same(tasks[t], q)
  BY <1>1 DEF TaskType, Same
<1>4. tasks' = [tasks EXCEPT ![t] = q]
  BY DEF Go
<1> HIDE DEF q
<1>5. tasks' \in [Tasks -> TaskType] /\ tasks'[t] = q /\ \A u \in Tasks \ {t} : tasks'[u] = tasks[u]
  BY <1>1, <1>2, <1>4
<1> QED
  BY <1>3, <1>5 DEF Kept, KeptTyped, Typed

LEMMA KeptOn ==
  ASSUME Typed, NEW t \in Tasks, NEW q \in TaskType, Continue(t, q),
         Same(tasks[t], q), Onward(tasks[t].pc, q.pc)
  PROVE  KeptTyped(t)
BY ContinueTask DEF Kept, KeptTyped

LEMMA FaultCounted == Typed /\ (Fault \/ UNCHANGED faults) => faults' \in 0..MaxFaults
BY SslAssumption DEF Typed, Fault

\* certbot issues a certificate of names of the server.
LEMMA IssueTyped ==
  ASSUME Typed, NEW s \in Sites, NEW names \in SUBSET Names, Issue(s, names)
  PROVE  /\ lineages' \in [Sites -> Certificate \cup {None}] /\ issued' \in 0..MaxVersion
         /\ lineages'[s].covers = names /\ \A x \in Sites \ {s} : lineages'[x] = lineages[x]
<1> DEFINE c == [version |-> issued + 1, covers |-> names]
<1>1. issued + 1 \in 0..MaxVersion /\ issued' = issued + 1 /\ lineages' = [lineages EXCEPT ![s] = c]
  BY SslAssumption DEF Issue, Typed
<1>2. c \in Certificate /\ c.covers = names
  BY <1>1 DEF Certificate
<1> HIDE DEF c
<1> QED
  BY <1>1, <1>2 DEF Typed

-----------------------------------------------------------------------------
(* The steps of one task *)

\* All but those that give a task its lineage, or tell of one.
LEMMA StepKept ==
  ASSUME TypeOK, Formed, NEW t \in Tasks,
         \/ Fetch(t) \/ Renew(t) \/ Wait(t) \/ Fallback(t) \/ Drop(t) \/ Persist(t) \/ Confirm(t)
         \/ Enable(t) \/ Clear(t) \/ Disable(t) \/ Gather(t) \/ Choose(t) \/ Write(t) \/ Test(t)
         \/ Reload(t) \/ List(t) \/ Read(t) \/ Merge(t)
  PROVE  KeptTyped(t)
<1> DEFINE q == tasks[t]
<1>a. Typed
  BY TypedOK
<1>b. q \in TaskType
  BY <1>a DEF Typed
<1>c. /\ {"fetch", "persist", "confirm", "enable", "gather", "choose", "write", "test", "renew", "wait",
          "fallback", "reload", "clear", "disable", "names", "merge"} \subseteq Pcs
      /\ None \in Sites \cup {None}
  BY DEF Pcs
<1>f. Fail(t) => KeptTyped(t)
  BY <1>a, FailTask
<1>e. End(t, "COMPLETED") => KeptTyped(t)
  BY <1>a, EndTask
<1>0. ASSUME NEW pc \in Pcs, Go(t, pc), UNCHANGED operation,
             Onward(q.pc, pc)
      PROVE  KeptTyped(t)
  BY <1>a, <1>0, GoTask
<1>1. CASE Fetch(t)
  <2>1. CASE Fail(t)
    BY <1>f, <2>1
  <2>2. CASE lineages[q.lineage] # None /\ Continue(t, [q EXCEPT !.pc = "persist", !.cert = lineages[q.lineage]])
    <3> DEFINE r == [q EXCEPT !.pc = "persist", !.cert = lineages[q.lineage]]
    <3>1. q.pc = "fetch" /\ q.lineage \in Sites
      BY <1>1 DEF Fetch, At, Formed, OnCertbot
    <3>2. lineages[q.lineage] \in Certificate
      BY <1>a, <2>2, <3>1 DEF Typed
    <3>3. /\ r \in TaskType /\ r.pc = "persist" /\ Same(q, r)
      BY <1>b, <1>c, <3>2 DEF TaskType, Same
    <3> HIDE DEF r
    <3>4. Continue(t, r)
      BY <2>2 DEF r
    <3> QED
      BY <1>a, <3>1, <3>3, <3>4, Onwards, KeptOn
  <2> QED
    BY <1>1, <2>1, <2>2 DEF Fetch
<1>2. CASE Renew(t)
  <2>1. q.pc = "renew"
    BY <1>2 DEF Renew, At
  <2>2. \/ Fail(t)
        \/ \E pc \in {"fetch", "wait", "fallback"} : Go(t, pc) /\ UNCHANGED operation
    BY <1>2 DEF Renew
  <2> QED
    BY <1>0, <1>c, <1>f, <2>1, <2>2, Onwards
<1>3. CASE Wait(t)
  <2> DEFINE w == IF q.waits < MaxWaits THEN q.waits + 1 ELSE q.waits
             r == [q EXCEPT !.pc = "renew", !.waits = w]
  <2>1. q.pc = "wait" /\ Continue(t, r)
    BY <1>3 DEF Wait, At
  <2>2. w \in WaitNumbers
    BY <1>b, SslAssumption DEF TaskType, WaitNumbers
  <2> HIDE DEF w
  <2>3. /\ r \in TaskType /\ r.pc = "renew" /\ Same(q, r)
    BY <1>b, <1>c, <2>2 DEF TaskType, Same
  <2> HIDE DEF r
  <2> QED
    BY <1>a, <2>1, <2>3, Onwards, KeptOn
<1>4. CASE Fallback(t)
  <2>1. q.pc = "fallback" /\ (Fail(t) \/ (Go(t, "fetch") /\ UNCHANGED operation))
    BY <1>4 DEF Fallback, At
  <2> QED
    BY <1>0, <1>c, <1>f, <2>1, Onwards
<1>5. CASE Drop(t)
  <2>1. q.pc = "drop" /\ (Fail(t) \/ (Go(t, "clear") /\ UNCHANGED operation))
    BY <1>5 DEF Drop, At
  <2> QED
    BY <1>0, <1>c, <1>f, <2>1, Onwards
<1>6. ASSUME NEW pc \in {"confirm", "gather", "enable", "reload"}, q.pc = "persist",
             Continue(t, [q EXCEPT !.pc = pc])
      PROVE  KeptTyped(t)
  <2> DEFINE r == [q EXCEPT !.pc = pc]
  <2>1. r \in TaskType /\ r.pc = pc /\ Same(q, r)
    BY <1>b, <1>c DEF TaskType, Same
  <2>2. Continue(t, r)
    BY <1>6
  <2> HIDE DEF r
  <2> QED
    BY <1>a, <1>6, <2>1, <2>2, Onwards, KeptOn
<1>7. CASE Persist(t)
  <2>1. /\ q.pc = "persist"
        /\ Fail(t) \/ \E pc \in {"confirm", "gather", "enable", "reload"} : Continue(t, [q EXCEPT !.pc = pc])
    BY <1>7 DEF Persist, At
  <2> QED
    BY <1>f, <1>6, <2>1
<1>8. CASE Confirm(t)
  <2>1. q.pc = "confirm" /\ (Fail(t) \/ (Go(t, "gather") /\ UNCHANGED operation))
    BY <1>8 DEF Confirm, At
  <2> QED
    BY <1>0, <1>c, <1>f, <2>1, Onwards
<1>9. ASSUME NEW b \in BOOLEAN, q.pc \in {"enable", "gather"},
             Continue(t, [q EXCEPT !.pc = "choose", !.secure = b])
      PROVE  KeptTyped(t)
  <2> DEFINE r == [q EXCEPT !.pc = "choose", !.secure = b]
  <2>1. r \in TaskType /\ r.pc = "choose" /\ Same(q, r)
    BY <1>b, <1>c DEF TaskType, Same
  <2>2. Continue(t, r)
    BY <1>9
  <2> HIDE DEF r
  <2> QED
    BY <1>a, <1>9, <2>1, <2>2, Onwards, KeptOn
<1>10. CASE Enable(t)
  BY <1>9, <1>10 DEF Enable, At
<1>11. CASE Gather(t)
  <2> DEFINE b == enabled \cap Group # {}
  <2>1. q.pc = "gather" /\ b \in BOOLEAN /\ Continue(t, [q EXCEPT !.pc = "choose", !.secure = b])
    BY <1>11 DEF Gather, At
  <2> HIDE DEF b
  <2> QED
    BY <1>9, <2>1
<1>12. CASE Clear(t)
  <2>1. /\ q.pc = "clear"
        /\ Fail(t) \/ \E pc \in {"gather", "disable"} : Go(t, pc) /\ UNCHANGED operation
    BY <1>12 DEF Clear, At
  <2> QED
    BY <1>0, <1>c, <1>f, <2>1, Onwards
<1>13. CASE Disable(t) \/ Merge(t)
  BY <1>13, <1>e DEF Disable, Merge
<1>14. CASE Choose(t)
  <2>1. ASSUME NEW s \in Sites \cup {None}, Continue(t, [q EXCEPT !.pc = "write", !.tls = s]) PROVE KeptTyped(t)
    <3> DEFINE r == [q EXCEPT !.pc = "write", !.tls = s]
    <3>1. r \in TaskType /\ r.pc = "write" /\ Same(q, r)
      BY <1>b, <1>c DEF TaskType, Same
    <3>2. Continue(t, r) /\ q.pc = "choose"
      BY <1>14, <2>1 DEF Choose, At
    <3> HIDE DEF r
    <3> QED
      BY <1>a, <3>1, <3>2, Onwards, KeptOn
  <2>2. Usable(q) \subseteq Sites
    BY DEF Usable, Covering
  <2> QED
    BY <1>14, <1>c, <1>f, <2>1, <2>2 DEF Choose
<1>15. CASE Write(t)
  <2>1. q.pc = "write" /\ (Fail(t) \/ (Go(t, "test") /\ UNCHANGED operation))
    BY <1>15 DEF Write, At
  <2> QED
    BY <1>0, <1>c, <1>f, <2>1, Onwards
<1>16. CASE Test(t) \/ Reload(t)
  BY <1>16, <1>e, <1>f DEF Test, Reload
<1>17. CASE Read(t)
  <2> DEFINE known == [n \in Names |-> IdOf(n)]
             r == [q EXCEPT !.pc = "merge", !.known = known]
  <2>1. q.pc = "names" /\ Continue(t, r)
    BY <1>17 DEF Read, At
  <2>2. known \in [Names -> Numbers]
    <3>1. \A n \in Names : certs[n] \in SslCert \cup {None}
      BY <1>a DEF Typed
    <3>2. \A n \in Names : IdOf(n) \in Numbers
      BY <3>1, SslAssumption DEF IdOf, SslCert, Numbers
    <3> QED
      BY <3>2
  <2> HIDE DEF known
  <2>3. r \in TaskType /\ r.pc = "merge" /\ Same(q, r)
    BY <1>b, <1>c, <2>2 DEF TaskType, Same
  <2> HIDE DEF r
  <2> QED
    BY <1>a, <2>1, <2>3, Onwards, KeptOn
<1>18. CASE List(t)
  <2>1. ASSUME NEW l \in SUBSET Sites, Continue(t, [q EXCEPT !.pc = "names", !.left = l]) PROVE KeptTyped(t)
    <3> DEFINE r == [q EXCEPT !.pc = "names", !.left = l]
    <3>1. r \in TaskType /\ r.pc = "names" /\ Same(q, r)
      BY <1>b, <1>c DEF TaskType, Same
    <3>2. Continue(t, r) /\ q.pc = "list"
      BY <1>18, <2>1 DEF List, At
    <3> HIDE DEF r
    <3> QED
      BY <1>a, <3>1, <3>2, Onwards, KeptOn
  <2>2. {x \in Sites : lineages[x] # None} \in SUBSET Sites /\ {} \in SUBSET Sites
    OBVIOUS
  <2> QED
    BY <1>18, <1>f, <2>1, <2>2 DEF List
<1> QED
  BY <1>1, <1>2, <1>3, <1>4, <1>5, <1>7, <1>8, <1>10, <1>11, <1>12, <1>13, <1>14, <1>15, <1>16, <1>17, <1>18

\* A task gets its lineage.
LEMMA CertbotTask ==
  ASSUME TypeOK, Formed, NEW t \in Tasks, Certbot(t)
  PROVE  /\ operation' \in [Names -> Outcomes]
         /\ \/ Kept(t)
            \/ /\ tasks' \in [Tasks -> TaskType] /\ \A u \in Tasks \ {t} : tasks'[u] = tasks[u]
               /\ tasks'[t].pc = "fetch" /\ tasks'[t].name = tasks[t].name /\ tasks'[t].alone = tasks[t].alone
               /\ tasks'[t].lineage \in Sites /\ tasks'[t].seen = tasks[t].seen
               /\ tasks[t].name \in Names
<1> DEFINE q == tasks[t]
           s == SiteOf(q.name)
           r == [q EXCEPT !.pc = "fetch", !.lineage = s]
<1>a. Typed
  BY TypedOK
<1>b. q \in TaskType /\ "fetch" \in Pcs
  BY <1>a DEF Typed, Pcs
<1>1. q.name \in Names
  BY DEF Certbot, At, Formed, Syncing
<1>2. s \in Sites
  BY <1>1, SiteFacts
<1>3. Continue(t, r) \/ Fail(t)
  BY DEF Certbot
<1> HIDE DEF s
<1>4. r \in TaskType /\ r.pc = "fetch" /\ r.name = q.name /\ r.lineage = s /\ r.seen = q.seen /\ r.alone = q.alone
  BY <1>b, <1>2 DEF TaskType
<1> HIDE DEF r
<1>5. CASE Continue(t, r)
  BY <1>a, <1>1, <1>2, <1>4, <1>5, ContinueTask
<1>6. CASE Fail(t)
  BY <1>a, <1>6, FailTask DEF KeptTyped
<1> QED
  BY <1>3, <1>5, <1>6

LEMMA ResolveTask ==
  ASSUME TypeOK, Formed, NEW t \in Tasks, Resolve(t)
  PROVE  /\ operation' \in [Names -> Outcomes]
         /\ \/ Kept(t)
            \/ /\ tasks' \in [Tasks -> TaskType] /\ \A u \in Tasks \ {t} : tasks'[u] = tasks[u]
               /\ tasks'[t].pc \in {"renew", "drop"}
               /\ tasks'[t].name = tasks[t].name /\ tasks'[t].alone = tasks[t].alone
               /\ tasks'[t].lineage \in Covering(tasks[t].name) /\ tasks'[t].seen = tasks[t].seen
               /\ tasks[t].name \in Names
<1> DEFINE q == tasks[t]
<1>a. Typed
  BY TypedOK
<1>b. q \in TaskType /\ {"renew", "drop", "clear"} \subseteq Pcs
  BY <1>a DEF Typed, Pcs
<1>1. q.name \in Names /\ q.pc = "resolve"
  BY DEF Resolve, At, Formed, Syncing
<1>2. CASE \E s \in Covering(q.name) :
              Continue(t, [q EXCEPT !.lineage = s, !.pc = IF q.op = "renew" THEN "renew" ELSE "drop"])
  <2>1. PICK s \in Covering(q.name), pc \in {"renew", "drop"} :
           Continue(t, [q EXCEPT !.lineage = s, !.pc = pc])
    BY <1>2
  <2> DEFINE r == [q EXCEPT !.lineage = s, !.pc = pc]
  <2>2. s \in Sites
    BY <2>1 DEF Covering
  <2>3. r \in TaskType /\ r.pc = pc /\ r.name = q.name /\ r.lineage = s /\ r.seen = q.seen /\ r.alone = q.alone
    BY <1>b, <2>1, <2>2 DEF TaskType
  <2>4. Continue(t, r)
    BY <2>1
  <2> HIDE DEF r
  <2> QED
    BY <1>a, <1>1, <2>1, <2>3, <2>4, ContinueTask
<1>3. CASE Continue(t, [q EXCEPT !.pc = "clear"])
  <2> DEFINE r == [q EXCEPT !.pc = "clear"]
  <2>1. r \in TaskType /\ r.pc = "clear" /\ Same(q, r)
    BY <1>b DEF TaskType, Same
  <2>2. Continue(t, r)
    BY <1>3
  <2> HIDE DEF r
  <2> QED
    BY <1>a, <1>1, <2>1, <2>2, Onwards, KeptOn DEF KeptTyped
<1>4. CASE Fail(t)
  BY <1>a, <1>4, FailTask DEF KeptTyped
<1> QED
  BY <1>2, <1>3, <1>4 DEF Resolve

\* A sync reads the names of a certificate, and then the rest of it.
NamesRead(t, s) ==
    /\ tasks[t].pc = "names" /\ s \in tasks[t].left
    /\ tasks'[t].pc = "details" /\ tasks'[t].lineage = s /\ tasks'[t].left = tasks[t].left \ {s}
    /\ \/ tasks'[t].seen[s].covers = IF lineages[s] = None THEN {} ELSE lineages[s].covers
       \/ Fault /\ tasks'[t].seen[s].covers = {}
RestRead(t, s) ==
    /\ tasks[t].pc = "details" /\ s = tasks[t].lineage /\ lineages[s] # None
    /\ tasks'[t].pc = "names" /\ tasks'[t].left = tasks[t].left
    /\ tasks'[t].seen[s].covers = tasks[t].seen[s].covers
    /\ tasks'[t].seen[s].version = lineages[s].version
ReadOf(t, s) ==
    /\ tasks' \in [Tasks -> TaskType] /\ \A u \in Tasks \ {t} : tasks'[u] = tasks[u]
    /\ tasks'[t].name = tasks[t].name /\ tasks'[t].alone = tasks[t].alone
    /\ \A x \in Sites \ {s} : tasks'[t].seen[x] = tasks[t].seen[x]
    /\ NamesRead(t, s) \/ RestRead(t, s)

LEMMA ReadTask ==
  ASSUME TypeOK, Formed, NEW t \in Tasks, ReadNames(t) \/ Details(t)
  PROVE  /\ operation' \in [Names -> Outcomes]
         /\ (Fail(t) /\ Kept(t)) \/ \E s \in Sites : ReadOf(t, s)
<1> DEFINE q == tasks[t]
           known(s) == IF lineages[s] = None THEN {} ELSE lineages[s].covers
<1>a. Typed
  BY TypedOK
<1>b. q \in TaskType /\ {"names", "details"} \subseteq Pcs
  BY <1>a DEF Typed, Pcs
<1>f. Fail(t) => operation' \in [Names -> Outcomes] /\ Kept(t)
  BY <1>a, FailTask DEF KeptTyped
<1>1. CASE ReadNames(t)
  <2>1. /\ q.pc = "names"
        /\ \/ Fail(t)
           \/ \E s \in q.left, names \in SUBSET Names :
                 /\ names = known(s) \/ (Fault /\ names = {})
                 /\ Continue(t, [q EXCEPT !.pc = "details", !.lineage = s, !.left = @ \ {s},
                                          !.seen[s].covers = names])
    <3>1. \A s \in q.left : known(s) \in SUBSET Names /\ {} \in SUBSET Names
      BY <1>a, <1>b DEF Typed, TaskType, Certificate
    <3> HIDE DEF known
    <3>2. /\ q.pc = "names"
          /\ \/ Fail(t)
             \/ \E s \in q.left :
                   Continue(t, [q EXCEPT !.pc = "details", !.lineage = s, !.left = @ \ {s},
                                         !.seen[s].covers = known(s)])
             \/ Fault /\ \E s \in q.left :
                   Continue(t, [q EXCEPT !.pc = "details", !.lineage = s, !.left = @ \ {s},
                                         !.seen[s].covers = {}])
      BY <1>1 DEF ReadNames, At, known
    <3> QED
      BY <3>1, <3>2
  <2>2. ASSUME NEW s \in q.left, NEW names \in SUBSET Names,
               names = known(s) \/ (Fault /\ names = {}),
               Continue(t, [q EXCEPT !.pc = "details", !.lineage = s, !.left = @ \ {s}, !.seen[s].covers = names])
        PROVE  operation' \in [Names -> Outcomes] /\ s \in Sites /\ ReadOf(t, s)
    <3> DEFINE c == [q.seen[s] EXCEPT !.covers = names]
               f == [q.seen EXCEPT ![s] = c]
               l == q.left \ {s}
               r == [q EXCEPT !.pc = "details", !.lineage = s, !.left = l, !.seen = f]
    <3>1. s \in Sites /\ q.seen[s] \in Certificate /\ q.seen \in [Sites -> Certificate] /\ l \in SUBSET Sites
      BY <1>b DEF TaskType
    <3>2. c \in Certificate /\ c.covers = names
      BY <3>1 DEF Certificate
    <3>3. [q EXCEPT !.pc = "details", !.lineage = s, !.left = @ \ {s}, !.seen[s].covers = names] = r
      BY <1>b DEF TaskType
    <3> HIDE DEF c
    <3>4. f \in [Sites -> Certificate] /\ f[s] = c /\ \A x \in Sites \ {s} : f[x] = q.seen[x]
      BY <3>1, <3>2
    <3> HIDE DEF f, l
    <3>5. /\ r \in TaskType /\ r.pc = "details" /\ r.lineage = s /\ r.left = l /\ r.seen = f
          /\ r.name = q.name /\ r.alone = q.alone
      BY <1>b, <3>1, <3>4 DEF TaskType
    <3>6. Continue(t, r)
      BY <2>2, <3>3
    <3> HIDE DEF r
    <3>7. /\ tasks' \in [Tasks -> TaskType] /\ tasks'[t] = r /\ operation' \in [Names -> Outcomes]
          /\ \A u \in Tasks \ {t} : tasks'[u] = tasks[u]
      BY <1>a, <3>5, <3>6, ContinueTask
    <3>8. tasks'[t].seen[s].covers = names /\ tasks'[t].left = q.left \ {s}
      BY <3>2, <3>4, <3>5, <3>7 DEF l
    <3>9. NamesRead(t, s)
      BY <2>1, <2>2, <3>5, <3>7, <3>8 DEF NamesRead
    <3> QED
      BY <3>1, <3>4, <3>5, <3>7, <3>9 DEF ReadOf
  <2>3. CASE Fail(t)
    BY <1>f, <2>3
  <2>4. CASE ~Fail(t)
    <3>1. PICK s \in q.left, names \in SUBSET Names :
             /\ names = known(s) \/ (Fault /\ names = {})
             /\ Continue(t, [q EXCEPT !.pc = "details", !.lineage = s, !.left = @ \ {s}, !.seen[s].covers = names])
      BY <2>1, <2>4
    <3> QED
      BY <2>1, <2>2, <3>1
  <2> QED
    BY <2>3, <2>4
<1>2. CASE Details(t)
  <2> DEFINE s == q.lineage
             c == [q.seen[s] EXCEPT !.version = lineages[s].version]
             f == [q.seen EXCEPT ![s] = c]
             r == [q EXCEPT !.pc = "names", !.lineage = None, !.seen = f]
  <2>1. q.pc = "details" /\ s \in Sites
    BY <1>2 DEF Details, At, Formed
  <2>2. \/ Fail(t)
        \/ /\ lineages[s] # None
           /\ Continue(t, [q EXCEPT !.pc = "names", !.lineage = None, !.seen[s].version = lineages[s].version])
    BY <1>2 DEF Details
  <2>3. CASE Fail(t)
    BY <1>f, <2>3
  <2>4. CASE /\ lineages[s] # None
             /\ Continue(t, [q EXCEPT !.pc = "names", !.lineage = None, !.seen[s].version = lineages[s].version])
    <3>1. lineages[s] \in Certificate /\ q.seen[s] \in Certificate /\ q.seen \in [Sites -> Certificate]
      BY <1>a, <1>b, <2>1, <2>4 DEF Typed, TaskType
    <3>2. c \in Certificate /\ c.covers = q.seen[s].covers /\ c.version = lineages[s].version
      BY <3>1 DEF Certificate
    <3>3. [q EXCEPT !.pc = "names", !.lineage = None, !.seen[s].version = lineages[s].version] = r
      BY <1>b DEF TaskType
    <3> HIDE DEF c
    <3>4. f \in [Sites -> Certificate] /\ f[s] = c /\ \A x \in Sites \ {s} : f[x] = q.seen[x]
      BY <2>1, <3>1, <3>2
    <3> HIDE DEF f
    <3>5. /\ r \in TaskType /\ r.pc = "names" /\ r.left = q.left /\ r.seen = f
          /\ r.name = q.name /\ r.alone = q.alone
      BY <1>b, <3>4 DEF TaskType
    <3>6. Continue(t, r)
      BY <2>4, <3>3
    <3> HIDE DEF r
    <3>7. /\ tasks' \in [Tasks -> TaskType] /\ tasks'[t] = r /\ operation' \in [Names -> Outcomes]
          /\ \A u \in Tasks \ {t} : tasks'[u] = tasks[u]
      BY <1>a, <3>5, <3>6, ContinueTask
    <3>8. RestRead(t, s)
      BY <2>1, <2>4, <3>2, <3>4, <3>5, <3>7 DEF RestRead
    <3> QED
      BY <2>1, <3>4, <3>5, <3>7, <3>8 DEF ReadOf
  <2> QED
    BY <2>2, <2>3, <2>4
<1> QED
  BY <1>1, <1>2

-----------------------------------------------------------------------------
(* Rows *)

LEMMA RecordedRows ==
  ASSUME Typed, NEW names \in SUBSET Names, NEW cert \in Certificate, Recorded(names, cert)
  PROVE  /\ rowIds' \in Numbers /\ certs' \in [Names -> SslCert \cup {None}]
         /\ \A n \in names : certs'[n] # None /\ certs'[n].cert = cert
         /\ \A n \in Names \ names : certs'[n] = certs[n]
<1> DEFINE id(n) == IF certs[n] = None THEN rowIds + 1 ELSE IdOf(n)
           row(n) == [id |-> id(n), cert |-> cert]
<1>1. rowIds' \in Numbers /\ ((\E n \in names : certs[n] = None) => rowIds + 1 \in 1..MaxRowId)
  BY SslAssumption DEF Recorded, Typed, Numbers
<1>2. \A n \in names : id(n) \in 1..MaxRowId
  BY <1>1 DEF Typed, IdOf, SslCert
<1> HIDE DEF id
<1>3. \A n \in names : row(n) \in SslCert /\ row(n).cert = cert
  BY <1>2 DEF SslCert
<1>4. certs' = [n \in Names |-> IF n \notin names THEN certs[n] ELSE row(n)]
  BY DEF Recorded, Persisted, id
<1> HIDE DEF row
<1>5. certs' \in [Names -> SslCert \cup {None}]
  BY <1>3, <1>4 DEF Typed
<1>6. \A n \in names : certs'[n] = row(n)
  BY <1>4
<1>7. \A n \in names : certs'[n] # None /\ certs'[n].cert = cert
  BY <1>3, <1>6, NoneIsNoCertificate
<1>8. \A n \in Names \ names : certs'[n] = certs[n]
  BY <1>4
<1> QED
  BY <1>1, <1>5, <1>7, <1>8

Found(q) == UNION {Tells(q, s) : s \in Sites}

LEMMA MergedRows ==
  ASSUME Typed, NEW t \in Tasks, Merge(t)
  PROVE  /\ rowIds' \in Numbers /\ certs' \in [Names -> SslCert \cup {None}]
         /\ enabled' \subseteq Names /\ adopted' \subseteq Names /\ narrowed' \in BOOLEAN
         /\ narrowed => narrowed'
         /\ \/ UNCHANGED <<certs, enabled, narrowed, adopted>>
            \/ /\ \A n \in Found(tasks[t]) : certs'[n] # None /\ certs'[n].cert = tasks[t].seen[Best(tasks[t], n)]
               /\ \A n \in Names \ Found(tasks[t]) : certs'[n] = certs[n]
               /\ enabled' = enabled \cup Found(tasks[t])
               /\ adopted' = adopted \cup {n \in Found(tasks[t]) : certs[n] = None}
               /\ Primary \in Found(tasks[t]) /\ ~narrowed' => Group \subseteq Found(tasks[t])
<1> DEFINE q == tasks[t]
           found == Found(q)
           new == {n \in found : certs[n] = None}
           id(n) == IF n \in new THEN rowIds + 1 ELSE IdOf(n)
           row(n) == [id |-> id(n), cert |-> q.seen[Best(q, n)]]
<1>1. q \in TaskType
  BY DEF Typed
<1>2. found \subseteq Names
  <2>1. \A s \in Sites : Tells(q, s) \subseteq Names
    BY <1>1, SiteFacts DEF Tells, TaskType, Certificate
  <2> QED
    BY <2>1 DEF Found
<1>3. \A n \in found : Best(q, n) \in Sites
  BY <1>1, BestTells DEF Found
<1>4. \A n \in found : q.seen[Best(q, n)] \in Certificate
  BY <1>1, <1>3 DEF TaskType
<1>5. /\ new # {} => rowIds < MaxRowId
      /\ \/ UNCHANGED <<certs, enabled, rowIds, narrowed, adopted>>
         \/ /\ certs' = [n \in Names |-> IF n \notin found THEN certs[n] ELSE row(n)]
            /\ enabled' = enabled \cup found /\ adopted' = adopted \cup new
            /\ rowIds' = IF new = {} THEN rowIds ELSE rowIds + 1
            /\ narrowed' = (narrowed \/ (Primary \in found /\ ~(Group \subseteq found)))
  BY DEF Merge, Found
<1>6. CASE UNCHANGED <<certs, enabled, rowIds, narrowed, adopted>>
  BY <1>6 DEF Typed
<1>7. CASE /\ certs' = [n \in Names |-> IF n \notin found THEN certs[n] ELSE row(n)]
           /\ enabled' = enabled \cup found /\ adopted' = adopted \cup new
           /\ rowIds' = IF new = {} THEN rowIds ELSE rowIds + 1
           /\ narrowed' = (narrowed \/ (Primary \in found /\ ~(Group \subseteq found)))
  <2>0. (narrowed \/ (Primary \in found /\ ~(Group \subseteq found))) \in BOOLEAN
    OBVIOUS
  <2>9. /\ narrowed' \in BOOLEAN /\ (narrowed => narrowed')
        /\ Primary \in found /\ ~narrowed' => Group \subseteq found
    BY <1>7, <2>0
  <2>1. rowIds' \in Numbers /\ (new # {} => rowIds + 1 \in 1..MaxRowId)
    BY <1>5, <1>7, SslAssumption DEF Typed, Numbers
  <2>2. \A n \in found : id(n) \in 1..MaxRowId
    BY <1>2, <2>1 DEF Typed, IdOf, SslCert
  <2>3. enabled' \subseteq Names /\ adopted' \subseteq Names
    BY <1>2, <1>7 DEF Typed
  <2> HIDE DEF id, found, new
  <2>4. \A n \in found : row(n) \in SslCert /\ row(n).cert = q.seen[Best(q, n)]
    BY <1>4, <2>2 DEF SslCert
  <2> HIDE DEF row
  <2>5. certs' \in [Names -> SslCert \cup {None}]
    BY <1>7, <2>4 DEF Typed
  <2>6. \A n \in found : certs'[n] = row(n)
    BY <1>2, <1>7
  <2>7. \A n \in found : certs'[n] # None /\ certs'[n].cert = q.seen[Best(q, n)]
    BY <2>4, <2>6, NoneIsNoCertificate
  <2>8. \A n \in Names \ found : certs'[n] = certs[n]
    BY <1>7
  <2> QED
    BY <1>7, <2>1, <2>3, <2>5, <2>7, <2>8, <2>9 DEF found, new
<1> QED
  BY <1>5, <1>6, <1>7

-----------------------------------------------------------------------------
(* Every step keeps the types *)

LEMMA StepTyped ==
  ASSUME TypeOK, Formed, NEW t \in Tasks, Step(t)
  PROVE  Typed'
<1> DEFINE q == tasks[t]
           s == q.lineage
<1>a. Typed /\ q \in TaskType
  BY TypedOK DEF Typed
<1>t. tasks' \in [Tasks -> TaskType] /\ operation' \in [Names -> Outcomes]
  <2>1. CASE Certbot(t) \/ Resolve(t) \/ ReadNames(t) \/ Details(t)
    BY <2>1, CertbotTask, ResolveTask, ReadTask DEF Kept, ReadOf
  <2>2. CASE ~(Certbot(t) \/ Resolve(t) \/ ReadNames(t) \/ Details(t))
    BY <2>2, StepKept DEF Step, KeptTyped, Kept
  <2> QED
    BY <2>1, <2>2
<1>f. (Fault \/ UNCHANGED faults) => faults' \in 0..MaxFaults
  BY <1>a, FaultCounted
<1>n. /\ q.pc \notin Syncing => q.name \in Names
      /\ q.pc \in OnCertbot => s \in Sites
  BY DEF Formed
<1>1. CASE Certbot(t)
  <2>1. q.name \in Names
    BY <1>1, <1>n DEF Certbot, At, Syncing
  <2>2. SiteOf(q.name) \in Sites /\ Concerns(q) \in SUBSET Names
    BY <2>1, SiteFacts DEF Concerns
  <2>3. /\ UNCHANGED <<lineages, issued>> \/ Issue(SiteOf(q.name), Concerns(q))
        /\ Fault \/ UNCHANGED faults
    BY <1>1 DEF Certbot
  <2>4. lineages' \in [Sites -> Certificate \cup {None}] /\ issued' \in 0..MaxVersion
    BY <1>a, <2>2, <2>3, IssueTyped DEF Typed
  <2> QED
    BY <1>1, <1>a, <1>t, <1>f, <2>3, <2>4 DEF Certbot, Typed
<1>2. CASE Renew(t)
  <2>1. s \in Sites
    BY <1>2, <1>n DEF Renew, At, OnCertbot
  <2>2. /\ UNCHANGED <<lineages, issued>> \/ (lineages[s] # None /\ Issue(s, lineages[s].covers))
        /\ Fault \/ UNCHANGED faults
    BY <1>2 DEF Renew
  <2>3. lineages[s] # None => lineages[s].covers \in SUBSET Names
    BY <1>a, <2>1 DEF Typed, Certificate
  <2>4. lineages' \in [Sites -> Certificate \cup {None}] /\ issued' \in 0..MaxVersion
    BY <1>a, <2>1, <2>2, <2>3, IssueTyped DEF Typed
  <2> QED
    BY <1>2, <1>a, <1>t, <1>f, <2>2, <2>4 DEF Renew, Typed
<1>3. CASE Fallback(t)
  <2>1. s \in Sites /\ {q.name} \in SUBSET Names
    BY <1>3, <1>n DEF Fallback, At, OnCertbot, Syncing
  <2>2. /\ UNCHANGED <<lineages, issued, narrowed>>
           \/ (Issue(s, {q.name}) /\ narrowed' = (narrowed \/ q.name \in Group))
        /\ Fault \/ UNCHANGED faults
    BY <1>3 DEF Fallback
  <2>3. lineages' \in [Sites -> Certificate \cup {None}] /\ issued' \in 0..MaxVersion
    BY <1>a, <2>1, <2>2, IssueTyped DEF Typed
  <2>4. narrowed' \in BOOLEAN
    BY <1>a, <2>2 DEF Typed
  <2> QED
    BY <1>3, <1>a, <1>t, <1>f, <2>2, <2>3, <2>4 DEF Fallback, Typed
<1>4. CASE Drop(t)
  <2>1. /\ UNCHANGED <<lineages, bared>>
           \/ (lineages' = [lineages EXCEPT ![s] = None] /\ bared' = bared \cup ({s} \cap Isolated))
        /\ Fault \/ UNCHANGED faults
    BY <1>4 DEF Drop
  <2>2. lineages' \in [Sites -> Certificate \cup {None}] /\ bared' \subseteq Isolated
    BY <1>a, <2>1 DEF Typed
  <2> QED
    BY <1>4, <1>a, <1>t, <1>f, <2>1, <2>2 DEF Drop, Typed
<1>5. CASE Persist(t)
  <2>1. q.name \in Names /\ {q.name} \in SUBSET Names /\ Group \in SUBSET Names
    BY <1>5, <1>n DEF Persist, At, Syncing, Names
  <2>2. q.cert \in Certificate
    BY <1>a DEF TaskType
  <2>3. /\ UNCHANGED <<certs, rowIds>> \/ Recorded(Group, q.cert) \/ Recorded({q.name}, q.cert)
        /\ enabled' \in {enabled, enabled \cup Group}
    BY <1>5 DEF Persist
  <2>4. rowIds' \in Numbers /\ certs' \in [Names -> SslCert \cup {None}]
    BY <1>a, <2>1, <2>2, <2>3, RecordedRows DEF Typed
  <2>5. enabled' \subseteq Names
    BY <1>a, <2>1, <2>3 DEF Typed
  <2> QED
    BY <1>5, <1>a, <1>t, <2>4, <2>5 DEF Persist, Typed
<1>6. CASE Clear(t)
  <2>1. /\ UNCHANGED certs
           \/ certs' = [m \in Names |-> IF m \in Cleared(q) THEN None ELSE certs[m]]
        /\ enabled' \subseteq enabled
    BY <1>6 DEF Clear
  <2>2. certs' \in [Names -> SslCert \cup {None}] /\ enabled' \subseteq Names
    BY <1>a, <2>1 DEF Typed
  <2> QED
    BY <1>6, <1>a, <1>t, <2>2 DEF Clear, Typed
<1>7. CASE Merge(t)
  BY <1>7, <1>a, <1>t, MergedRows DEF Merge, Typed
<1>8. CASE Enable(t) \/ Disable(t)
  <2>1. enabled' \subseteq Names
    BY <1>8, <1>a, <1>n DEF Enable, Disable, At, Syncing, Typed
  <2> QED
    BY <1>8, <1>a, <1>t, <2>1 DEF Enable, Disable, Typed
<1>9. CASE Write(t) \/ Test(t)
  <2>1. q.tls \in Sites \cup {None}
    BY <1>a DEF TaskType
  <2>2. \E x \in Sites \cup {None}, b \in BOOLEAN : \E y :
           nginx' \in {nginx, [nginx EXCEPT ![y] = [there |-> b, tls |-> x]]}
    <3>1. CASE Write(t)
      BY <3>1, <2>1 DEF Write
    <3>2. CASE Test(t)
      BY <3>2 DEF Test, Removed
    <3> QED
      BY <1>9, <3>1, <3>2
  <2>3. nginx' \in [Sites -> File]
    BY <1>a, <2>2 DEF Typed, File
  <2>4. Fault \/ UNCHANGED faults
    BY <1>9 DEF Write, Test
  <2> QED
    BY <1>9, <1>a, <1>t, <1>f, <2>3, <2>4 DEF Write, Test, Typed
<1>10. CASE Fetch(t) \/ Resolve(t)
  <2>1. Fault \/ UNCHANGED faults
    BY <1>10 DEF Fetch, Resolve
  <2> QED
    BY <1>10, <1>a, <1>t, <1>f, <2>1 DEF Fetch, Resolve, Typed
<1>11. CASE Choose(t) \/ Reload(t) \/ List(t) \/ ReadNames(t) \/ Details(t)
  <2>1. Fault \/ UNCHANGED faults
    BY <1>11 DEF Choose, Reload, List, ReadNames, Details
  <2> QED
    BY <1>11, <1>a, <1>t, <1>f, <2>1 DEF Choose, Reload, List, ReadNames, Details, Typed
<1>12. CASE Wait(t) \/ Confirm(t) \/ Gather(t) \/ Read(t)
  BY <1>12, <1>a, <1>t DEF Wait, Confirm, Gather, Read, Typed
<1> QED
  BY <1>1, <1>2, <1>3, <1>4, <1>5, <1>6, <1>7, <1>8, <1>9, <1>10, <1>11, <1>12 DEF Step

\* A request begins.
LEMMA ArrivesTask ==
  ASSUME TypeOK, NEW t \in Tasks, Arrives(t)
  PROVE  /\ tasks' \in [Tasks -> TaskType] /\ operation' \in [Names -> Outcomes]
         /\ \A u \in Tasks \ {t} : tasks'[u] = tasks[u]
         /\ tasks'[t].pc \in {"certbot", "resolve", "list"} /\ tasks'[t].seen = [s \in Sites |-> NoCert]
         /\ tasks'[t].pc # "list" => tasks'[t].name \in Names
         /\ tasks'[t].alone => tasks'[t].name = Primary
         /\ narrowed' \in BOOLEAN /\ apart' \in BOOLEAN
         /\ narrowed' <=> narrowed \/ tasks'[t].alone
         /\ apart' <=> apart \/ tasks'[t].alone
<1>a. Typed
  BY TypedOK
<1>b. /\ {"certbot", "resolve", "list"} \subseteq Pcs /\ {"issue", "renew", "delete", "sync"} \subseteq Ops
      /\ "RUNNING" \in Outcomes
  BY DEF Pcs, Ops, Outcomes
<1>1. ASSUME NEW n \in Names, NEW alone \in BOOLEAN, NEW op \in {"issue", "renew", "delete"},
             NEW pc \in {"certbot", "resolve"}
      PROVE  /\ On(n, alone, op, pc) \in TaskType /\ On(n, alone, op, pc).pc = pc
             /\ On(n, alone, op, pc).name = n /\ On(n, alone, op, pc).alone = alone
             /\ On(n, alone, op, pc).seen = [s \in Sites |-> NoCert]
  <2> DEFINE id == IdOf(n)
             b == n \in enabled
  <2>1. certs[n] \in SslCert \cup {None}
    BY <1>a DEF Typed
  <2>2. id \in Numbers /\ b \in BOOLEAN /\ op \in Ops /\ pc \in Pcs
    BY <1>b, <2>1, SslAssumption DEF IdOf, SslCert, Numbers
  <2>3. On(n, alone, op, pc) = [NoTask EXCEPT !.op = op, !.pc = pc, !.name = n, !.id = id, !.alone = alone,
                                              !.secure = b]
    BY DEF On
  <2> HIDE DEF id, b
  <2>4. NoTask \in TaskType /\ n \in Names \cup {None}
    BY NoTaskType
  <2>5. On(n, alone, op, pc) \in TaskType
    BY <2>2, <2>3, <2>4 DEF TaskType
  <2>6. /\ On(n, alone, op, pc).pc = pc /\ On(n, alone, op, pc).name = n
        /\ On(n, alone, op, pc).alone = alone /\ On(n, alone, op, pc).seen = NoTask.seen
    BY <2>3, <2>4 DEF TaskType
  <2> QED
    BY <2>5, <2>6, NoTaskType
<1>2. ASSUME NEW q \in TaskType, Begin(t, q)
      PROVE  /\ tasks' \in [Tasks -> TaskType] /\ tasks'[t] = q
             /\ \A u \in Tasks \ {t} : tasks'[u] = tasks[u]
             /\ narrowed' \in BOOLEAN /\ apart' \in BOOLEAN
             /\ narrowed' <=> narrowed \/ q.alone
             /\ apart' <=> apart \/ q.alone
  <2>1. (narrowed \/ q.alone) \in BOOLEAN /\ (apart \/ q.alone) \in BOOLEAN
    OBVIOUS
  <2>2. narrowed' = (narrowed \/ q.alone) /\ apart' = (apart \/ q.alone)
    BY <1>2 DEF Begin
  <2>3. /\ tasks' \in [Tasks -> TaskType] /\ tasks'[t] = q
        /\ \A u \in Tasks \ {t} : tasks'[u] = tasks[u]
    BY <1>a, <1>2 DEF Begin, Typed
  <2>4. narrowed' \in BOOLEAN /\ apart' \in BOOLEAN
    BY <2>1, <2>2
  <2>5. narrowed' <=> narrowed \/ q.alone
    BY <2>2
  <2>6. apart' <=> apart \/ q.alone
    BY <2>2
  <2> QED
    BY <2>3, <2>4, <2>5, <2>6
<1>3. ASSUME NEW n \in Names, NEW alone \in BOOLEAN,
             BeginIssue(t, n, alone) \/ BeginRenew(t, n, alone) \/ BeginDelete(t, n, alone)
      PROVE  /\ operation' \in [Names -> Outcomes]
             /\ \E op \in {"issue", "renew", "delete"}, pc \in {"certbot", "resolve"} :
                   Begin(t, On(n, alone, op, pc))
  <2>1. operation' \in [Names -> Outcomes]
    BY <1>3, <1>a, <1>b DEF BeginIssue, BeginRenew, BeginDelete, Typed
  <2>2. \E op \in {"issue", "renew", "delete"}, pc \in {"certbot", "resolve"} :
           Begin(t, On(n, alone, op, pc))
    BY <1>3 DEF BeginIssue, BeginRenew, BeginDelete
  <2> QED
    BY <2>1, <2>2
<1>4. CASE ~BeginSync(t)
  <2>1. PICK n \in Names, alone \in BOOLEAN :
           /\ alone => n = Primary
           /\ BeginIssue(t, n, alone) \/ BeginRenew(t, n, alone) \/ BeginDelete(t, n, alone)
    BY <1>4 DEF Arrives
  <2>2. PICK op \in {"issue", "renew", "delete"}, pc \in {"certbot", "resolve"} : Begin(t, On(n, alone, op, pc))
    BY <1>3, <2>1
  <2> DEFINE q == On(n, alone, op, pc)
  <2>3. q \in TaskType /\ q.pc = pc /\ q.name = n /\ q.alone = alone /\ q.seen = [s \in Sites |-> NoCert]
    BY <1>1
  <2>4. operation' \in [Names -> Outcomes]
    BY <1>3, <2>1
  <2> HIDE DEF q
  <2>5. Begin(t, q)
    BY <2>2 DEF q
  <2>6. /\ tasks' \in [Tasks -> TaskType] /\ tasks'[t] = q
        /\ \A u \in Tasks \ {t} : tasks'[u] = tasks[u]
        /\ narrowed' \in BOOLEAN /\ apart' \in BOOLEAN
        /\ narrowed' <=> narrowed \/ q.alone
        /\ apart' <=> apart \/ q.alone
    BY <1>2, <2>3, <2>5
  <2> QED
    BY <2>1, <2>2, <2>3, <2>4, <2>6, Zenon
<1>5. CASE BeginSync(t)
  <2> DEFINE q == [NoTask EXCEPT !.op = "sync", !.pc = "list"]
  <2>1. q \in TaskType /\ q.pc = "list" /\ q.seen = [s \in Sites |-> NoCert] /\ ~q.alone
    BY <1>b, NoTaskType DEF TaskType
  <2>2. Begin(t, q) /\ operation' = operation
    BY <1>5 DEF BeginSync
  <2> HIDE DEF q
  <2>3. /\ tasks' \in [Tasks -> TaskType] /\ tasks'[t] = q
        /\ \A u \in Tasks \ {t} : tasks'[u] = tasks[u]
        /\ narrowed' \in BOOLEAN /\ apart' \in BOOLEAN
        /\ narrowed' <=> narrowed \/ q.alone
        /\ apart' <=> apart \/ q.alone
    BY <1>2, <2>1, <2>2
  <2>4. operation' \in [Names -> Outcomes]
    BY <1>a, <2>2 DEF Typed
  <2> QED
    BY <2>1, <2>3, <2>4, Zenon
<1> QED
  BY <1>4, <1>5

LEMMA ArrivesAdmits ==
  ASSUME NEW t \in Tasks, Arrives(t)
  PROVE  Admit
<1>1. CASE ~BeginSync(t)
  <2>1. PICK n \in Names, alone \in BOOLEAN :
           BeginIssue(t, n, alone) \/ BeginRenew(t, n, alone) \/ BeginDelete(t, n, alone)
    BY <1>1 DEF Arrives
  <2> QED
    BY <2>1 DEF BeginIssue, BeginRenew, BeginDelete, Begin
<1> QED
  BY <1>1 DEF BeginSync, Begin

LEMMA TypeInductive == TypeOK /\ Formed /\ [Next]_vars => TypeOK'
<1> SUFFICES ASSUME TypeOK, Formed, [Next]_vars PROVE Typed'
  BY TypedOK
<1>a. Typed
  BY TypedOK
<1>1. ASSUME NEW t \in Tasks, Arrives(t) PROVE Typed'
  <2>1. Admit
    BY <1>1, ArrivesAdmits
  <2>2. begun' \in 0..MaxBegun /\ overlapped' \in BOOLEAN
    BY <1>a, <2>1, SslAssumption DEF Admit, Typed
  <2>3. /\ tasks' \in [Tasks -> TaskType] /\ operation' \in [Names -> Outcomes]
        /\ narrowed' \in BOOLEAN /\ apart' \in BOOLEAN
    BY <1>1, ArrivesTask
  <2> QED
    BY <1>a, <2>1, <2>2, <2>3 DEF Admit, Typed
<1>2. ASSUME NEW t \in Tasks, Step(t) PROVE Typed'
  BY <1>2, StepTyped
<1>3. ASSUME NEW n \in Names, Cleanup(n) PROVE Typed'
  <2>1. operation' \in [Names -> Outcomes]
    BY <1>3, <1>a DEF Cleanup, Typed, Outcomes
  <2> QED
    BY <1>3, <1>a, <2>1 DEF Cleanup, Typed
<1>4. CASE PanelRestarts
  <2>1. tasks' \in [Tasks -> TaskType]
    BY <1>4, NoTaskType DEF PanelRestarts
  <2>2. operation' \in [Names -> Outcomes] /\ faults' \in 0..MaxFaults
    BY <1>4, <1>a, FaultCounted DEF PanelRestarts, Outcomes
  <2> QED
    BY <1>4, <1>a, <2>1, <2>2 DEF PanelRestarts, Typed
<1>5. CASE UNCHANGED vars
  BY <1>5, <1>a DEF vars, Typed
<1> QED
  BY <1>1, <1>2, <1>3, <1>4, <1>5 DEF Next

-----------------------------------------------------------------------------
(* Every step keeps the invariant *)

LEMMA NarrowedStays == TypeOK /\ [Next]_vars => (narrowed => narrowed') /\ (apart => apart')
<1> SUFFICES ASSUME TypeOK, [Next]_vars PROVE (narrowed => narrowed') /\ (apart => apart')
  OBVIOUS
<1>0. ASSUME UNCHANGED <<narrowed, apart>> PROVE (narrowed => narrowed') /\ (apart => apart')
  BY <1>0
<1>1. ASSUME NEW t \in Tasks, Arrives(t) PROVE (narrowed => narrowed') /\ (apart => apart')
  BY <1>1, ArrivesTask
<1>2. ASSUME NEW t \in Tasks, Step(t) PROVE (narrowed => narrowed') /\ (apart => apart')
  <2>1. CASE Fallback(t)
    <3>1. UNCHANGED apart
      BY <2>1 DEF Fallback
    <3>2. CASE UNCHANGED narrowed
      BY <1>0, <3>1, <3>2
    <3>3. CASE narrowed' = (narrowed \/ tasks[t].name \in Group)
      BY <3>1, <3>3, Zenon
    <3> QED
      BY <2>1, <3>2, <3>3 DEF Fallback
  <2>2. CASE Certbot(t) \/ Fetch(t) \/ Resolve(t) \/ Renew(t) \/ Wait(t) \/ Drop(t) \/ Persist(t)
    <3>1. UNCHANGED <<narrowed, apart>>
      BY <2>2 DEF Certbot, Fetch, Resolve, Renew, Wait, Drop, Persist
    <3> QED
      BY <1>0, <3>1
  <2>3. CASE Confirm(t) \/ Enable(t) \/ Clear(t) \/ Disable(t) \/ Gather(t) \/ Choose(t) \/ Write(t)
    <3>1. UNCHANGED <<narrowed, apart>>
      BY <2>3 DEF Confirm, Enable, Clear, Disable, Gather, Choose, Write
    <3> QED
      BY <1>0, <3>1
  <2>4. CASE Test(t) \/ Reload(t) \/ List(t) \/ ReadNames(t) \/ Details(t) \/ Read(t)
    <3>1. UNCHANGED <<narrowed, apart>>
      BY <2>4 DEF Test, Reload, List, ReadNames, Details, Read
    <3> QED
      BY <1>0, <3>1
  <2>5. CASE Merge(t)
    <3>1. UNCHANGED apart
      BY <2>5 DEF Merge
    <3> QED
      BY <2>5, <3>1, MergedRows, TypedOK
  <2> QED
    BY <1>2, <2>1, <2>2, <2>3, <2>4, <2>5 DEF Step
<1>3. ASSUME NEW n \in Names, Cleanup(n) PROVE UNCHANGED <<narrowed, apart>>
  BY <1>3 DEF Cleanup
<1>4. CASE PanelRestarts
  BY <1>4 DEF PanelRestarts
<1>5. CASE UNCHANGED vars
  BY <1>5 DEF vars
<1> QED
  BY <1>1, <1>2, <1>3, <1>4, <1>5 DEF Next

TasksInv == Formed /\ SeenWhole /\ RenewsOwn

LEMMA OneTask ==
  ASSUME TasksInv, NEW t \in Tasks, \A u \in Tasks \ {t} : tasks'[u] = tasks[u],
         narrowed => narrowed', apart => apart', tasks'[t].alone => apart' /\ narrowed',
         tasks'[t].pc \notin Syncing => tasks'[t].name \in Names,
         tasks'[t].pc \in OnCertbot \cup {"details"} => tasks'[t].lineage \in Sites,
         ~narrowed' => \A s \in Sites : tasks'[t].seen[s].covers \in {{}, Members(s)},
         ~narrowed' => (tasks'[t].pc \in Renewing => tasks'[t].lineage = SiteOf(tasks'[t].name))
  PROVE  TasksInv'
<1>1. Formed'
  BY DEF TasksInv, Formed
<1>2. SeenWhole'
  BY DEF TasksInv, SeenWhole
<1>3. RenewsOwn'
  BY DEF TasksInv, RenewsOwn
<1> QED
  BY <1>1, <1>2, <1>3 DEF TasksInv

LEMMA KeptTasks ==
  ASSUME TasksInv, NEW t \in Tasks, Kept(t), narrowed => narrowed', apart => apart'
  PROVE  TasksInv'
<1>1. \A u \in Tasks \ {t} : tasks'[u] = tasks[u]
  BY DEF Kept
<1>2. CASE tasks'[t] = NoTask
  <2>1. /\ tasks'[t].pc \in Syncing /\ tasks'[t].pc \notin OnCertbot \cup {"details"}
        /\ tasks'[t].pc \notin Renewing
    BY <1>2, NoTaskType DEF Syncing, OnCertbot, Renewing
  <2>2. /\ \A s \in Sites : tasks'[t].seen[s].covers \in {{}, Members(s)}
        /\ ~tasks'[t].alone
    BY <1>2, NoTaskType
  <2> QED
    BY <1>1, <2>1, <2>2, OneTask
<1>3. CASE Same(tasks[t], tasks'[t]) /\ Onward(tasks[t].pc, tasks'[t].pc)
  <2>1. tasks'[t].pc \notin Syncing => tasks'[t].name \in Names
    BY <1>3 DEF Same, Onward, TasksInv, Formed
  <2>2. /\ tasks'[t].pc \in OnCertbot \cup {"details"} => tasks'[t].lineage \in Sites
        /\ tasks'[t].alone => apart' /\ narrowed'
    BY <1>3 DEF Same, Onward, TasksInv, Formed
  <2>3. ~narrowed' => \A s \in Sites : tasks'[t].seen[s].covers \in {{}, Members(s)}
    BY <1>3 DEF Same, TasksInv, SeenWhole
  <2>4. ~narrowed' => (tasks'[t].pc \in Renewing => tasks'[t].lineage = SiteOf(tasks'[t].name))
    BY <1>3 DEF Same, Onward, TasksInv, RenewsOwn
  <2> QED
    BY <1>1, <2>1, <2>2, <2>3, <2>4, OneTask
<1> QED
  BY <1>2, <1>3 DEF Kept

LEMMA StepTasks ==
  ASSUME Inv, NEW t \in Tasks, Step(t), narrowed => narrowed', apart => apart'
  PROVE  TasksInv'
<1>a. TypeOK /\ Formed /\ TasksInv
  BY DEF Inv, TasksInv
<1>b. tasks[t].alone => apart' /\ narrowed'
  BY <1>a DEF Formed
<1>1. CASE Kept(t)
  BY <1>1, <1>a, KeptTasks
<1>2. CASE Certbot(t) /\ ~Kept(t)
  <2>1. /\ \A u \in Tasks \ {t} : tasks'[u] = tasks[u]
        /\ tasks'[t].pc = "fetch" /\ tasks'[t].name \in Names /\ tasks'[t].alone = tasks[t].alone
        /\ tasks'[t].lineage \in Sites /\ tasks'[t].seen = tasks[t].seen
    BY <1>2, <1>a, CertbotTask
  <2>2. "fetch" \notin Renewing
    BY DEF Renewing
  <2>3. ~narrowed' => \A s \in Sites : tasks'[t].seen[s].covers \in {{}, Members(s)}
    BY <2>1 DEF Inv, SeenWhole
  <2> QED
    BY <1>a, <1>b, <2>1, <2>2, <2>3, OneTask
<1>3. CASE Resolve(t) /\ ~Kept(t)
  <2>1. /\ \A u \in Tasks \ {t} : tasks'[u] = tasks[u]
        /\ tasks'[t].name = tasks[t].name /\ tasks[t].name \in Names /\ tasks'[t].alone = tasks[t].alone
        /\ tasks'[t].lineage \in Covering(tasks[t].name) /\ tasks'[t].seen = tasks[t].seen
    BY <1>3, <1>a, ResolveTask
  <2>2. /\ tasks'[t].lineage \in Sites
        /\ ~narrowed' => tasks[t].name \in Members(tasks'[t].lineage)
    BY <2>1 DEF Covering, Inv, LineagesWhole
  <2>3. ~narrowed' => tasks'[t].lineage = SiteOf(tasks'[t].name)
    BY <2>1, <2>2, SiteFacts
  <2>4. ~narrowed' => \A s \in Sites : tasks'[t].seen[s].covers \in {{}, Members(s)}
    BY <2>1 DEF Inv, SeenWhole
  <2> QED
    BY <1>a, <1>b, <2>1, <2>2, <2>3, <2>4, OneTask
<1>4. CASE (ReadNames(t) \/ Details(t)) /\ ~Kept(t)
  <2>0. PICK x \in Sites : ReadOf(t, x)
    BY <1>4, <1>a, ReadTask
  <2>1. /\ \A u \in Tasks \ {t} : tasks'[u] = tasks[u]
        /\ tasks'[t].name = tasks[t].name /\ tasks'[t].alone = tasks[t].alone
        /\ \A y \in Sites \ {x} : tasks'[t].seen[y] = tasks[t].seen[y]
    BY <2>0 DEF ReadOf
  <2>2. /\ tasks'[t].pc = "names" \/ (tasks'[t].pc = "details" /\ tasks'[t].lineage = x)
        /\ \/ tasks'[t].seen[x].covers = {} \/ tasks'[t].seen[x].covers = tasks[t].seen[x].covers
           \/ lineages[x] # None /\ tasks'[t].seen[x].covers = lineages[x].covers
    BY <2>0 DEF ReadOf, NamesRead, RestRead
  <2>3. tasks'[t].pc \in Syncing /\ tasks'[t].pc \notin OnCertbot /\ tasks'[t].pc \notin Renewing
    BY <2>2 DEF Syncing, OnCertbot, Renewing
  <2>4. tasks'[t].pc = "details" => tasks'[t].lineage \in Sites
    BY <2>2
  <2>5. ~narrowed => \A y \in Sites : tasks[t].seen[y].covers \in {{}, Members(y)}
    BY DEF Inv, SeenWhole
  <2>6. ~narrowed => tasks'[t].seen[x].covers \in {{}, Members(x)}
    BY <2>2, <2>5 DEF Inv, LineagesWhole
  <2>7. ~narrowed' => \A s \in Sites : tasks'[t].seen[s].covers \in {{}, Members(s)}
    BY <2>1, <2>5, <2>6
  <2> QED
    BY <1>a, <1>b, <2>1, <2>3, <2>4, <2>7, OneTask
<1>5. CASE ~(Certbot(t) \/ Resolve(t) \/ ReadNames(t) \/ Details(t))
  <2>1. Kept(t)
    BY <1>5, <1>a, StepKept DEF Step, KeptTyped
  <2> QED
    BY <1>1, <2>1
<1> QED
  BY <1>1, <1>2, <1>3, <1>4, <1>5

LEMMA StepLineages ==
  ASSUME Inv, NEW t \in Tasks, Step(t), narrowed => narrowed'
  PROVE  LineagesWhole'
<1> DEFINE q == tasks[t]
           s == q.lineage
<1>a. Typed /\ Formed
  BY TypedOK DEF Inv
<1>n. narrowed => LineagesWhole'
  BY DEF LineagesWhole
<1>0. ASSUME NEW x \in Sites, Issue(x, Members(x)) PROVE LineagesWhole'
  <2>1. Members(x) \in SUBSET Names
    BY SiteFacts
  <2>2. lineages'[x].covers = Members(x) /\ \A y \in Sites \ {x} : lineages'[y] = lineages[y]
    BY <1>0, <1>a, <2>1, IssueTyped
  <2> QED
    BY <2>2 DEF Inv, LineagesWhole
<1>1. ASSUME UNCHANGED lineages PROVE LineagesWhole'
  BY <1>1 DEF Inv, LineagesWhole
<1>2. CASE Certbot(t)
  <2>1. q.name \in Names
    BY <1>2, <1>a DEF Certbot, At, Formed, Syncing
  <2>2. SiteOf(q.name) \in Sites /\ Members(SiteOf(q.name)) = Members(q.name)
    BY <2>1, SiteFacts
  <2>3. UNCHANGED lineages \/ Issue(SiteOf(q.name), Concerns(q))
    BY <1>2 DEF Certbot
  <2>4. ~narrowed => Concerns(q) = Members(q.name)
    BY <1>a DEF Formed, Concerns
  <2> QED
    BY <1>0, <1>1, <1>n, <2>2, <2>3, <2>4
<1>3. CASE Renew(t)
  <2>1. s \in Sites
    BY <1>3, <1>a DEF Renew, At, Formed, OnCertbot
  <2>2. UNCHANGED lineages \/ (lineages[s] # None /\ Issue(s, lineages[s].covers))
    BY <1>3 DEF Renew
  <2>3. ~narrowed /\ lineages[s] # None => lineages[s].covers = Members(s)
    BY <2>1 DEF Inv, LineagesWhole
  <2> QED
    BY <1>0, <1>1, <2>1, <2>2, <2>3 DEF LineagesWhole
<1>4. CASE Fallback(t)
  <2>1. s \in Sites /\ q.name \in Names
    BY <1>4, <1>a DEF Fallback, At, Formed, OnCertbot, Syncing
  <2>2. UNCHANGED lineages \/ (Issue(s, {q.name}) /\ narrowed' = (narrowed \/ q.name \in Group))
    BY <1>4 DEF Fallback
  <2>3. ~narrowed /\ q.name \notin Group => s = q.name /\ Members(s) = {q.name}
    BY <1>4 DEF Fallback, At, Renewing, Inv, RenewsOwn, SiteOf, Members
  <2> QED
    BY <1>0, <1>1, <2>1, <2>2, <2>3 DEF LineagesWhole
<1>5. CASE Drop(t)
  <2>1. UNCHANGED lineages \/ lineages' = [lineages EXCEPT ![s] = None]
    BY <1>5 DEF Drop
  <2> QED
    BY <1>1, <1>a, <2>1 DEF Typed, Inv, LineagesWhole
<1>6. CASE Fetch(t) \/ Resolve(t) \/ Wait(t) \/ Persist(t) \/ Confirm(t) \/ Enable(t) \/ Clear(t) \/ Disable(t)
  BY <1>1, <1>6 DEF Fetch, Resolve, Wait, Persist, Confirm, Enable, Clear, Disable
<1>7. CASE Gather(t) \/ Choose(t) \/ Write(t) \/ Test(t) \/ Reload(t)
  BY <1>1, <1>7 DEF Gather, Choose, Write, Test, Reload
<1>8. CASE List(t) \/ ReadNames(t) \/ Details(t) \/ Read(t) \/ Merge(t)
  BY <1>1, <1>8 DEF List, ReadNames, Details, Read, Merge
<1> QED
  BY <1>2, <1>3, <1>4, <1>5, <1>6, <1>7, <1>8 DEF Step

LEMMA StepGroup ==
  ASSUME Inv, NEW t \in Tasks, Step(t), narrowed => narrowed'
  PROVE  GroupInStep'
<1> DEFINE q == tasks[t]
<1>a. Typed /\ Formed /\ q \in TaskType
  BY TypedOK DEF Inv, Typed
<1>g. Group \subseteq Names /\ Group \in SUBSET Names
  BY DEF Names
<1>1. ASSUME \A n \in Group : certs'[n] = certs[n] PROVE GroupInStep'
  BY <1>1 DEF Inv, GroupInStep
<1>2. ASSUME NEW c, \A n \in Group : certs'[n] # None /\ certs'[n].cert = c PROVE GroupInStep'
  BY <1>2 DEF GroupInStep
<1>n. narrowed => GroupInStep'
  BY DEF GroupInStep
<1>s. ~narrowed => ~q.alone
  BY <1>a DEF Formed
<1>3. CASE Persist(t)
  <2>1. q.name \in Names /\ q.cert \in Certificate
    BY <1>3, <1>a DEF Persist, At, Formed, Syncing, TaskType
  <2>2. \/ narrowed \/ UNCHANGED certs
        \/ q.name \in Group /\ Recorded(Group, q.cert)
        \/ q.name \notin Group /\ Recorded({q.name}, q.cert)
    BY <1>3, <1>s DEF Persist, Shared
  <2>3. CASE q.name \in Group /\ Recorded(Group, q.cert)
    BY <1>a, <1>g, <1>2, <2>1, <2>3, RecordedRows
  <2>4. CASE q.name \notin Group /\ Recorded({q.name}, q.cert)
    <3>1. {q.name} \in SUBSET Names
      BY <2>1
    <3>2. \A n \in Names \ {q.name} : certs'[n] = certs[n]
      BY <1>a, <2>1, <2>4, <3>1, RecordedRows
    <3> QED
      BY <1>g, <1>1, <2>4, <3>2
  <2> QED
    BY <1>1, <1>n, <2>2, <2>3, <2>4
<1>4. CASE Clear(t)
  <2>1. \/ narrowed \/ UNCHANGED certs
        \/ certs' = [m \in Names |-> IF m \in Members(q.name) THEN None ELSE certs[m]]
    BY <1>4, <1>s DEF Clear, Cleared, Concerns
  <2>2. CASE certs' = [m \in Names |-> IF m \in Members(q.name) THEN None ELSE certs[m]]
    <3>1. CASE q.name \in Group
      BY <1>g, <2>2, <3>1 DEF Members, GroupInStep
    <3>2. CASE q.name \notin Group
      <4>1. \A n \in Group : certs'[n] = certs[n]
        BY <1>g, <2>2, <3>2 DEF Members
      <4> QED
        BY <1>1, <4>1
    <3> QED
      BY <3>1, <3>2
  <2> QED
    BY <1>1, <1>n, <2>1, <2>2
<1>5. CASE Merge(t)
  <2>1. CASE narrowed'
    BY <2>1 DEF GroupInStep
  <2>2. CASE ~narrowed'
    <3>0. ~narrowed
      BY <2>2
    <3>1. \A s \in Sites : Tells(q, s) \subseteq Members(s)
      <4>1. \A s \in Sites : s \in Members(s)
        BY SiteFacts
      <4>2. \A s \in Sites : q.seen[s].covers = {} \/ q.seen[s].covers = Members(s)
        BY <3>0 DEF Inv, SeenWhole
      <4> QED
        BY <4>1, <4>2 DEF Tells
    <3>2. \A n \in Group, s \in Sites : n \in Tells(q, s) => s = Primary /\ Primary \in Tells(q, s)
      BY <3>1, SiteFacts DEF Tells
    <3>3. \A n \in Group \cap Found(q) : Best(q, n) = Primary /\ Primary \in Found(q)
      <4> SUFFICES ASSUME NEW n \in Group, n \in Found(q)
                   PROVE  Best(q, n) = Primary /\ Primary \in Found(q)
        OBVIOUS
      <4>1. PICK s \in Sites : n \in Tells(q, s)
        BY DEF Found
      <4>2. Best(q, n) \in Sites /\ n \in Tells(q, Best(q, n))
        BY <1>a, <4>1, BestTells
      <4>3. Primary \in Found(q)
        BY <3>2, <4>1 DEF Found
      <4> QED
        BY <3>2, <4>2, <4>3
    <3>4. CASE UNCHANGED certs
      BY <1>1, <3>4
    <3>5. CASE /\ \A n \in Found(q) : certs'[n] # None /\ certs'[n].cert = q.seen[Best(q, n)]
               /\ \A n \in Names \ Found(q) : certs'[n] = certs[n]
               /\ Primary \in Found(q) => Group \subseteq Found(q)
      <4>1. CASE Group \cap Found(q) = {}
        BY <1>g, <1>1, <3>5, <4>1
      <4>2. CASE Group \cap Found(q) # {}
        <5>1. \A n \in Group : certs'[n] # None /\ certs'[n].cert = q.seen[Primary]
          BY <3>3, <3>5, <4>2
        <5> QED
          BY <1>2, <5>1
      <4> QED
        BY <4>1, <4>2
    <3> QED
      BY <1>5, <1>a, <2>2, <3>4, <3>5, MergedRows
  <2> QED
    BY <2>1, <2>2
<1>6. CASE UNCHANGED certs
  BY <1>1, <1>6
<1>7. \/ Persist(t) \/ Clear(t) \/ Merge(t) \/ UNCHANGED certs
  BY DEF Step, Certbot, Fetch, Resolve, Renew, Wait, Fallback, Drop, Confirm, Enable, Disable, Gather,
         Choose, Write, Test, Reload, List, ReadNames, Details, Read
<1> QED
  BY <1>3, <1>4, <1>5, <1>6, <1>7

LEMMA InitInvariant == Init => Inv
<1> SUFFICES ASSUME Init PROVE Inv
  OBVIOUS
<1>1. PICK state \in [Sites -> {"none", "pending", "used", "unknown"}] :
        /\ lineages = [s \in Sites |-> IF state[s] \in {"used", "unknown"}
                                       THEN [version |-> 1, covers |-> Members(s)] ELSE None]
        /\ certs = [n \in Names |->
              CASE state[SiteOf(n)] = "pending" -> [id |-> 1, cert |-> NoCert]
                [] state[SiteOf(n)] = "used" -> [id |-> 1, cert |-> lineages[SiteOf(n)]]
                [] OTHER -> None]
        /\ enabled = {n \in Names : state[SiteOf(n)] \in {"pending", "used"}}
        /\ nginx = [s \in Sites |-> [there |-> TRUE, tls |-> IF state[s] = "used" THEN s ELSE None]]
  BY DEF Init
<1>2. \A t \in Tasks : tasks[t] = NoTask
  BY DEF Init
<1>3. \A s \in Sites : [version |-> 1, covers |-> Members(s)] \in Certificate
  <2>1. 1 \in 0..MaxVersion
    BY SslAssumption
  <2>2. \A s \in Sites : Members(s) \in SUBSET Names
    BY SiteFacts
  <2> QED
    BY <2>1, <2>2 DEF Certificate
<1>4. lineages \in [Sites -> Certificate \cup {None}]
  BY <1>1, <1>3
<1>5. certs \in [Names -> SslCert \cup {None}]
  <2>1. 1 \in 1..MaxRowId
    BY SslAssumption
  <2>2. \A n \in Names : SiteOf(n) \in Sites
    BY SiteFacts
  <2>3. \A n \in Names : state[SiteOf(n)] = "used" => lineages[SiteOf(n)] \in Certificate
    BY <1>1, <1>3, <2>2
  <2>4. /\ [id |-> 1, cert |-> NoCert] \in SslCert
        /\ \A n \in Names : state[SiteOf(n)] = "used" => [id |-> 1, cert |-> lineages[SiteOf(n)]] \in SslCert
    BY <2>1, <2>3, NoTaskType DEF SslCert
  <2> QED
    BY <1>1, <2>4
<1>6. nginx \in [Sites -> File]
  BY <1>1 DEF File
<1>7. TypeOK
  <2>1. /\ issued \in 0..MaxVersion /\ rowIds \in Numbers /\ begun \in 0..MaxBegun /\ faults \in 0..MaxFaults
    BY SslAssumption DEF Init, Numbers
  <2>2. tasks \in [Tasks -> TaskType] /\ operation \in [Names -> Outcomes]
    BY NoTaskType DEF Init, Outcomes
  <2>3. enabled \subseteq Names
    BY <1>1
  <2>4. /\ overlapped \in BOOLEAN /\ narrowed \in BOOLEAN /\ apart \in BOOLEAN
        /\ bared \subseteq Isolated /\ adopted \subseteq Names
    BY DEF Init
  <2> QED
    BY <1>4, <1>5, <1>6, <2>1, <2>2, <2>3, <2>4, TypedOK DEF Typed
<1>8. Formed /\ SeenWhole /\ RenewsOwn
  BY <1>2, NoTaskType DEF Formed, SeenWhole, RenewsOwn, Syncing, OnCertbot, Renewing
<1>9. LineagesWhole
  BY <1>1 DEF LineagesWhole
<1>10. GroupInStep
  <2>1. \A n \in Group : n \in Names /\ SiteOf(n) = Primary
    BY DEF Names, SiteOf
  <2>2. \A n, m \in Group : certs[n] = certs[m]
    BY <1>1, <2>1
  <2> QED
    BY <2>2 DEF GroupInStep
<1> QED
  BY <1>7, <1>8, <1>9, <1>10 DEF Inv

LEMMA NextInvariant == Inv /\ [Next]_vars => Inv'
<1> SUFFICES ASSUME Inv, [Next]_vars PROVE Inv'
  OBVIOUS
<1>a. TypeOK' /\ (narrowed => narrowed') /\ (apart => apart') /\ TypeOK /\ TasksInv
  BY TypeInductive, NarrowedStays DEF Inv, TasksInv
<1>1. ASSUME NEW t \in Tasks, Arrives(t) PROVE Inv'
  <2>1. UNCHANGED <<lineages, certs>>
    BY <1>1, ArrivesAdmits DEF Admit
  <2>2. /\ \A u \in Tasks \ {t} : tasks'[u] = tasks[u]
        /\ tasks'[t].pc \in {"certbot", "resolve", "list"}
        /\ \A s \in Sites : tasks'[t].seen[s].covers \in {{}, Members(s)}
        /\ tasks'[t].pc # "list" => tasks'[t].name \in Names
        /\ tasks'[t].alone => apart' /\ narrowed'
    BY <1>1, <1>a, ArrivesTask, NoTaskType
  <2>3. /\ tasks'[t].pc \notin OnCertbot \cup {"details"} /\ tasks'[t].pc \notin Renewing
        /\ tasks'[t].pc = "list" => tasks'[t].pc \in Syncing
    BY <2>2 DEF Syncing, OnCertbot, Renewing
  <2>4. TasksInv'
    BY <1>a, <2>2, <2>3, OneTask
  <2> QED
    BY <1>a, <2>1, <2>4 DEF Inv, TasksInv, LineagesWhole, GroupInStep
<1>2. ASSUME NEW t \in Tasks, Step(t) PROVE Inv'
  BY <1>2, <1>a, StepTasks, StepLineages, StepGroup DEF Inv, TasksInv
<1>3. ASSUME UNCHANGED <<lineages, certs, tasks, narrowed, apart>> PROVE Inv'
  BY <1>3, <1>a DEF Inv, Formed, SeenWhole, RenewsOwn, LineagesWhole, GroupInStep
<1>4. ASSUME NEW n \in Names, Cleanup(n) PROVE Inv'
  BY <1>3, <1>4 DEF Cleanup
<1>5. CASE PanelRestarts
  <2>1. UNCHANGED <<lineages, certs, narrowed>> /\ \A t \in Tasks : tasks'[t] = NoTask
    BY <1>5 DEF PanelRestarts
  <2>2. TasksInv'
    BY <2>1, NoTaskType DEF TasksInv, Formed, SeenWhole, RenewsOwn, Syncing, OnCertbot, Renewing
  <2> QED
    BY <1>a, <2>1, <2>2 DEF Inv, TasksInv, LineagesWhole, GroupInStep
<1>6. CASE UNCHANGED vars
  BY <1>3, <1>6 DEF vars
<1> QED
  BY <1>1, <1>2, <1>4, <1>5, <1>6 DEF Next

LEMMA Invariant == Spec => []Inv
<1>1. Init => Inv
  BY InitInvariant
<1>2. Inv /\ [Next]_vars => Inv'
  BY NextInvariant
<1> QED
  BY <1>1, <1>2, PTL DEF Spec

-----------------------------------------------------------------------------
(***************************************************************************)
(* Requests that come one after the other.  Between two of them every site *)
(* is in order: its rows, its lineage and its file agree.  A request       *)
(* disturbs that of its own site only, and puts it in order step by step;  *)
(* what it still has to do is told by where it is and what it has read.    *)
(***************************************************************************)
Alone == ~overlapped => \A t, u \in Tasks : InProgress(t) /\ InProgress(u) => t = u

\* A lineage is of its site, whatever a fallback leaves of it; and so is the work on it.
LineagesOwn ==
    \A s \in Sites : lineages[s] # None =>
        /\ lineages[s].version # 0 /\ lineages[s].covers \subseteq Members(s)
        /\ s \in Isolated => lineages[s].covers = {s}
WorksOnOwn == \A t \in Tasks : tasks[t].pc \in OnCertbot => tasks[t].lineage = SiteOf(tasks[t].name)

\* A site in order.
EnabledOk(s) == \A n \in Members(s) : n \in enabled <=> certs[n] # None
CertsOk(s) ==
    \A n \in Members(s) : certs[n] # None =>
        IF certs[n].cert.version = 0 THEN lineages[s] = None
        ELSE lineages[s] # None /\ certs[n].cert = lineages[s]
Whole(s) == lineages[s] # None /\ Members(s) \subseteq lineages[s].covers
FileOk(s) == nginx[s].there /\ (nginx[s].tls # None => nginx[s].tls = s /\ Whole(s))
Shown(s) == ~narrowed /\ certs[s] # None /\ certs[s].cert.version # 0
ServedOk(s) == Shown(s) /\ s \notin adopted => nginx[s].tls = s
InOrder(s) ==
    /\ ~narrowed => EnabledOk(s) /\ CertsOk(s)
    /\ bared = {} => FileOk(s) /\ ServedOk(s)

\* What a request leaves in order of its own site, at each of its steps.
Rewriting == {"confirm", "gather", "choose", "write"}
OwnSite(q, s) ==
    /\ ~narrowed /\ q.pc \notin {"enable", "disable"} => EnabledOk(s)
    /\ ~narrowed /\ q.pc \notin {"fetch", "persist", "clear", "enable", "disable"} => CertsOk(s)
    /\ bared = {} /\ (q.name \notin Group \/ q.pc \notin {"fetch", "persist", "clear"} \cup Rewriting) => FileOk(s)
    /\ bared = {} /\ q.pc \notin {"enable"} \cup Rewriting => ServedOk(s)

\* What it has read, and what it relies on.
OwnWork(q, s) ==
    /\ q.pc = "certbot" => q.op = "issue"
    /\ q.pc \in {"certbot", "resolve", "fetch", "persist", "clear", "drop"} \cup Renewing => q.id = IdOf(q.name)
    /\ q.pc \in {"fetch", "drop"} \cup Renewing => lineages[s] # None
    /\ q.pc = "resolve" => certs[q.name] # None
    /\ q.pc \in Renewing \/ (q.pc \in {"fetch", "persist"} /\ q.op # "issue") =>
          certs[q.name] # None /\ (~narrowed => certs[q.name].cert.version # 0)
    /\ q.pc = "persist" => lineages[s] # None /\ q.cert = lineages[s]
    /\ q.pc = "clear" /\ ~narrowed => lineages[s] = None
    /\ q.pc = "confirm" => certs[q.name] # None
    /\ q.pc \in {"confirm", "gather"} => q.name \in Group
    /\ q.pc \in {"enable", "disable", "reload"} => q.name \notin Group
    /\ q.pc = "enable" => lineages[s] # None /\ certs[q.name] # None /\ certs[q.name].cert = lineages[s]
    /\ q.pc = "disable" => certs[q.name] = None
    /\ q.pc = "choose" /\ Shown(s) => q.secure
    /\ q.pc = "write" => /\ Shown(s) => q.tls = s
                         /\ q.tls # None => q.tls = s /\ Whole(s)
Now(s) == IF lineages[s] = None THEN NoCert ELSE lineages[s]
SyncWork(q) ==
    /\ q.pc = "list" => \A s \in Sites : q.seen[s] = NoCert
    /\ q.pc \in {"names", "details"} => \A s \in q.left : lineages[s] # None
    /\ q.pc \in {"names", "merge"} => \A s \in Sites : s \in q.left \/ q.seen[s] = Now(s)
    /\ q.pc = "details" =>
          /\ q.lineage \notin q.left /\ q.seen[q.lineage].covers = Now(q.lineage).covers
          /\ \A s \in Sites : s \in q.left \/ s = q.lineage \/ q.seen[s] = Now(s)
    /\ q.pc = "merge" => q.left = {} /\ \A n \in Names : q.known[n] = IdOf(n)

AllInOrder == \A s \in Sites : InOrder(s)
Progress(q) ==
    IF q.pc \in Syncing THEN AllInOrder /\ SyncWork(q)
    ELSE \A s \in Sites : IF s # SiteOf(q.name) THEN InOrder(s) ELSE OwnSite(q, s) /\ OwnWork(q, s)
Orderly ==
    Undisturbed => /\ AllIdle => AllInOrder
                   /\ \A t \in Tasks : \A q \in {tasks[t]} : InProgress(t) => Progress(q)

Order == Alone /\ LineagesOwn /\ WorksOnOwn /\ Orderly


-----------------------------------------------------------------------------
(* Lineages, and the work on them, are of one site *)

\* What is of one site is not of another.
LEMMA SitesApart ==
  ASSUME NEW s \in Sites, NEW x \in Sites, NEW n, n \in Members(x), n \in Members(s)
  PROVE  x = s
<1>1. n \in Names
  BY SiteFacts
<1> QED
  BY <1>1, SiteFacts

LEMMA CoveringOwn ==
  ASSUME LineagesOwn, NEW n \in Names, NEW s \in Covering(n)
  PROVE  s = SiteOf(n) /\ lineages[s] # None
<1>1. s \in Sites /\ lineages[s] # None /\ n \in lineages[s].covers
  BY DEF Covering
<1>2. n \in Members(s)
  BY <1>1 DEF LineagesOwn
<1> QED
  BY <1>1, <1>2, SiteFacts

LEMMA IssueOwn ==
  ASSUME Typed, LineagesOwn, NEW s \in Sites, NEW names \in SUBSET Members(s), Issue(s, names),
         s \in Isolated => names = {s}
  PROVE  /\ LineagesOwn' /\ lineages'[s] # None /\ lineages'[s].covers = names
         /\ \A x \in Sites \ {s} : lineages'[x] = lineages[x]
<1> DEFINE c == [version |-> issued + 1, covers |-> names]
<1>1. lineages' = [lineages EXCEPT ![s] = c]
  BY DEF Issue
<1>2. c.version # 0 /\ c.covers = names
  BY SslAssumption DEF Typed
<1>3. c \in Certificate
  <2>1. issued + 1 \in 0..MaxVersion
    BY SslAssumption DEF Issue, Typed
  <2>2. names \in SUBSET Names
    BY SiteFacts
  <2> QED
    BY <2>1, <2>2 DEF Certificate
<1> HIDE DEF c
<1>4. lineages'[s] = c /\ \A x \in Sites \ {s} : lineages'[x] = lineages[x]
  BY <1>1 DEF Typed
<1>5. c # None
  BY <1>3, NoneIsNoCertificate
<1> QED
  BY <1>2, <1>4, <1>5 DEF LineagesOwn

\* What a step does to the lineages, and to the one of the task's site.
LEMMA StepLineagesOwn ==
  ASSUME Inv, LineagesOwn, WorksOnOwn, NEW t \in Tasks, Step(t)
  PROVE  LineagesOwn'
<1> DEFINE q == tasks[t]
           s == q.lineage
<1>a. Typed /\ Formed
  BY TypedOK DEF Inv
<1>1. ASSUME UNCHANGED lineages PROVE LineagesOwn'
  BY <1>1 DEF LineagesOwn
<1>2. CASE Certbot(t)
  <2>1. q.name \in Names
    BY <1>2, <1>a DEF Certbot, At, Formed, Syncing
  <2>2. SiteOf(q.name) \in Sites /\ Members(SiteOf(q.name)) = Members(q.name)
    BY <2>1, SiteFacts
  <2>3. UNCHANGED lineages \/ Issue(SiteOf(q.name), Concerns(q))
    BY <1>2 DEF Certbot
  <2>4. Concerns(q) \in SUBSET Members(SiteOf(q.name))
    BY <2>1, <2>2, SiteFacts DEF Concerns
  <2>5. SiteOf(q.name) \in Isolated => Concerns(q) = {SiteOf(q.name)}
    BY SslAssumption DEF SiteOf, Members, Concerns
  <2> QED
    BY <1>1, <1>a, <2>2, <2>3, <2>4, <2>5, IssueOwn
<1>3. CASE Renew(t)
  <2>1. s \in Sites
    BY <1>3, <1>a DEF Renew, At, Formed, OnCertbot
  <2>2. UNCHANGED lineages \/ (lineages[s] # None /\ Issue(s, lineages[s].covers))
    BY <1>3 DEF Renew
  <2>3. lineages[s] # None => /\ lineages[s].covers \in SUBSET Members(s)
                              /\ s \in Isolated => lineages[s].covers = {s}
    BY <2>1 DEF LineagesOwn
  <2> QED
    BY <1>1, <1>a, <2>1, <2>2, <2>3, IssueOwn
<1>4. CASE Fallback(t)
  <2>1. s \in Sites /\ q.name \in Names /\ s = SiteOf(q.name)
    BY <1>4, <1>a DEF Fallback, At, Formed, OnCertbot, Syncing, WorksOnOwn
  <2>2. UNCHANGED lineages \/ Issue(s, {q.name})
    BY <1>4 DEF Fallback
  <2>3. {q.name} \in SUBSET Members(s) /\ (s \in Isolated => {q.name} = {s})
    BY <2>1, SiteFacts, SslAssumption DEF SiteOf
  <2> QED
    BY <1>1, <1>a, <2>1, <2>2, <2>3, IssueOwn
<1>5. CASE Drop(t)
  <2>1. UNCHANGED lineages \/ lineages' = [lineages EXCEPT ![s] = None]
    BY <1>5 DEF Drop
  <2> QED
    BY <1>1, <1>a, <2>1 DEF Typed, LineagesOwn
<1>6. CASE Fetch(t) \/ Resolve(t) \/ Wait(t) \/ Persist(t) \/ Confirm(t) \/ Enable(t) \/ Clear(t) \/ Disable(t)
  BY <1>1, <1>6 DEF Fetch, Resolve, Wait, Persist, Confirm, Enable, Clear, Disable
<1>7. CASE Gather(t) \/ Choose(t) \/ Write(t) \/ Test(t) \/ Reload(t)
  BY <1>1, <1>7 DEF Gather, Choose, Write, Test, Reload
<1>8. CASE List(t) \/ ReadNames(t) \/ Details(t) \/ Read(t) \/ Merge(t)
  BY <1>1, <1>8 DEF List, ReadNames, Details, Read, Merge
<1> QED
  BY <1>2, <1>3, <1>4, <1>5, <1>6, <1>7, <1>8 DEF Step

\* A step is of a task in progress, and leaves the other tasks alone.
LEMMA StepAlone ==
  ASSUME Inv, NEW t \in Tasks, Step(t)
  PROVE  InProgress(t) /\ UNCHANGED overlapped /\ \A u \in Tasks \ {t} : tasks'[u] = tasks[u]
<1>a. TypeOK /\ Formed
  BY DEF Inv
<1>1. InProgress(t) /\ UNCHANGED overlapped
  <2>1. CASE Certbot(t) \/ Fetch(t) \/ Resolve(t) \/ Renew(t) \/ Wait(t) \/ Fallback(t) \/ Drop(t)
    BY <2>1 DEF Certbot, Fetch, Resolve, Renew, Wait, Fallback, Drop, At, InProgress
  <2>2. CASE Persist(t) \/ Confirm(t) \/ Enable(t) \/ Clear(t) \/ Disable(t) \/ Gather(t) \/ Choose(t)
    BY <2>2 DEF Persist, Confirm, Enable, Clear, Disable, Gather, Choose, At, InProgress
  <2>3. CASE Write(t) \/ Test(t) \/ Reload(t)
    BY <2>3 DEF Write, Test, Reload, At, InProgress
  <2>4. CASE List(t) \/ ReadNames(t) \/ Details(t) \/ Read(t) \/ Merge(t)
    BY <2>4 DEF List, ReadNames, Details, Read, Merge, At, InProgress
  <2> QED
    BY <2>1, <2>2, <2>3, <2>4 DEF Step
<1>2. \A u \in Tasks \ {t} : tasks'[u] = tasks[u]
  <2>1. CASE Certbot(t) \/ Resolve(t) \/ ReadNames(t) \/ Details(t)
    BY <2>1, <1>a, CertbotTask, ResolveTask, ReadTask DEF Kept, ReadOf
  <2>2. CASE ~(Certbot(t) \/ Resolve(t) \/ ReadNames(t) \/ Details(t))
    BY <2>2, <1>a, StepKept DEF Step, KeptTyped, Kept
  <2> QED
    BY <2>1, <2>2
<1> QED
  BY <1>1, <1>2

LEMMA StepWorksOnOwn ==
  ASSUME Inv, LineagesOwn, WorksOnOwn, NEW t \in Tasks, Step(t)
  PROVE  WorksOnOwn'
<1> SUFFICES tasks'[t].pc \in OnCertbot => tasks'[t].lineage = SiteOf(tasks'[t].name)
  BY StepAlone DEF WorksOnOwn
<1>a. TypeOK /\ Formed /\ Typed
  BY TypedOK DEF Inv
<1>1. CASE Kept(t)
  BY <1>1, NoTaskType DEF Kept, Same, Onward, WorksOnOwn, OnCertbot
<1>2. CASE Certbot(t)
  <2>1. CASE Fail(t)
    BY <2>1, <1>a, <1>1, FailTask DEF KeptTyped
  <2>2. CASE Continue(t, [tasks[t] EXCEPT !.pc = "fetch", !.lineage = SiteOf(tasks[t].name)])
    <3>1. tasks[t] \in TaskType /\ tasks'[t] = [tasks[t] EXCEPT !.pc = "fetch", !.lineage = SiteOf(tasks[t].name)]
      BY <2>2, <1>a DEF Continue, Typed
    <3> QED
      BY <3>1 DEF TaskType
  <2> QED
    BY <1>2, <2>1, <2>2 DEF Certbot
<1>3. CASE Resolve(t)
  BY <1>1, <1>3, <1>a, ResolveTask, CoveringOwn
<1>4. CASE ReadNames(t) \/ Details(t)
  <2>1. ASSUME NEW x \in Sites, ReadOf(t, x) PROVE tasks'[t].pc \notin OnCertbot
    BY <2>1 DEF ReadOf, NamesRead, RestRead, OnCertbot
  <2> QED
    BY <1>1, <1>4, <1>a, <2>1, ReadTask
<1>5. CASE ~(Certbot(t) \/ Resolve(t) \/ ReadNames(t) \/ Details(t))
  BY <1>1, <1>5, <1>a, StepKept DEF Step, KeptTyped
<1> QED
  BY <1>2, <1>3, <1>4, <1>5

-----------------------------------------------------------------------------
(* A request at work on its site *)

\* Of the site s, the task t goes from q to r, without another and without a fault.
Working(t, q, r, s) ==
    /\ Inv /\ LineagesOwn /\ WorksOnOwn /\ ~Fault
    /\ t \in Tasks /\ q = tasks[t] /\ r = tasks'[t]
    /\ q.pc \notin Syncing /\ s = SiteOf(q.name) /\ ~q.alone
    /\ \A x \in Sites \ {s} : InOrder(x)
    /\ OwnSite(q, s) /\ OwnWork(q, s)

LEMMA WorkingFacts ==
  ASSUME NEW t, NEW q, NEW r, NEW s, Working(t, q, r, s)
  PROVE  /\ Typed /\ t \in Tasks /\ q \in TaskType /\ q = tasks[t] /\ r = tasks'[t]
         /\ q.name \in Names /\ q.name \in Members(s) /\ Members(q.name) = Members(s)
         /\ s = SiteOf(q.name) /\ s \in Sites /\ s \in Members(s) /\ SiteOf(s) = s /\ s \in Names
         /\ Members(s) \subseteq Names
         /\ q.name \in Group => s = Primary /\ Members(s) = Group
         /\ q.name \notin Group => s = q.name /\ s \notin Group /\ Members(s) = {s} /\ s \in Isolated
         /\ q.pc \in OnCertbot => q.lineage = s
         /\ Concerns(q) = Members(s) /\ (Shared(q) <=> q.name \in Group)
<1>1. Typed /\ Formed /\ t \in Tasks /\ q = tasks[t] /\ r = tasks'[t] /\ s = SiteOf(q.name)
  BY TypedOK DEF Working, Inv
<1>2. q \in TaskType /\ q.name \in Names
  BY <1>1 DEF Typed, Formed, Working
<1>3. q.pc \in OnCertbot => q.lineage = s
  BY <1>1 DEF Working, WorksOnOwn
<1>4. /\ s \in Sites /\ Members(s) = Members(q.name) /\ q.name \in Members(q.name)
      /\ s \in Names /\ SiteOf(s) = s /\ Members(q.name) \subseteq Names
  BY <1>1, <1>2, SiteFacts
<1>5. s \in Members(s)
  BY <1>4, SiteFacts
<1>6. q.name \in Group => s = Primary /\ Members(s) = Group
  BY <1>1, <1>4 DEF SiteOf, Members
<1>7. q.name \notin Group => s = q.name /\ s \notin Group /\ Members(s) = {s} /\ s \in Isolated
  BY <1>1, <1>2, <1>4 DEF SiteOf, Members, Names
<1>8. Concerns(q) = Members(s)
  BY <1>4 DEF Working, Concerns
<1>9. Shared(q) <=> q.name \in Group
  BY DEF Working, Shared
<1> QED
  BY <1>1, <1>2, <1>3, <1>4, <1>5, <1>6, <1>7, <1>8, <1>9

\* What the lineage of a site is like.
LEMMA LineageFacts ==
  ASSUME NEW t, NEW q, NEW r, NEW s, Working(t, q, r, s), lineages[s] # None
  PROVE  /\ lineages[s] \in Certificate /\ lineages[s].version # 0
         /\ ~narrowed => lineages[s].covers = Members(s)
         /\ s \in Isolated => lineages[s].covers = {s}
         /\ q.name \notin Group \/ ~narrowed => Whole(s)
<1>1. s \in Sites /\ lineages[s] \in Certificate
  BY WorkingFacts DEF Typed
<1>2. /\ lineages[s].version # 0 /\ (s \in Isolated => lineages[s].covers = {s})
      /\ ~narrowed => lineages[s].covers = Members(s)
  BY <1>1 DEF Working, LineagesOwn, Inv, LineagesWhole
<1>3. q.name \notin Group => s \in Isolated /\ Members(s) = {s}
  BY WorkingFacts
<1> QED
  BY <1>1, <1>2, <1>3 DEF Whole

\* The other sites are left alone.
Elsewhere(s) ==
    /\ \A x \in Sites \ {s} :
          /\ lineages'[x] = lineages[x] /\ nginx'[x] = nginx[x]
          /\ \A n \in Members(x) : certs'[n] = certs[n] /\ (n \in enabled' <=> n \in enabled)
    /\ narrowed => narrowed'
    /\ bared \subseteq bared' /\ adopted \subseteq adopted'

LEMMA OthersStay ==
  ASSUME NEW s, NEW x \in Sites \ {s}, Elsewhere(s), InOrder(x)
  PROVE  InOrder(x)'
<1>1. /\ lineages'[x] = lineages[x] /\ nginx'[x] = nginx[x]
      /\ \A n \in Members(x) : certs'[n] = certs[n] /\ (n \in enabled' <=> n \in enabled)
      /\ x \in Members(x)
  BY SiteFacts DEF Elsewhere
<1>2. (~narrowed' => ~narrowed) /\ (bared' = {} => bared = {}) /\ (x \notin adopted' => x \notin adopted)
  BY DEF Elsewhere
<1>3. EnabledOk(x) => EnabledOk(x)'
  BY <1>1 DEF EnabledOk
<1>4. CertsOk(x) => CertsOk(x)'
  BY <1>1 DEF CertsOk
<1>5. FileOk(x) => FileOk(x)'
  BY <1>1 DEF FileOk, Whole
<1>6. ServedOk(x) => ServedOk(x)'
  BY <1>1, <1>2 DEF ServedOk, Shown
<1> QED
  BY <1>2, <1>3, <1>4, <1>5, <1>6 DEF InOrder

Unmoved == UNCHANGED <<lineages, certs, enabled, nginx, narrowed, bared, adopted>>

LEMMA UnmovedFacts ==
  ASSUME Unmoved, NEW s
  PROVE  /\ Elsewhere(s)
         /\ EnabledOk(s)' = EnabledOk(s) /\ CertsOk(s)' = CertsOk(s)
         /\ FileOk(s)' = FileOk(s) /\ ServedOk(s)' = ServedOk(s)
         /\ Shown(s)' = Shown(s) /\ Whole(s)' = Whole(s)
<1>1. /\ lineages' = lineages /\ certs' = certs /\ enabled' = enabled /\ nginx' = nginx
      /\ narrowed' = narrowed /\ bared' = bared /\ adopted' = adopted
  BY DEF Unmoved
<1>2. Elsewhere(s)
  BY <1>1 DEF Elsewhere
<1>3. EnabledOk(s)' = EnabledOk(s) /\ CertsOk(s)' = CertsOk(s)
  BY <1>1 DEF EnabledOk, CertsOk
<1>4. Shown(s)' = Shown(s) /\ Whole(s)' = Whole(s)
  BY <1>1 DEF Shown, Whole
<1>5. FileOk(s)' = FileOk(s) /\ ServedOk(s)' = ServedOk(s)
  BY <1>1, <1>4 DEF FileOk, ServedOk
<1> QED
  BY <1>2, <1>3, <1>4, <1>5

\* The request ends with its site in order, or goes on as it should.
Settles(q, r, s) ==
    /\ Elsewhere(s)
    /\ \/ r = NoTask /\ InOrder(s)'
       \/ r.pc \notin Syncing /\ r.name = q.name /\ OwnSite(r, s)' /\ OwnWork(r, s)'

\* A task ends, or goes on.
LEMMA TaskEnds ==
  ASSUME NEW t, NEW q, NEW r, NEW s, Working(t, q, r, s), NEW o, End(t, o) \/ Fail(t)
  PROVE  r = NoTask
BY WorkingFacts DEF Fail, End, Typed

LEMMA TaskGoes ==
  ASSUME NEW t, NEW q, NEW r, NEW s, Working(t, q, r, s), NEW pc, Go(t, pc)
  PROVE  /\ r = [q EXCEPT !.pc = pc]
         /\ r.pc = pc /\ r.op = q.op /\ r.name = q.name /\ r.id = q.id /\ r.cert = q.cert
         /\ r.secure = q.secure /\ r.tls = q.tls
<1>1. r = [q EXCEPT !.pc = pc] /\ q \in TaskType
  BY WorkingFacts DEF Go, Typed
<1> QED
  BY <1>1 DEF TaskType

LEMMA TaskContinues ==
  ASSUME NEW t, NEW q, NEW r, NEW s, Working(t, q, r, s), NEW u, Continue(t, u)
  PROVE  r = u
BY WorkingFacts DEF Continue, Typed

-----------------------------------------------------------------------------
(* The steps on certbot *)

LEMMA CertbotSettles ==
  ASSUME NEW t, NEW q, NEW r, NEW s, Working(t, q, r, s), Certbot(t)
  PROVE  Settles(q, r, s)
<1>a. /\ Typed /\ q \in TaskType /\ q = tasks[t] /\ s = SiteOf(q.name) /\ s \in Sites
      /\ Concerns(q) = Members(s)
  BY WorkingFacts
<1>b. OwnSite(q, s) /\ OwnWork(q, s) /\ LineagesOwn
  BY DEF Working
<1>1. /\ q.pc = "certbot"
      /\ Continue(t, [q EXCEPT !.pc = "fetch", !.lineage = s])
      /\ UNCHANGED <<certs, enabled, nginx, narrowed, bared, adopted>>
      /\ \/ lineages[s] # None /\ lineages[s].covers = Members(s) /\ UNCHANGED lineages
         \/ Issue(s, Members(s))
  BY <1>a DEF Certbot, At, Working
<1>2. r = [q EXCEPT !.pc = "fetch", !.lineage = s]
  BY <1>1, TaskContinues
<1>3. r.pc = "fetch" /\ r.name = q.name /\ r.op = q.op /\ r.id = q.id
  BY <1>2, <1>a DEF TaskType
<1>4. /\ lineages'[s] # None /\ lineages'[s].covers = Members(s)
      /\ \A x \in Sites \ {s} : lineages'[x] = lineages[x]
  <2>1. s \in Isolated => Members(s) = {s}
    BY SslAssumption DEF Members
  <2> QED
    BY <1>1, <1>a, <1>b, <2>1, IssueOwn
<1>5. Elsewhere(s)
  BY <1>1, <1>4 DEF Elsewhere
<1>6. q.op = "issue" /\ q.id = IdOf(q.name)
  BY <1>1, <1>b DEF OwnWork
<1>7. OwnWork(r, s)'
  <2>1. IdOf(q.name)' = IdOf(q.name)
    BY <1>1 DEF IdOf
  <2> QED
    BY <1>3, <1>4, <1>6, <2>1 DEF OwnWork, Renewing
<1>8. OwnSite(r, s)'
  <2>1. ~narrowed' => EnabledOk(s)'
    BY <1>1, <1>b DEF OwnSite, EnabledOk
  <2>2. bared' = {} /\ r.name \notin Group => FileOk(s)'
    BY <1>1, <1>3, <1>4, <1>b DEF OwnSite, FileOk, Whole
  <2>3. bared' = {} => ServedOk(s)'
    BY <1>1, <1>b DEF OwnSite, ServedOk, Shown, Rewriting
  <2> QED
    BY <1>3, <2>1, <2>2, <2>3 DEF OwnSite
<1> QED
  BY <1>3, <1>5, <1>7, <1>8 DEF Settles, Syncing

LEMMA FetchSettles ==
  ASSUME NEW t, NEW q, NEW r, NEW s, Working(t, q, r, s), Fetch(t)
  PROVE  Settles(q, r, s)
<1>a. Typed /\ q \in TaskType /\ q = tasks[t] /\ s \in Sites /\ (q.pc \in OnCertbot => q.lineage = s)
  BY WorkingFacts
<1>b. OwnSite(q, s) /\ OwnWork(q, s)
  BY DEF Working
<1>1. q.pc = "fetch" /\ q.lineage = s /\ lineages[s] # None
  BY <1>a, <1>b DEF Fetch, At, OnCertbot, OwnWork
<1>2. Unmoved /\ Continue(t, [q EXCEPT !.pc = "persist", !.cert = lineages[s]])
  BY <1>1, <1>a DEF Fetch, Working, Unmoved
<1>3. r = [q EXCEPT !.pc = "persist", !.cert = lineages[s]]
  BY <1>2, TaskContinues
<1>4. r.pc = "persist" /\ r.name = q.name /\ r.op = q.op /\ r.id = q.id /\ r.cert = lineages[s]
  BY <1>3, <1>a DEF TaskType
<1>5. OwnWork(r, s)'
  <2>1. IdOf(q.name)' = IdOf(q.name) /\ lineages' = lineages /\ certs' = certs /\ narrowed' = narrowed
    BY <1>2 DEF IdOf, Unmoved
  <2> QED
    BY <1>1, <1>4, <1>b, <2>1 DEF OwnWork, Renewing
<1>6. OwnSite(r, s)'
  <2>1. UNCHANGED <<narrowed, bared>>
    BY <1>2 DEF Unmoved
  <2> QED
    BY <1>1, <1>2, <1>4, <1>b, <2>1, UnmovedFacts DEF OwnSite, Rewriting
<1> QED
  BY <1>2, <1>4, <1>5, <1>6, UnmovedFacts DEF Settles, Syncing

\* A request that ends where its site is in order.
LEMMA EndSettles ==
  ASSUME NEW t, NEW q, NEW r, NEW s, Working(t, q, r, s), NEW o, End(t, o) \/ Fail(t), Unmoved,
         q.pc \in {"resolve", "renew", "test", "reload"}
  PROVE  Settles(q, r, s)
<1>1. r = NoTask
  BY TaskEnds
<1>2. OwnSite(q, s) /\ (q.pc = "reload" => q.name \notin Group)
  BY DEF Working, OwnWork
<1>3. InOrder(s)
  BY <1>2 DEF OwnSite, InOrder, Rewriting
<1>4. UNCHANGED <<narrowed, bared>>
  BY DEF Unmoved
<1>5. InOrder(s)' /\ Elsewhere(s)
  BY <1>3, <1>4, UnmovedFacts DEF InOrder
<1> QED
  BY <1>1, <1>5 DEF Settles

LEMMA ResolveSettles ==
  ASSUME NEW t, NEW q, NEW r, NEW s, Working(t, q, r, s), Resolve(t)
  PROVE  Settles(q, r, s)
<1>a. /\ Typed /\ q \in TaskType /\ q = tasks[t] /\ s = SiteOf(q.name) /\ s \in Sites
      /\ q.name \in Names /\ q.name \in Members(s)
  BY WorkingFacts
<1>b. OwnSite(q, s) /\ OwnWork(q, s) /\ LineagesOwn
  BY DEF Working
<1>1. /\ q.pc = "resolve" /\ Unmoved
      /\ \/ \E x \in Covering(q.name) :
               Continue(t, [q EXCEPT !.lineage = x, !.pc = IF q.op = "renew" THEN "renew" ELSE "drop"])
         \/ Covering(q.name) = {} /\ (Fail(t) \/ Continue(t, [q EXCEPT !.pc = "clear"]))
  <2>1. Unmoved /\ q.pc = "resolve" /\ ~Fault
    BY <1>a DEF Resolve, At, Working, Unmoved
  <2>2. Covering(q.name) = {} => Fail(t) \/ Continue(t, [q EXCEPT !.pc = "clear"])
    BY <1>a, <2>1 DEF Resolve
  <2>3. \/ \E x \in Covering(q.name) :
              Continue(t, [q EXCEPT !.lineage = x, !.pc = IF q.op = "renew" THEN "renew" ELSE "drop"])
        \/ Covering(q.name) = {}
    BY <1>a, <2>1 DEF Resolve
  <2> QED
    BY <2>1, <2>2, <2>3
<1>2. /\ lineages' = lineages /\ certs' = certs /\ narrowed' = narrowed /\ bared' = bared
      /\ IdOf(q.name)' = IdOf(q.name)
  BY <1>1 DEF Unmoved, IdOf
<1>3. q.id = IdOf(q.name) /\ certs[q.name] # None
  BY <1>1, <1>b DEF OwnWork
<1>4. ASSUME r.pc \in {"renew", "drop", "clear"} PROVE OwnSite(r, s)'
  BY <1>1, <1>2, <1>4, <1>b, UnmovedFacts DEF OwnSite, Rewriting
<1>5. CASE \E x \in Covering(q.name) :
              Continue(t, [q EXCEPT !.lineage = x, !.pc = IF q.op = "renew" THEN "renew" ELSE "drop"])
  <2>1. PICK x \in Covering(q.name), pc \in {"renew", "drop"} :
           Continue(t, [q EXCEPT !.lineage = x, !.pc = pc])
    BY <1>5
  <2>2. lineages[s] # None
    BY <1>a, <1>b, <2>1, CoveringOwn
  <2>3. r = [q EXCEPT !.lineage = x, !.pc = pc]
    BY <2>1, TaskContinues
  <2>4. r.pc = pc /\ r.name = q.name /\ r.id = q.id
    BY <2>3, <1>a DEF TaskType
  <2>5. ~narrowed => certs[q.name].cert.version # 0
    BY <1>1, <1>3, <1>a, <1>b, <2>2 DEF OwnSite, CertsOk
  <2>6. OwnWork(r, s)'
    BY <1>2, <1>3, <2>1, <2>2, <2>4, <2>5 DEF OwnWork, Renewing
  <2> QED
    BY <1>1, <1>4, <2>1, <2>4, <2>6, UnmovedFacts DEF Settles, Syncing
<1>6. CASE Covering(q.name) = {} /\ Continue(t, [q EXCEPT !.pc = "clear"])
  <2>1. r = [q EXCEPT !.pc = "clear"]
    BY <1>6, TaskContinues
  <2>2. r.pc = "clear" /\ r.name = q.name /\ r.id = q.id
    BY <2>1, <1>a DEF TaskType
  <2>3. ~narrowed => lineages[s] = None
    BY <1>6, <1>a, LineageFacts DEF Covering
  <2>4. OwnWork(r, s)'
    BY <1>2, <1>3, <2>2, <2>3 DEF OwnWork, Renewing
  <2> QED
    BY <1>1, <1>4, <2>2, <2>4, UnmovedFacts DEF Settles, Syncing
<1> QED
  BY <1>1, <1>5, <1>6, EndSettles

LEMMA RenewSettles ==
  ASSUME NEW t, NEW q, NEW r, NEW s, Working(t, q, r, s), Renew(t)
  PROVE  Settles(q, r, s)
<1>a. Typed /\ q \in TaskType /\ q = tasks[t] /\ s \in Sites /\ (q.pc \in OnCertbot => q.lineage = s)
  BY WorkingFacts
<1>b. OwnSite(q, s) /\ OwnWork(q, s) /\ LineagesOwn
  BY DEF Working
<1>1. q.pc = "renew" /\ q.lineage = s /\ lineages[s] # None
  BY <1>a, <1>b DEF Renew, At, OnCertbot, OwnWork, Renewing
<1>2. /\ UNCHANGED <<certs, enabled, nginx, narrowed, bared, adopted>>
      /\ \/ Issue(s, lineages[s].covers) /\ Go(t, "fetch")
         \/ UNCHANGED lineages /\ (Fail(t) \/ Go(t, "wait") \/ Go(t, "fallback"))
  BY <1>1, <1>a DEF Renew, Working
<1>3. /\ q.id = IdOf(q.name) /\ IdOf(q.name)' = IdOf(q.name)
      /\ certs[q.name] # None /\ (~narrowed => certs[q.name].cert.version # 0)
  BY <1>1, <1>2, <1>b DEF OwnWork, Renewing, IdOf
<1>4. CASE Issue(s, lineages[s].covers) /\ Go(t, "fetch")
  <2>1. /\ lineages'[s] # None /\ lineages'[s].covers = lineages[s].covers
        /\ \A x \in Sites \ {s} : lineages'[x] = lineages[x]
    <3>1. lineages[s].covers \in SUBSET Members(s) /\ (s \in Isolated => lineages[s].covers = {s})
      BY <1>1, <1>a, <1>b DEF LineagesOwn
    <3> QED
      BY <1>4, <1>a, <1>b, <3>1, IssueOwn
  <2>2. r.pc = "fetch" /\ r.name = q.name /\ r.id = q.id
    BY <1>4, TaskGoes
  <2>3. Elsewhere(s)
    BY <1>2, <2>1 DEF Elsewhere
  <2>4. OwnWork(r, s)'
    BY <1>2, <1>3, <2>1, <2>2 DEF OwnWork, Renewing
  <2>5. OwnSite(r, s)'
    <3>1. ~narrowed' => EnabledOk(s)'
      BY <1>1, <1>2, <1>b DEF OwnSite, EnabledOk
    <3>2. bared' = {} => FileOk(s)'
      BY <1>1, <1>2, <1>b, <2>1 DEF OwnSite, FileOk, Whole, Rewriting
    <3>3. bared' = {} => ServedOk(s)'
      BY <1>1, <1>2, <1>b DEF OwnSite, ServedOk, Shown, Rewriting
    <3> QED
      BY <2>2, <3>1, <3>2, <3>3 DEF OwnSite
  <2> QED
    BY <2>2, <2>3, <2>4, <2>5 DEF Settles, Syncing
<1>5. CASE UNCHANGED lineages /\ (Fail(t) \/ Go(t, "wait") \/ Go(t, "fallback"))
  <2>1. Unmoved
    BY <1>2, <1>5 DEF Unmoved
  <2>2. CASE Fail(t)
    BY <1>1, <2>1, <2>2, EndSettles
  <2>3. CASE Go(t, "wait") \/ Go(t, "fallback")
    <3>1. r.pc \in {"wait", "fallback"} /\ r.name = q.name /\ r.id = q.id
      BY <2>3, TaskGoes
    <3>2. OwnWork(r, s)'
      BY <1>1, <1>2, <1>3, <1>5, <3>1 DEF OwnWork, Renewing
    <3>3. OwnSite(r, s)'
      BY <1>1, <1>2, <1>b, <2>1, <3>1, UnmovedFacts DEF OwnSite, Rewriting
    <3> QED
      BY <2>1, <3>1, <3>2, <3>3, UnmovedFacts DEF Settles, Syncing
  <2> QED
    BY <1>5, <2>2, <2>3
<1> QED
  BY <1>2, <1>4, <1>5

LEMMA WaitSettles ==
  ASSUME NEW t, NEW q, NEW r, NEW s, Working(t, q, r, s), Wait(t)
  PROVE  Settles(q, r, s)
<1> DEFINE w == IF q.waits < MaxWaits THEN q.waits + 1 ELSE q.waits
<1>a. q \in TaskType /\ q = tasks[t]
  BY WorkingFacts
<1>b. OwnSite(q, s) /\ OwnWork(q, s)
  BY DEF Working
<1>1. q.pc = "wait" /\ Unmoved /\ Continue(t, [q EXCEPT !.pc = "renew", !.waits = w])
  BY <1>a DEF Wait, At, Unmoved
<1> HIDE DEF w
<1>2. r = [q EXCEPT !.pc = "renew", !.waits = w]
  BY <1>1, TaskContinues
<1>3. r.pc = "renew" /\ r.name = q.name /\ r.id = q.id
  BY <1>2, <1>a DEF TaskType
<1>4. UNCHANGED <<lineages, certs, narrowed, bared>> /\ IdOf(q.name)' = IdOf(q.name)
  BY <1>1 DEF Unmoved, IdOf
<1>5. OwnWork(r, s)'
  BY <1>1, <1>3, <1>4, <1>b DEF OwnWork, Renewing
<1>6. OwnSite(r, s)'
  BY <1>1, <1>3, <1>4, <1>b, UnmovedFacts DEF OwnSite, Rewriting
<1> QED
  BY <1>1, <1>3, <1>5, <1>6, UnmovedFacts DEF Settles, Syncing

\* A fallback covers the site whole if it is of one domain; if not, it narrows.
LEMMA FallbackSettles ==
  ASSUME NEW t, NEW q, NEW r, NEW s, Working(t, q, r, s), Fallback(t)
  PROVE  Settles(q, r, s)
<1>a. /\ Typed /\ q \in TaskType /\ q = tasks[t] /\ s \in Sites /\ (q.pc \in OnCertbot => q.lineage = s)
      /\ q.name \in Members(s) /\ (q.name \notin Group => Members(s) = {q.name} /\ s = q.name)
      /\ q.name \in Group => s \notin Isolated
  BY WorkingFacts, SslAssumption
<1>b. OwnSite(q, s) /\ OwnWork(q, s) /\ LineagesOwn
  BY DEF Working
<1>1. q.pc = "fallback" /\ q.lineage = s
  BY <1>a DEF Fallback, At, OnCertbot
<1>2. /\ UNCHANGED <<certs, enabled, nginx, bared, adopted>>
      /\ Issue(s, {q.name}) /\ Go(t, "fetch") /\ narrowed' = (narrowed \/ q.name \in Group)
  BY <1>1, <1>a DEF Fallback, Working
<1>3. /\ lineages'[s] # None /\ lineages'[s].covers = {q.name}
      /\ \A x \in Sites \ {s} : lineages'[x] = lineages[x]
  BY <1>2, <1>a, <1>b, IssueOwn
<1>4. r.pc = "fetch" /\ r.name = q.name /\ r.id = q.id
  BY <1>2, TaskGoes
<1>5. Elsewhere(s)
  BY <1>2, <1>3 DEF Elsewhere
<1>6. OwnWork(r, s)'
  <2>1. /\ q.id = IdOf(q.name) /\ IdOf(q.name)' = IdOf(q.name)
        /\ certs[q.name] # None /\ (~narrowed => certs[q.name].cert.version # 0)
    BY <1>1, <1>2, <1>b DEF OwnWork, Renewing, IdOf
  <2> QED
    BY <1>2, <1>3, <1>4, <2>1 DEF OwnWork, Renewing
<1>7. OwnSite(r, s)'
  <2>1. ~narrowed' => EnabledOk(s)'
    BY <1>1, <1>2, <1>b DEF OwnSite, EnabledOk
  <2>2. bared' = {} /\ r.name \notin Group => FileOk(s)'
    BY <1>1, <1>2, <1>3, <1>4, <1>a, <1>b DEF OwnSite, FileOk, Whole
  <2>3. bared' = {} => ServedOk(s)'
    BY <1>1, <1>2, <1>b DEF OwnSite, ServedOk, Shown, Rewriting
  <2> QED
    BY <1>4, <2>1, <2>2, <2>3 DEF OwnSite
<1> QED
  BY <1>4, <1>5, <1>6, <1>7 DEF Settles, Syncing

LEMMA DropSettles ==
  ASSUME NEW t, NEW q, NEW r, NEW s, Working(t, q, r, s), Drop(t)
  PROVE  Settles(q, r, s)
<1>a. /\ Typed /\ q = tasks[t] /\ s \in Sites /\ (q.pc \in OnCertbot => q.lineage = s)
      /\ q.name \notin Group => s \in Isolated
  BY WorkingFacts
<1>b. OwnSite(q, s) /\ OwnWork(q, s)
  BY DEF Working
<1>1. q.pc = "drop" /\ q.lineage = s /\ lineages[s] # None
  BY <1>a, <1>b DEF Drop, At, OnCertbot, OwnWork
<1>2. /\ UNCHANGED <<certs, enabled, nginx, narrowed, adopted>>
      /\ lineages' = [lineages EXCEPT ![s] = None] /\ bared' = bared \cup ({s} \cap Isolated)
      /\ Go(t, "clear")
  BY <1>1, <1>a DEF Drop, Working
<1>3. lineages'[s] = None /\ \A x \in Sites \ {s} : lineages'[x] = lineages[x]
  BY <1>2, <1>a DEF Typed
<1>4. r.pc = "clear" /\ r.name = q.name /\ r.id = q.id
  BY <1>2, TaskGoes
<1>5. Elsewhere(s)
  BY <1>2, <1>3 DEF Elsewhere
<1>6. OwnWork(r, s)'
  <2>1. q.id = IdOf(q.name) /\ IdOf(q.name)' = IdOf(q.name)
    BY <1>1, <1>2, <1>b DEF OwnWork, IdOf
  <2> QED
    BY <1>3, <1>4, <2>1 DEF OwnWork, Renewing
<1>7. OwnSite(r, s)'
  <2>1. ~narrowed' => EnabledOk(s)'
    BY <1>1, <1>2, <1>b DEF OwnSite, EnabledOk
  <2>2. bared' = {} => bared = {} /\ q.name \in Group
    BY <1>2, <1>a
  <2>3. bared' = {} => ServedOk(s)'
    BY <1>1, <1>2, <1>b, <2>2 DEF OwnSite, ServedOk, Shown, Rewriting
  <2> QED
    BY <1>4, <2>1, <2>2, <2>3 DEF OwnSite
<1> QED
  BY <1>4, <1>5, <1>6, <1>7 DEF Settles, Syncing

-----------------------------------------------------------------------------
(* The steps on rows and files *)

LEMMA PersistSettles ==
  ASSUME NEW t, NEW q, NEW r, NEW s, Working(t, q, r, s), Persist(t)
  PROVE  Settles(q, r, s)
<1>a. /\ Typed /\ q \in TaskType /\ q = tasks[t] /\ s \in Sites /\ s \in Members(s)
      /\ q.name \in Names /\ q.name \in Members(s) /\ Members(s) \subseteq Names
      /\ q.name \in Group => Members(s) = Group
      /\ q.name \notin Group => Members(s) = {q.name} /\ s = q.name
      /\ Shared(q) <=> q.name \in Group
  BY WorkingFacts
<1>b. OwnSite(q, s) /\ OwnWork(q, s) /\ q.cert \in Certificate
  BY <1>a DEF Working, TaskType
<1>1. q.pc = "persist" /\ UNCHANGED <<lineages, nginx, narrowed, bared, adopted>>
  BY <1>a DEF Persist, At
<1>2. lineages[s] # None /\ q.cert = lineages[s] /\ q.cert.version # 0 /\ q.id = IdOf(q.name)
  BY <1>1, <1>b, LineageFacts DEF OwnWork
<1>3. /\ Recorded(Members(s), q.cert)
      /\ IF q.name \in Group
         THEN /\ enabled' = enabled \cup Group
              /\ Continue(t, [q EXCEPT !.pc = IF q.op = "issue" THEN "confirm" ELSE "gather"])
         ELSE /\ UNCHANGED enabled
              /\ Continue(t, [q EXCEPT !.pc = IF q.op = "issue" THEN "enable" ELSE "reload"])
  BY <1>2, <1>a DEF Persist
<1>4. /\ \A n \in Members(s) : certs'[n] # None /\ certs'[n].cert = q.cert
      /\ \A n \in Names \ Members(s) : certs'[n] = certs[n]
  <2>1. Members(s) \in SUBSET Names
    BY <1>a
  <2> QED
    BY <1>3, <1>a, <1>b, <2>1, RecordedRows
<1>5. Elsewhere(s)
  <2>1. \A x \in Sites \ {s} : \A n \in Members(x) : n \notin Members(s) /\ n \in Names
    BY <1>a, SitesApart, SiteFacts
  <2>2. \A x \in Sites \ {s} : \A n \in Members(x) : certs'[n] = certs[n]
    BY <1>4, <2>1
  <2>3. \A x \in Sites \ {s} : \A n \in Members(x) : n \in enabled' <=> n \in enabled
    BY <1>3, <1>a, <2>1
  <2> QED
    BY <1>1, <2>2, <2>3 DEF Elsewhere
<1>6. CertsOk(s)'
  BY <1>1, <1>2, <1>4 DEF CertsOk
<1>7. CASE q.name \in Group
  <2>1. PICK pc \in {"confirm", "gather"} : Continue(t, [q EXCEPT !.pc = pc])
    BY <1>3, <1>7
  <2>2. r = [q EXCEPT !.pc = pc]
    BY <2>1, TaskContinues
  <2>3. r.pc = pc /\ r.name = q.name
    BY <2>2, <1>a DEF TaskType
  <2>4. EnabledOk(s)'
    BY <1>3, <1>4, <1>7, <1>a DEF EnabledOk
  <2>5. OwnSite(r, s)'
    BY <1>6, <1>7, <2>1, <2>3, <2>4 DEF OwnSite, Rewriting
  <2>6. OwnWork(r, s)'
    BY <1>4, <1>7, <1>a, <2>1, <2>3 DEF OwnWork, Renewing
  <2> QED
    BY <1>5, <2>1, <2>3, <2>5, <2>6 DEF Settles, Syncing
<1>8. CASE q.name \notin Group
  <2>1. PICK pc \in {"enable", "reload"} :
           Continue(t, [q EXCEPT !.pc = pc]) /\ (pc = "enable" <=> q.op = "issue")
    BY <1>3, <1>8
  <2>2. r = [q EXCEPT !.pc = pc]
    BY <2>1, TaskContinues
  <2>3. r.pc = pc /\ r.name = q.name
    BY <2>2, <1>a DEF TaskType
  <2>4. q.op # "issue" => certs[s] # None /\ (~narrowed => certs[s].cert.version # 0)
    BY <1>1, <1>8, <1>a, <1>b DEF OwnWork
  <2>5. ~narrowed' /\ q.op # "issue" => EnabledOk(s)'
    BY <1>1, <1>3, <1>4, <1>8, <1>a, <1>b, <2>4 DEF OwnSite, EnabledOk
  <2>6. bared' = {} => FileOk(s)'
    BY <1>1, <1>8, <1>b DEF OwnSite, FileOk, Whole
  <2>7. bared' = {} /\ q.op # "issue" => ServedOk(s)'
    BY <1>1, <1>b, <2>4 DEF OwnSite, ServedOk, Shown, Rewriting
  <2>8. OwnSite(r, s)'
    BY <1>6, <2>1, <2>3, <2>5, <2>6, <2>7 DEF OwnSite, Rewriting
  <2>9. OwnWork(r, s)'
    BY <1>1, <1>2, <1>4, <1>8, <1>a, <2>1, <2>3 DEF OwnWork, Renewing
  <2> QED
    BY <1>5, <2>1, <2>3, <2>8, <2>9 DEF Settles, Syncing
<1> QED
  BY <1>7, <1>8

LEMMA ConfirmSettles ==
  ASSUME NEW t, NEW q, NEW r, NEW s, Working(t, q, r, s), Confirm(t)
  PROVE  Settles(q, r, s)
<1>b. q = tasks[t] /\ OwnSite(q, s) /\ OwnWork(q, s)
  BY DEF Working
<1>1. q.pc = "confirm" /\ Unmoved /\ Go(t, "gather")
  BY <1>b DEF Confirm, At, Unmoved, OwnWork
<1>2. r.pc = "gather" /\ r.name = q.name
  BY <1>1, TaskGoes
<1>3. UNCHANGED <<narrowed, bared>> /\ q.name \in Group
  BY <1>1, <1>b DEF Unmoved, OwnWork
<1>4. OwnWork(r, s)'
  BY <1>2, <1>3 DEF OwnWork, Renewing
<1>5. OwnSite(r, s)'
  BY <1>1, <1>2, <1>3, <1>b, UnmovedFacts DEF OwnSite, Rewriting
<1> QED
  BY <1>1, <1>2, <1>4, <1>5, UnmovedFacts DEF Settles, Syncing

LEMMA EnableSettles ==
  ASSUME NEW t, NEW q, NEW r, NEW s, Working(t, q, r, s), Enable(t)
  PROVE  Settles(q, r, s)
<1>a. /\ Typed /\ q \in TaskType /\ q = tasks[t] /\ s \in Sites
      /\ q.name \notin Group => Members(s) = {q.name} /\ s = q.name
  BY WorkingFacts
<1>b. OwnSite(q, s) /\ OwnWork(q, s)
  BY DEF Working
<1>1. /\ q.pc = "enable" /\ enabled' = enabled \cup {q.name}
      /\ UNCHANGED <<lineages, certs, nginx, narrowed, bared, adopted>>
      /\ Continue(t, [q EXCEPT !.pc = "choose", !.secure = TRUE])
  BY <1>a DEF Enable, At
<1>2. r = [q EXCEPT !.pc = "choose", !.secure = TRUE]
  BY <1>1, TaskContinues
<1>3. r.pc = "choose" /\ r.name = q.name /\ r.secure
  BY <1>2, <1>a DEF TaskType
<1>4. /\ q.name \notin Group /\ lineages[s] # None
      /\ certs[q.name] # None /\ certs[q.name].cert = lineages[s]
  BY <1>1, <1>b DEF OwnWork
<1>5. Elsewhere(s)
  <2>1. \A x \in Sites \ {s} : \A n \in Members(x) : n # q.name
    BY <1>4, <1>a, SitesApart
  <2> QED
    BY <1>1, <2>1 DEF Elsewhere
<1>6. EnabledOk(s)'
  BY <1>1, <1>4, <1>a DEF EnabledOk
<1>7. CertsOk(s)'
  BY <1>1, <1>4, <1>a, LineageFacts DEF CertsOk
<1>8. bared' = {} => FileOk(s)'
  BY <1>1, <1>4, <1>b DEF OwnSite, FileOk, Whole
<1>9. OwnSite(r, s)'
  BY <1>3, <1>6, <1>7, <1>8 DEF OwnSite, Rewriting
<1>10. OwnWork(r, s)'
  BY <1>3 DEF OwnWork, Renewing
<1> QED
  BY <1>3, <1>5, <1>9, <1>10 DEF Settles, Syncing

LEMMA ClearSettles ==
  ASSUME NEW t, NEW q, NEW r, NEW s, Working(t, q, r, s), Clear(t)
  PROVE  Settles(q, r, s)
<1>a. /\ Typed /\ q = tasks[t] /\ s \in Sites /\ s \in Members(s) /\ Members(q.name) = Members(s)
      /\ Members(s) \subseteq Names /\ q.name \in Members(s)
      /\ q.name \in Group => Members(s) = Group
      /\ q.name \notin Group => Members(s) = {q.name} /\ s = q.name
      /\ Concerns(q) = Members(s) /\ (Shared(q) <=> q.name \in Group)
  BY WorkingFacts
<1>b. OwnSite(q, s) /\ OwnWork(q, s)
  BY DEF Working
<1>1. q.pc = "clear" /\ UNCHANGED <<lineages, nginx, narrowed, bared, adopted>>
  BY <1>a DEF Clear, At
<1>2. q.id = IdOf(q.name)
  BY <1>1, <1>b DEF OwnWork
<1>3. /\ certs' = [m \in Names |-> IF m \in Members(s) THEN None ELSE certs[m]]
      /\ enabled' = IF q.name \in Group THEN enabled \ Group ELSE enabled
      /\ Go(t, IF q.name \in Group THEN "gather" ELSE "disable")
  BY <1>2, <1>a DEF Clear, Cleared
<1>4. /\ \A n \in Members(s) : certs'[n] = None
      /\ \A n \in Names \ Members(s) : certs'[n] = certs[n]
  BY <1>3, <1>a
<1>5. Elsewhere(s)
  <2>1. \A x \in Sites \ {s} : \A n \in Members(x) : n \notin Members(s) /\ n \in Names
    BY <1>a, SitesApart, SiteFacts
  <2>2. \A x \in Sites \ {s} : \A n \in Members(x) : certs'[n] = certs[n]
    BY <1>4, <2>1
  <2>3. \A x \in Sites \ {s} : \A n \in Members(x) : n \in enabled' <=> n \in enabled
    BY <1>3, <1>a, <2>1
  <2> QED
    BY <1>1, <2>2, <2>3 DEF Elsewhere
<1>6. PICK pc \in {"gather", "disable"} : Go(t, pc) /\ (pc = "gather" <=> q.name \in Group)
  BY <1>3
<1>7. r.pc = pc /\ r.name = q.name
  BY <1>6, TaskGoes
<1>8. CertsOk(s)'
  BY <1>4 DEF CertsOk
<1>9. q.name \in Group => EnabledOk(s)'
  BY <1>3, <1>4, <1>a DEF EnabledOk
<1>10. bared' = {} /\ q.name \notin Group => FileOk(s)'
  BY <1>1, <1>b DEF OwnSite, FileOk, Whole
<1>11. ServedOk(s)'
  BY <1>4, <1>a DEF ServedOk, Shown
<1>12. OwnSite(r, s)'
  BY <1>6, <1>7, <1>8, <1>9, <1>10, <1>11 DEF OwnSite, Rewriting
<1>13. OwnWork(r, s)'
  BY <1>4, <1>6, <1>7, <1>a DEF OwnWork, Renewing
<1> QED
  BY <1>5, <1>6, <1>7, <1>12, <1>13 DEF Settles, Syncing

LEMMA DisableSettles ==
  ASSUME NEW t, NEW q, NEW r, NEW s, Working(t, q, r, s), Disable(t)
  PROVE  Settles(q, r, s)
<1>a. /\ Typed /\ q = tasks[t] /\ s \in Sites
      /\ q.name \notin Group => Members(s) = {q.name} /\ s = q.name
  BY WorkingFacts
<1>b. OwnSite(q, s) /\ OwnWork(q, s)
  BY DEF Working
<1>1. /\ q.pc = "disable" /\ enabled' = enabled \ {q.name} /\ End(t, "COMPLETED")
      /\ UNCHANGED <<lineages, certs, nginx, narrowed, bared, adopted>>
  BY <1>a DEF Disable, At
<1>2. q.name \notin Group /\ certs[q.name] = None
  BY <1>1, <1>b DEF OwnWork
<1>3. r = NoTask
  BY <1>1, TaskEnds
<1>4. Elsewhere(s)
  <2>1. \A x \in Sites \ {s} : \A n \in Members(x) : n # q.name
    BY <1>2, <1>a, SitesApart
  <2> QED
    BY <1>1, <2>1 DEF Elsewhere
<1>5. EnabledOk(s)' /\ CertsOk(s)'
  BY <1>1, <1>2, <1>a DEF EnabledOk, CertsOk
<1>6. bared' = {} => FileOk(s)'
  BY <1>1, <1>2, <1>b DEF OwnSite, FileOk, Whole
<1>7. bared' = {} => ServedOk(s)'
  BY <1>1, <1>b DEF OwnSite, ServedOk, Shown, Rewriting
<1> QED
  BY <1>3, <1>4, <1>5, <1>6, <1>7 DEF Settles, InOrder

LEMMA GatherSettles ==
  ASSUME NEW t, NEW q, NEW r, NEW s, Working(t, q, r, s), Gather(t)
  PROVE  Settles(q, r, s)
<1> DEFINE b == enabled \cap Group # {}
<1>a. /\ q \in TaskType /\ q = tasks[t] /\ s \in Members(s)
      /\ q.name \in Group => Members(s) = Group
  BY WorkingFacts
<1>b. OwnSite(q, s) /\ OwnWork(q, s)
  BY DEF Working
<1>1. q.pc = "gather" /\ Unmoved /\ Continue(t, [q EXCEPT !.pc = "choose", !.secure = b])
  BY <1>a DEF Gather, At, Unmoved
<1>2. r = [q EXCEPT !.pc = "choose", !.secure = b]
  BY <1>1, TaskContinues
<1>3. r.pc = "choose" /\ r.name = q.name /\ r.secure = b
  <2> HIDE DEF b
  <2> QED
    BY <1>2, <1>a DEF TaskType
<1>4. UNCHANGED <<narrowed, bared>>
  BY <1>1 DEF Unmoved
<1>5. Shown(s) => b
  <2>1. q.name \in Group
    BY <1>1, <1>b DEF OwnWork
  <2>2. ~narrowed => EnabledOk(s)
    BY <1>1, <1>b DEF OwnSite
  <2> QED
    BY <1>a, <2>1, <2>2 DEF Shown, EnabledOk
<1> HIDE DEF b
<1>6. OwnWork(r, s)'
  BY <1>1, <1>3, <1>5, UnmovedFacts DEF OwnWork, Renewing
<1>7. OwnSite(r, s)'
  BY <1>1, <1>3, <1>4, <1>b, UnmovedFacts DEF OwnSite, Rewriting
<1> QED
  BY <1>1, <1>3, <1>6, <1>7, UnmovedFacts DEF Settles, Syncing

\* What is usable is the lineage of the site.
LEMMA ChooseSettles ==
  ASSUME NEW t, NEW q, NEW r, NEW s, Working(t, q, r, s), Choose(t)
  PROVE  Settles(q, r, s)
<1>a. /\ Typed /\ q \in TaskType /\ q = tasks[t] /\ s \in Sites /\ s \in Names /\ SiteOf(s) = s
      /\ s = SiteOf(q.name) /\ s \in Members(s) /\ Concerns(q) = Members(s)
  BY WorkingFacts
<1>b. OwnSite(q, s) /\ OwnWork(q, s) /\ LineagesOwn
  BY DEF Working
<1>1. /\ q.pc = "choose" /\ Unmoved
      /\ \E x \in Sites \cup {None} :
            /\ Continue(t, [q EXCEPT !.pc = "write", !.tls = x])
            /\ x \in Usable(q) \/ (x = None /\ Usable(q) = {})
  <2>1. q.pc = "choose" /\ Unmoved /\ ~Fault
    BY <1>a DEF Choose, At, Unmoved, Working
  <2>2. \/ \E x \in Usable(q) : Continue(t, [q EXCEPT !.pc = "write", !.tls = x])
        \/ Usable(q) = {} /\ Continue(t, [q EXCEPT !.pc = "write", !.tls = None])
    BY <1>a, <2>1 DEF Choose
  <2>3. Usable(q) \subseteq Sites
    BY DEF Usable, Covering
  <2> QED
    BY <2>1, <2>2, <2>3
<1>2. PICK x \in Sites \cup {None} :
            /\ Continue(t, [q EXCEPT !.pc = "write", !.tls = x])
            /\ x \in Usable(q) \/ (x = None /\ Usable(q) = {})
  BY <1>1
<1>3. r = [q EXCEPT !.pc = "write", !.tls = x]
  BY <1>2, TaskContinues
<1>4. r.pc = "write" /\ r.name = q.name /\ r.tls = x
  BY <1>3, <1>a DEF TaskType
<1>5. x \in Usable(q) => x = s /\ Whole(s)
  <2>1. x \in Usable(q) => x \in Covering(s) /\ Members(s) \subseteq lineages[x].covers
    BY <1>a DEF Usable
  <2> QED
    BY <1>a, <1>b, <2>1, CoveringOwn DEF Whole
<1>6. Shown(s) => Usable(q) # {}
  <2>1. SUFFICES ASSUME Shown(s) PROVE s \in Usable(q)
    OBVIOUS
  <2>2. q.secure /\ lineages[s] # None
    BY <1>1, <1>a, <1>b, <2>1 DEF OwnWork, OwnSite, CertsOk, Shown
  <2>3. lineages[s].covers = Members(s)
    BY <2>1, <2>2, LineageFacts DEF Shown
  <2> QED
    BY <1>a, <2>2, <2>3 DEF Usable, Covering
<1>7. (Shown(s) => x = s) /\ (x # None => x = s /\ Whole(s))
  BY <1>2, <1>5, <1>6
<1>8. OwnWork(r, s)'
  BY <1>1, <1>4, <1>7, UnmovedFacts DEF OwnWork, Renewing
<1>9. OwnSite(r, s)'
  <2>1. UNCHANGED <<narrowed, bared>>
    BY <1>1 DEF Unmoved
  <2> QED
    BY <1>1, <1>4, <1>b, <2>1, UnmovedFacts DEF OwnSite, Rewriting
<1> QED
  BY <1>1, <1>4, <1>8, <1>9, UnmovedFacts DEF Settles, Syncing

LEMMA WriteSettles ==
  ASSUME NEW t, NEW q, NEW r, NEW s, Working(t, q, r, s), Write(t)
  PROVE  Settles(q, r, s)
<1>a. Typed /\ q = tasks[t] /\ s = SiteOf(q.name) /\ s \in Sites
  BY WorkingFacts
<1>b. OwnSite(q, s) /\ OwnWork(q, s)
  BY DEF Working
<1>1. /\ q.pc = "write" /\ nginx' = [nginx EXCEPT ![s] = [there |-> TRUE, tls |-> q.tls]]
      /\ Go(t, "test") /\ UNCHANGED <<lineages, certs, enabled, narrowed, bared, adopted>>
  BY <1>a DEF Write, At, Working
<1>2. nginx'[s] = [there |-> TRUE, tls |-> q.tls] /\ \A x \in Sites \ {s} : nginx'[x] = nginx[x]
  BY <1>1, <1>a DEF Typed
<1>3. r.pc = "test" /\ r.name = q.name
  BY <1>1, TaskGoes
<1>4. Elsewhere(s)
  BY <1>1, <1>2 DEF Elsewhere
<1>5. /\ Shown(s) => q.tls = s
      /\ q.tls # None => q.tls = s /\ Whole(s)
  BY <1>1, <1>b DEF OwnWork
<1>6. Shown(s)' = Shown(s) /\ Whole(s)' = Whole(s)
  BY <1>1 DEF Shown, Whole
<1>7. FileOk(s)' /\ ServedOk(s)'
  BY <1>2, <1>5, <1>6 DEF FileOk, ServedOk
<1>8. ~narrowed' => EnabledOk(s)' /\ CertsOk(s)'
  BY <1>1, <1>b DEF OwnSite, EnabledOk, CertsOk
<1>9. OwnSite(r, s)'
  BY <1>7, <1>8 DEF OwnSite
<1>10. OwnWork(r, s)'
  BY <1>3 DEF OwnWork, Renewing
<1> QED
  BY <1>3, <1>4, <1>9, <1>10 DEF Settles, Syncing

\* Nginx accepts the files of sites in order.
LEMMA OrderAccepted ==
  ASSUME \A x \in Sites : FileOk(x)
  PROVE  Accepted
BY DEF FileOk, Whole, Accepted

LEMMA TestSettles ==
  ASSUME NEW t, NEW q, NEW r, NEW s, Working(t, q, r, s), Test(t)
  PROVE  Settles(q, r, s)
<1>a. Typed /\ q = tasks[t] /\ s = SiteOf(q.name) /\ s \in Sites
  BY WorkingFacts
<1>b. OwnSite(q, s) /\ OwnWork(q, s)
  BY DEF Working
<1>1. /\ q.pc = "test" /\ UNCHANGED <<lineages, certs, enabled, narrowed, bared, adopted>>
      /\ \/ End(t, "COMPLETED") /\ UNCHANGED nginx
         \/ ~Accepted /\ Fail(t) /\ nginx' = Removed(s)
  BY <1>a DEF Test, At, Working
<1>2. CASE End(t, "COMPLETED") /\ UNCHANGED nginx
  BY <1>1, <1>2, EndSettles DEF Unmoved
<1>3. CASE ~Accepted /\ Fail(t) /\ nginx' = Removed(s)
  <2>1. r = NoTask
    BY <1>3, TaskEnds
  <2>2. \A x \in Sites \ {s} : nginx'[x] = nginx[x]
    BY <1>3, <1>a DEF Removed, Typed
  <2>3. Elsewhere(s)
    BY <1>1, <2>2 DEF Elsewhere
  <2>4. bared # {}
    <3>1. bared = {} => FileOk(s)
      BY <1>1, <1>b DEF OwnSite, Rewriting
    <3>2. bared = {} => \A x \in Sites \ {s} : FileOk(x)
      BY DEF Working, InOrder
    <3> QED
      BY <1>3, <3>1, <3>2, OrderAccepted
  <2>5. ~narrowed' => EnabledOk(s)' /\ CertsOk(s)'
    BY <1>1, <1>b DEF OwnSite, EnabledOk, CertsOk
  <2> QED
    BY <1>1, <2>1, <2>3, <2>4, <2>5 DEF Settles, InOrder
<1> QED
  BY <1>1, <1>2, <1>3

LEMMA ReloadSettles ==
  ASSUME NEW t, NEW q, NEW r, NEW s, Working(t, q, r, s), Reload(t)
  PROVE  Settles(q, r, s)
<1>1. tasks[t] = q
  BY DEF Working
<1>2. q.pc = "reload" /\ Unmoved /\ (End(t, "COMPLETED") \/ Fail(t))
  BY <1>1 DEF Reload, At, Unmoved
<1> QED
  BY <1>2, EndSettles

LEMMA StepSettles ==
  ASSUME NEW t, NEW q, NEW r, NEW s, Working(t, q, r, s), Step(t)
  PROVE  Settles(q, r, s)
<1>1. ~List(t) /\ ~ReadNames(t) /\ ~Details(t) /\ ~Read(t) /\ ~Merge(t)
  BY DEF Working, Syncing, List, ReadNames, Details, Read, Merge, At
<1>2. CASE Certbot(t) \/ Fetch(t) \/ Resolve(t) \/ Renew(t) \/ Wait(t) \/ Fallback(t) \/ Drop(t)
  BY <1>2, CertbotSettles, FetchSettles, ResolveSettles, RenewSettles, WaitSettles, FallbackSettles,
     DropSettles
<1>3. CASE Persist(t) \/ Confirm(t) \/ Enable(t) \/ Clear(t) \/ Disable(t)
  BY <1>3, PersistSettles, ConfirmSettles, EnableSettles, ClearSettles, DisableSettles
<1>4. CASE Gather(t) \/ Choose(t) \/ Write(t) \/ Test(t) \/ Reload(t)
  BY <1>4, GatherSettles, ChooseSettles, WriteSettles, TestSettles, ReloadSettles
<1> QED
  BY <1>1, <1>2, <1>3, <1>4 DEF Step

-----------------------------------------------------------------------------
(* The steps of a sync *)

\* A sync at work, alone and without a fault, where every site is in order.
Comparing(t, q, r) ==
    /\ Inv /\ LineagesOwn /\ ~Fault
    /\ t \in Tasks /\ q = tasks[t] /\ r = tasks'[t]
    /\ AllInOrder /\ SyncWork(q)

Compares(r) ==
    /\ AllInOrder'
    /\ r = NoTask \/ (r.pc \in {"names", "details", "merge"} /\ SyncWork(r)')

LEMMA StillInOrder ==
  ASSUME AllInOrder, Unmoved
  PROVE  AllInOrder'
<1>1. UNCHANGED <<narrowed, bared>>
  BY DEF Unmoved
<1>2. ASSUME NEW s \in Sites PROVE InOrder(s)'
  <2>1. InOrder(s)
    BY DEF AllInOrder
  <2> QED
    BY <1>1, <2>1, UnmovedFacts DEF InOrder
<1> QED
  BY <1>2 DEF AllInOrder

\* What a sync knows stays true while nothing moves.
LEMMA NowStays == Unmoved => (\A s : Now(s)' = Now(s)) /\ lineages' = lineages
BY DEF Unmoved, Now

LEMMA ListCompares ==
  ASSUME NEW t, NEW q, NEW r, Comparing(t, q, r), List(t)
  PROVE  Compares(r)
<1> DEFINE names == {s \in Sites : lineages[s] # None}
<1>1. Typed /\ q = tasks[t] /\ q \in TaskType /\ t \in Tasks /\ r = tasks'[t] /\ ~Fault /\ SyncWork(q)
  BY TypedOK DEF Comparing, Inv, Typed
<1>2. q.pc = "list" /\ Unmoved /\ Continue(t, [q EXCEPT !.pc = "names", !.left = names])
  BY <1>1 DEF List, At, Unmoved
<1>3. \A s \in Sites : q.seen[s] = NoCert
  BY <1>1, <1>2 DEF SyncWork
<1>4. r = [q EXCEPT !.pc = "names", !.left = names]
  BY <1>1, <1>2 DEF Continue, Typed
<1>5. r.pc = "names" /\ r.left = names /\ r.seen = q.seen
  <2> HIDE DEF names
  <2> QED
    BY <1>1, <1>4 DEF TaskType
<1>6. \A s \in Sites : s \in r.left \/ r.seen[s] = Now(s)
  BY <1>3, <1>5 DEF Now
<1>7. SyncWork(r)'
  BY <1>2, <1>5, <1>6, NowStays DEF SyncWork
<1> QED
  BY <1>2, <1>5, <1>7, StillInOrder DEF Compares, Comparing

\* A certificate is its version and its names.
LEMMA SameCertificate ==
  ASSUME NEW c \in Certificate, NEW d \in Certificate, c.version = d.version, c.covers = d.covers
  PROVE  c = d
BY DEF Certificate

LEMMA ReadNamesCompares ==
  ASSUME NEW t, NEW q, NEW r, Comparing(t, q, r), ReadNames(t)
  PROVE  Compares(r)
<1>1. /\ Typed /\ q = tasks[t] /\ q \in TaskType /\ t \in Tasks /\ r = tasks'[t] /\ ~Fault
      /\ TypeOK /\ Formed /\ SyncWork(q)
  BY TypedOK DEF Comparing, Inv, Typed
<1>2. q.pc = "names" /\ Unmoved /\ r.pc = "details"
  <2>1. PICK s, names :
           Continue(t, [q EXCEPT !.pc = "details", !.lineage = s, !.left = @ \ {s}, !.seen[s].covers = names])
    BY <1>1 DEF ReadNames
  <2>2. r = [q EXCEPT !.pc = "details", !.lineage = s, !.left = @ \ {s}, !.seen[s].covers = names]
    BY <1>1, <2>1 DEF Continue, Typed
  <2>3. r.pc = "details"
    BY <1>1, <2>2 DEF TaskType
  <2> QED
    BY <1>1, <2>3 DEF ReadNames, At, Unmoved
<1>3. ~Fail(t)
  BY <1>1, <1>2, NoTaskType DEF Fail, End, Typed
<1>4. PICK s \in Sites : ReadOf(t, s)
  BY <1>1, <1>3, ReadTask
<1>5. /\ s \in q.left /\ r.lineage = s /\ r.left = q.left \ {s}
      /\ r.seen[s].covers = IF lineages[s] = None THEN {} ELSE lineages[s].covers
      /\ \A x \in Sites \ {s} : r.seen[x] = q.seen[x]
  BY <1>1, <1>2, <1>4 DEF ReadOf, NamesRead, RestRead
<1>6. /\ \A x \in q.left : lineages[x] # None
      /\ \A x \in Sites : x \in q.left \/ q.seen[x] = Now(x)
  BY <1>1, <1>2 DEF SyncWork
<1>7. r.seen[s].covers = Now(s).covers
  BY <1>5, <1>6 DEF Now
<1>8. \A x \in Sites : x \in r.left \/ x = s \/ r.seen[x] = Now(x)
  BY <1>5, <1>6
<1>9. SyncWork(r)'
  BY <1>2, <1>5, <1>6, <1>7, <1>8, NowStays DEF SyncWork
<1> QED
  BY <1>2, <1>9, StillInOrder DEF Compares, Comparing

LEMMA DetailsCompares ==
  ASSUME NEW t, NEW q, NEW r, Comparing(t, q, r), Details(t)
  PROVE  Compares(r)
<1>1. /\ Typed /\ q = tasks[t] /\ q \in TaskType /\ t \in Tasks /\ r = tasks'[t] /\ ~Fault
      /\ TypeOK /\ Formed /\ SyncWork(q)
  BY TypedOK DEF Comparing, Inv, Typed
<1>2. q.pc = "details" /\ Unmoved
  BY <1>1 DEF Details, At, Unmoved
<1>3. CASE Fail(t)
  <2>1. r = NoTask
    BY <1>1, <1>3 DEF Fail, End, Typed
  <2> QED
    BY <1>2, <2>1, StillInOrder DEF Compares, Comparing
<1>4. CASE ~Fail(t)
  <2>1. PICK s \in Sites : ReadOf(t, s)
    BY <1>1, <1>4, ReadTask
  <2>2. /\ s = q.lineage /\ lineages[s] # None /\ r.pc = "names" /\ r.left = q.left
        /\ r.seen[s].covers = q.seen[s].covers /\ r.seen[s].version = lineages[s].version
        /\ r \in TaskType /\ \A x \in Sites \ {s} : r.seen[x] = q.seen[x]
    BY <1>1, <1>2, <2>1 DEF ReadOf, NamesRead, RestRead
  <2>3. /\ \A x \in q.left : lineages[x] # None
        /\ q.seen[s].covers = Now(s).covers
        /\ \A x \in Sites : x \in q.left \/ x = s \/ q.seen[x] = Now(x)
    BY <1>1, <1>2, <2>2 DEF SyncWork
  <2>4. r.seen[s] = Now(s)
    <3>1. r.seen[s] \in Certificate /\ lineages[s] \in Certificate /\ Now(s) = lineages[s]
      BY <1>1, <2>2 DEF TaskType, Typed, Now
    <3> QED
      BY <2>2, <2>3, <3>1, SameCertificate
  <2>5. \A x \in Sites : x \in r.left \/ r.seen[x] = Now(x)
    BY <2>2, <2>3, <2>4
  <2>6. SyncWork(r)'
    BY <1>2, <2>2, <2>3, <2>5, NowStays DEF SyncWork
  <2> QED
    BY <1>2, <2>2, <2>6, StillInOrder DEF Compares, Comparing
<1> QED
  BY <1>3, <1>4

LEMMA ReadCompares ==
  ASSUME NEW t, NEW q, NEW r, Comparing(t, q, r), Read(t)
  PROVE  Compares(r)
<1> DEFINE known == [n \in Names |-> IdOf(n)]
<1>1. Typed /\ q = tasks[t] /\ t \in Tasks /\ r = tasks'[t] /\ SyncWork(q)
  BY TypedOK DEF Comparing, Inv
<1>2. q.pc = "names" /\ q.left = {} /\ Unmoved /\ Continue(t, [q EXCEPT !.pc = "merge", !.known = known])
  BY <1>1 DEF Read, At, Unmoved
<1>3. \A n \in Names : known[n] = IdOf(n)'
  BY <1>2 DEF Unmoved, IdOf
<1> HIDE DEF known
<1>4. r = [q EXCEPT !.pc = "merge", !.known = known] /\ q \in TaskType
  BY <1>1, <1>2 DEF Continue, Typed
<1>5. r.pc = "merge" /\ r.known = known /\ r.seen = q.seen /\ r.left = {}
  BY <1>2, <1>4 DEF TaskType
<1>6. \A s \in Sites : r.seen[s] = Now(s)
  BY <1>1, <1>2, <1>5 DEF SyncWork
<1>7. SyncWork(r)'
  BY <1>2, <1>3, <1>5, <1>6, NowStays DEF SyncWork
<1> QED
  BY <1>2, <1>5, <1>7, StillInOrder DEF Compares, Comparing

\* What a sync finds are the whole sites that have a lineage, and it finds of each domain
\* the lineage of its site.
LEMMA FoundWhole ==
  ASSUME NEW t, NEW q, NEW r, Comparing(t, q, r), q.pc = "merge", ~narrowed, NEW s \in Sites
  PROVE  /\ lineages[s] = None => Members(s) \cap Found(q) = {}
         /\ lineages[s] # None =>
              \A n \in Members(s) : n \in Found(q) /\ q.seen[Best(q, n)] = lineages[s]
<1>1. /\ Typed /\ q \in TaskType /\ LineagesOwn /\ SyncWork(q) /\ LineagesWhole
  BY TypedOK DEF Comparing, Inv, Typed
<1>2. \A x \in Sites : q.seen[x] = IF lineages[x] = None THEN NoCert ELSE lineages[x]
  BY <1>1 DEF SyncWork, Now
<1>3. \A x \in Sites : lineages[x] # None => lineages[x].version # 0 /\ lineages[x].covers = Members(x)
  BY <1>1 DEF LineagesOwn, LineagesWhole
<1>4. \A x \in Sites : Tells(q, x) = IF lineages[x] = None THEN {} ELSE Members(x)
  <2>1. \A x \in Sites : x \in Members(x)
    BY SiteFacts
  <2> QED
    BY <1>2, <1>3, <2>1 DEF Tells, NoCert
<1>5. lineages[s] = None => Members(s) \cap Found(q) = {}
  BY <1>4, SitesApart DEF Found
<1>6. ASSUME lineages[s] # None, NEW n \in Members(s)
      PROVE  n \in Found(q) /\ q.seen[Best(q, n)] = lineages[s]
  <2>1. n \in Tells(q, s)
    BY <1>4, <1>6
  <2>2. Best(q, n) \in Sites /\ n \in Tells(q, Best(q, n))
    BY <1>1, <2>1, BestTells
  <2>3. n \in Members(Best(q, n))
    BY <1>4, <2>2
  <2>4. Best(q, n) = s
    BY <1>6, <2>2, <2>3, SitesApart
  <2> QED
    BY <1>2, <1>6, <2>1, <2>4 DEF Found
<1> QED
  BY <1>5, <1>6

LEMMA MergeCompares ==
  ASSUME NEW t, NEW q, NEW r, Comparing(t, q, r), Merge(t)
  PROVE  Compares(r)
<1> DEFINE new == {n \in Found(q) : certs[n] = None}
<1>1. Typed /\ q \in TaskType /\ q = tasks[t] /\ t \in Tasks /\ r = tasks'[t] /\ LineagesOwn
  BY TypedOK DEF Comparing, Inv, Typed
<1>2. q.pc = "merge" /\ r = NoTask /\ UNCHANGED <<lineages, nginx, bared>>
  BY <1>1 DEF Merge, At, End, Typed
<1>n. ~narrowed' => ~narrowed
  BY <1>1, MergedRows
<1>3. CASE UNCHANGED <<certs, enabled, narrowed, adopted>>
  <2>1. Unmoved
    BY <1>2, <1>3 DEF Unmoved
  <2> QED
    BY <1>2, <2>1, StillInOrder DEF Compares, Comparing
<1>4. CASE /\ \A n \in Found(q) : certs'[n] # None /\ certs'[n].cert = q.seen[Best(q, n)]
           /\ \A n \in Names \ Found(q) : certs'[n] = certs[n]
           /\ enabled' = enabled \cup Found(q) /\ adopted' = adopted \cup new
  <2> SUFFICES ASSUME NEW s \in Sites PROVE InOrder(s)'
    BY <1>2 DEF Compares, AllInOrder
  <2>1. InOrder(s) /\ s \in Members(s) /\ Members(s) \subseteq Names
    BY SiteFacts DEF Comparing, AllInOrder
  <2>2. bared' = {} => FileOk(s)'
    BY <1>2, <2>1 DEF InOrder, FileOk, Whole
  <2>3. CASE narrowed
    BY <1>n, <2>2, <2>3 DEF InOrder, ServedOk, Shown
  <2>4. CASE ~narrowed /\ lineages[s] = None
    <3>1. Members(s) \cap Found(q) = {}
      BY <1>2, <2>4, FoundWhole
    <3>2. \A n \in Members(s) : certs'[n] = certs[n] /\ (n \in enabled' <=> n \in enabled)
      BY <1>4, <2>1, <3>1
    <3>3. EnabledOk(s)' /\ CertsOk(s)'
      BY <1>2, <2>1, <2>4, <3>2 DEF InOrder, EnabledOk, CertsOk
    <3>4. bared' = {} => ServedOk(s)'
      BY <1>2, <1>4, <1>n, <2>1, <3>2 DEF InOrder, ServedOk, Shown
    <3> QED
      BY <2>2, <3>3, <3>4 DEF InOrder
  <2>5. CASE ~narrowed /\ lineages[s] # None
    <3>1. \A n \in Members(s) : n \in Found(q) /\ q.seen[Best(q, n)] = lineages[s]
      BY <1>2, <2>5, FoundWhole
    <3>2. \A n \in Members(s) : n \in enabled' /\ certs'[n] # None /\ certs'[n].cert = lineages[s]
      BY <1>4, <3>1
    <3>3. lineages[s].version # 0
      BY <1>1, <2>5 DEF LineagesOwn
    <3>4. EnabledOk(s)' /\ CertsOk(s)'
      BY <1>2, <2>5, <3>2, <3>3 DEF EnabledOk, CertsOk
    <3>5. s \notin adopted' => s \notin adopted /\ certs[s] # None
      BY <1>4, <2>1, <3>1
    <3>6. certs[s] # None => certs[s].cert.version # 0
      BY <2>1, <2>5 DEF InOrder, CertsOk
    <3>7. bared' = {} => ServedOk(s)'
      BY <1>2, <1>n, <2>1, <2>5, <3>5, <3>6 DEF InOrder, ServedOk, Shown
    <3> QED
      BY <2>2, <3>4, <3>7 DEF InOrder
  <2> QED
    BY <2>3, <2>4, <2>5, <1>1 DEF Typed
<1> QED
  BY <1>1, <1>3, <1>4, MergedRows

-----------------------------------------------------------------------------
(* Every step keeps the order *)

LEMMA StepFaults ==
  ASSUME NEW t \in Tasks, Step(t)
  PROVE  Fault \/ UNCHANGED faults
<1>1. CASE Certbot(t) \/ Fetch(t) \/ Resolve(t) \/ Renew(t) \/ Wait(t) \/ Fallback(t) \/ Drop(t)
  BY <1>1 DEF Certbot, Fetch, Resolve, Renew, Wait, Fallback, Drop
<1>2. CASE Persist(t) \/ Confirm(t) \/ Enable(t) \/ Clear(t) \/ Disable(t) \/ Gather(t) \/ Choose(t)
  BY <1>2 DEF Persist, Confirm, Enable, Clear, Disable, Gather, Choose
<1>3. CASE Write(t) \/ Test(t) \/ Reload(t) \/ List(t) \/ ReadNames(t) \/ Details(t) \/ Read(t) \/ Merge(t)
  BY <1>3 DEF Write, Test, Reload, List, ReadNames, Details, Read, Merge
<1> QED
  BY <1>1, <1>2, <1>3 DEF Step

LEMMA FaultShows == Typed /\ Fault => faults' # 0
BY DEF Typed, Fault

\* What one task leaves, when the others are idle.
LEMMA OrderlyNext ==
  ASSUME NEW t \in Tasks, NEW r, r = tasks'[t], \A u \in Tasks \ {t} : tasks'[u].pc = "idle",
         r.pc = "idle" => AllInOrder', r.pc # "idle" => Progress(r)'
  PROVE  Orderly'
BY DEF Orderly, AllIdle, InProgress

LEMMA StepOrderly ==
  ASSUME Inv, Order, NEW t \in Tasks, Step(t), apart => apart'
  PROVE  Orderly'
<1> SUFFICES ASSUME Undisturbed' PROVE Orderly'
  BY DEF Orderly
<1>1. PICK q : q = tasks[t]
  OBVIOUS
<1>2. PICK r : r = tasks'[t]
  OBVIOUS
<1>3. Typed /\ Alone /\ LineagesOwn /\ WorksOnOwn /\ Orderly
  BY TypedOK DEF Inv, Order
<1>4. ~Fault /\ Undisturbed
  <2>1. ~Fault
    BY <1>3, FaultShows DEF Undisturbed
  <2> QED
    BY <2>1, StepFaults, StepAlone DEF Undisturbed
<1>b. ~q.alone
  BY <1>1, <1>4 DEF Inv, Formed, Undisturbed
<1>5. q.pc # "idle" /\ \A u \in Tasks \ {t} : tasks'[u].pc = "idle"
  BY <1>1, <1>3, <1>4, StepAlone DEF Alone, InProgress, Undisturbed
<1>6. Progress(q)
  BY <1>1, <1>3, <1>4, <1>5 DEF Orderly, InProgress
<1>7. CASE q.pc \in Syncing
  <2>1. Comparing(t, q, r)
    BY <1>1, <1>2, <1>3, <1>4, <1>6, <1>7 DEF Comparing, Progress
  <2>2. List(t) \/ ReadNames(t) \/ Details(t) \/ Read(t) \/ Merge(t)
    BY <1>1, <1>5, <1>7 DEF Step, Syncing, Certbot, Fetch, Resolve, Renew, Wait, Fallback, Drop, Persist,
       Confirm, Enable, Clear, Disable, Gather, Choose, Write, Test, Reload, At
  <2>3. Compares(r)
    BY <2>1, <2>2, ListCompares, ReadNamesCompares, DetailsCompares, ReadCompares, MergeCompares
  <2>4. r.pc # "idle" => Progress(r)'
    BY <2>3, NoTaskType DEF Compares, Progress, Syncing
  <2> QED
    BY <1>2, <1>5, <2>3, <2>4, OrderlyNext DEF Compares
<1>8. CASE q.pc \notin Syncing
  <2>1. PICK s : s = SiteOf(q.name)
    OBVIOUS
  <2>2. s \in Sites
    BY <1>1, <1>8, <2>1, SiteFacts DEF Inv, Formed
  <2>3. OwnSite(q, s) /\ OwnWork(q, s) /\ \A x \in Sites \ {s} : InOrder(x)
    BY <1>6, <1>8, <2>1, <2>2 DEF Progress
  <2>4. Settles(q, r, s)
    BY <1>1, <1>2, <1>3, <1>4, <1>8, <1>b, <2>1, <2>3, StepSettles DEF Working
  <2>5. \A x \in Sites \ {s} : InOrder(x)'
    BY <2>3, <2>4, OthersStay DEF Settles
  <2>6. CASE r = NoTask /\ InOrder(s)'
    <3>1. AllInOrder'
      BY <2>5, <2>6 DEF AllInOrder
    <3> QED
      BY <1>2, <1>5, <2>6, <3>1, NoTaskType, OrderlyNext
  <2>7. CASE r.pc \notin Syncing /\ r.name = q.name /\ OwnSite(r, s)' /\ OwnWork(r, s)'
    <3>1. Progress(r)'
      BY <2>1, <2>5, <2>7 DEF Progress
    <3>2. r.pc # "idle"
      BY <2>7 DEF Syncing
    <3> QED
      BY <1>2, <1>5, <3>1, <3>2, OrderlyNext
  <2> QED
    BY <2>4, <2>6, <2>7 DEF Settles
<1> QED
  BY <1>7, <1>8

\* A request that begins finds every site in order.
LEMMA ArrivesOrderly ==
  ASSUME Inv, Order, NEW t \in Tasks, Arrives(t)
  PROVE  Orderly'
<1> SUFFICES ASSUME Undisturbed' PROVE Orderly'
  BY DEF Orderly
<1>1. PICK r : r = tasks'[t]
  OBVIOUS
<1>2. Typed /\ TypeOK /\ Orderly
  BY TypedOK DEF Inv, Order
<1>t. PICK task : Begin(t, task) /\ ~task.alone /\ ~apart
  <2>1. PICK task : Begin(t, task)
    BY DEF Arrives, BeginIssue, BeginRenew, BeginDelete, BeginSync
  <2> QED
    BY <2>1 DEF Begin, Undisturbed
<1>3. /\ Unmoved /\ Undisturbed /\ AllIdle
  <2>1. Admit
    BY <1>t DEF Begin
  <2>2. narrowed' = narrowed
    <3>1. narrowed' = (narrowed \/ FALSE)
      BY <1>t DEF Begin
    <3> QED
      BY <1>2, <3>1 DEF Typed
  <2> QED
    BY <1>2, <1>t, <2>1, <2>2 DEF Admit, Unmoved, Undisturbed, AllIdle, Typed
<1>4. AllInOrder /\ AllInOrder'
  BY <1>2, <1>3, StillInOrder DEF Orderly
<1>5. \A u \in Tasks \ {t} : tasks'[u].pc = "idle"
  BY <1>2, <1>3, ArrivesTask DEF AllIdle, InProgress
<1>6. CASE BeginSync(t)
  <2> DEFINE q == [NoTask EXCEPT !.op = "sync", !.pc = "list"]
  <2>1. r = q
    BY <1>1, <1>2, <1>6 DEF BeginSync, Begin, Typed
  <2>2. r.pc = "list" /\ r.seen = NoTask.seen
    BY <2>1, NoTaskType DEF TaskType
  <2>3. SyncWork(r)'
    BY <2>2, NoTaskType DEF SyncWork
  <2>4. Progress(r)'
    BY <1>4, <2>2, <2>3 DEF Progress, Syncing
  <2> QED
    BY <1>1, <1>5, <2>2, <2>4, OrderlyNext
<1>7. CASE \E n \in Names, alone \in BOOLEAN :
              BeginIssue(t, n, alone) \/ BeginRenew(t, n, alone) \/ BeginDelete(t, n, alone)
  <2>1. PICK n \in Names, alone \in BOOLEAN :
           BeginIssue(t, n, alone) \/ BeginRenew(t, n, alone) \/ BeginDelete(t, n, alone)
    BY <1>7
  <2>2. PICK op, pc : /\ Begin(t, On(n, alone, op, pc))
                      /\ (op = "issue" /\ pc = "certbot") \/ (pc = "resolve" /\ certs[n] # None)
    BY <2>1 DEF BeginIssue, BeginRenew, BeginDelete
  <2>3. r = On(n, alone, op, pc)
    BY <1>1, <1>2, <2>2 DEF Begin, Typed
  <2>4. r.op = op /\ r.pc = pc /\ r.name = n /\ r.id = IdOf(n)
    <3> DEFINE i == IdOf(n)
               b == n \in enabled
    <3>1. r = [NoTask EXCEPT !.op = op, !.pc = pc, !.name = n, !.id = i, !.alone = alone, !.secure = b]
      BY <2>3 DEF On
    <3> HIDE DEF i, b
    <3>2. r.op = op /\ r.pc = pc /\ r.name = n /\ r.id = i
      BY <3>1, NoTaskType DEF TaskType
    <3> QED
      BY <3>2 DEF i
  <2>5. PICK s : s = SiteOf(n)
    OBVIOUS
  <2>6. s \in Sites
    BY <2>5, SiteFacts
  <2>7. InOrder(s)'
    BY <1>4, <2>6 DEF AllInOrder
  <2>8. OwnSite(r, s)'
    BY <2>7 DEF OwnSite, InOrder
  <2>9. OwnWork(r, s)'
    <3>1. certs' = certs /\ IdOf(n)' = IdOf(n)
      BY <1>3 DEF Unmoved, IdOf
    <3> QED
      BY <2>2, <2>4, <3>1 DEF OwnWork, Renewing
  <2>10. r.pc \notin Syncing /\ r.pc # "idle"
    BY <2>2, <2>4 DEF Syncing
  <2>11. Progress(r)'
    BY <1>4, <2>4, <2>5, <2>8, <2>9, <2>10 DEF Progress, AllInOrder
  <2> QED
    BY <1>1, <1>5, <2>10, <2>11, OrderlyNext
<1> QED
  BY <1>6, <1>7 DEF Arrives

LEMMA InitOrder == Init => Order
<1> SUFFICES ASSUME Init PROVE Order
  OBVIOUS
<1>1. PICK state \in [Sites -> {"none", "pending", "used", "unknown"}] :
        /\ lineages = [s \in Sites |-> IF state[s] \in {"used", "unknown"}
                                       THEN [version |-> 1, covers |-> Members(s)] ELSE None]
        /\ certs = [n \in Names |->
              CASE state[SiteOf(n)] = "pending" -> [id |-> 1, cert |-> NoCert]
                [] state[SiteOf(n)] = "used" -> [id |-> 1, cert |-> lineages[SiteOf(n)]]
                [] OTHER -> None]
        /\ enabled = {n \in Names : state[SiteOf(n)] \in {"pending", "used"}}
        /\ nginx = [s \in Sites |-> [there |-> TRUE, tls |-> IF state[s] = "used" THEN s ELSE None]]
  BY DEF Init
<1>2. \A t \in Tasks : tasks[t].pc = "idle"
  BY NoTaskType DEF Init
<1>3. Inv
  BY InitInvariant
<1>4. \A s \in Sites : state[s] \in {"used", "unknown"} =>
         /\ lineages[s] = [version |-> 1, covers |-> Members(s)] /\ lineages[s] # None
         /\ lineages[s].version = 1 /\ lineages[s].covers = Members(s)
  <2>1. 1 \in 0..MaxVersion /\ \A s \in Sites : Members(s) \in SUBSET Names
    BY SslAssumption, SiteFacts
  <2>2. \A s \in Sites : [version |-> 1, covers |-> Members(s)] \in Certificate
    BY <2>1 DEF Certificate
  <2>3. \A s \in Sites : [version |-> 1, covers |-> Members(s)] # None
    BY <2>2, NoneIsNoCertificate
  <2> QED
    BY <1>1, <2>3
<1>5. \A s \in Sites : state[s] \notin {"used", "unknown"} => lineages[s] = None
  BY <1>1
<1>6. LineagesOwn
  <2>1. \A s \in Isolated : Members(s) = {s}
    BY SslAssumption DEF Members
  <2> QED
    <3> SUFFICES ASSUME NEW s \in Sites, lineages[s] # None
                 PROVE  /\ lineages[s].version # 0 /\ lineages[s].covers \subseteq Members(s)
                        /\ s \in Isolated => lineages[s].covers = {s}
      BY DEF LineagesOwn
    <3>1. lineages[s].version = 1 /\ lineages[s].covers = Members(s)
      BY <1>4, <1>5
    <3> QED
      BY <2>1, <3>1
<1>7. ASSUME NEW s \in Sites PROVE InOrder(s)
  <2>1. \A n \in Members(s) : n \in Names /\ SiteOf(n) = s
    BY SiteFacts
  <2>2. s \in Members(s)
    BY SiteFacts
  <2>3. \A n \in Members(s) : certs[n] = IF state[s] = "pending" THEN [id |-> 1, cert |-> NoCert]
                                         ELSE IF state[s] = "used" THEN [id |-> 1, cert |-> lineages[s]]
                                         ELSE None
    BY <1>1, <2>1
  <2>4. \A n \in Members(s) : n \in enabled <=> state[s] \in {"pending", "used"}
    BY <1>1, <2>1
  <2>5. \A n \in Members(s) : state[s] \in {"pending", "used"} => certs[n] # None
    <3>1. \A n \in Members(s) : certs[n] \in SslCert \cup {None}
      BY <1>3, <2>1, TypedOK DEF Inv, Typed
    <3>2. state[s] = "pending" => [id |-> 1, cert |-> NoCert] \in SslCert
      BY SslAssumption, NoTaskType DEF SslCert
    <3>3. state[s] = "used" => lineages[s] \in Certificate
      BY <1>3, <1>4, TypedOK DEF Inv, Typed
    <3>4. state[s] = "used" => [id |-> 1, cert |-> lineages[s]] \in SslCert
      BY <3>3, SslAssumption DEF SslCert
    <3> QED
      BY <2>3, <3>2, <3>4, NoneIsNoCertificate
  <2>6. EnabledOk(s)
    BY <1>1, <2>3, <2>4, <2>5 DEF EnabledOk
  <2>7. CertsOk(s)
    <3> SUFFICES ASSUME NEW n \in Members(s), certs[n] # None
                 PROVE  IF certs[n].cert.version = 0 THEN lineages[s] = None
                        ELSE lineages[s] # None /\ certs[n].cert = lineages[s]
      BY DEF CertsOk
    <3>1. CASE state[s] = "pending"
      BY <1>5, <2>3, <3>1 DEF NoCert
    <3>2. CASE state[s] = "used"
      <4>1. certs[n] = [id |-> 1, cert |-> lineages[s]]
        BY <2>3, <3>2
      <4>2. lineages[s] # None /\ lineages[s].version = 1
        BY <1>4, <3>2
      <4> QED
        BY <4>1, <4>2
    <3> QED
      BY <2>3, <3>1, <3>2
  <2>8. nginx[s].there /\ nginx[s].tls = IF state[s] = "used" THEN s ELSE None
    BY <1>1
  <2>9. FileOk(s)
    BY <1>4, <2>8 DEF FileOk, Whole
  <2>10. ServedOk(s)
    <3>1. state[s] = "pending" => certs[s].cert.version = 0
      BY <2>2, <2>3 DEF NoCert
    <3>2. state[s] \notin {"pending", "used"} => certs[s] = None
      BY <2>2, <2>3
    <3> QED
      BY <2>8, <3>1, <3>2 DEF ServedOk, Shown
  <2> QED
    BY <2>6, <2>7, <2>9, <2>10 DEF InOrder
<1>8. Orderly
  BY <1>2, <1>7 DEF Orderly, AllInOrder, InProgress
<1>9. Alone /\ WorksOnOwn
  BY <1>2 DEF Alone, WorksOnOwn, InProgress, OnCertbot
<1> QED
  BY <1>6, <1>8, <1>9 DEF Order

LEMMA NextOrder == Inv /\ Order /\ [Next]_vars => Order'
<1> SUFFICES ASSUME Inv, Order, [Next]_vars PROVE Order'
  OBVIOUS
<1>a. Alone /\ LineagesOwn /\ WorksOnOwn /\ Orderly /\ Typed /\ TypeOK
  BY TypedOK DEF Order, Inv
<1>1. ASSUME NEW t \in Tasks, Arrives(t) PROVE Order'
  <2>1. Orderly'
    BY <1>1, ArrivesOrderly
  <2>2. Admit
    BY <1>1, ArrivesAdmits
  <2>3. /\ \A u \in Tasks \ {t} : tasks'[u] = tasks[u]
        /\ tasks'[t].pc \in {"certbot", "resolve", "list"}
    BY <1>1, <1>a, ArrivesTask
  <2>4. LineagesOwn'
    BY <1>a, <2>2 DEF Admit, LineagesOwn
  <2>5. WorksOnOwn'
    BY <1>a, <2>3 DEF WorksOnOwn, OnCertbot
  <2>6. Alone'
    BY <1>a, <2>2, <2>3 DEF Admit, Alone, InProgress, Typed
  <2> QED
    BY <2>1, <2>4, <2>5, <2>6 DEF Order
<1>2. ASSUME NEW t \in Tasks, Step(t) PROVE Order'
  <2>1. Orderly' /\ LineagesOwn' /\ WorksOnOwn'
    BY <1>2, <1>a, NarrowedStays, StepOrderly, StepLineagesOwn, StepWorksOnOwn
  <2>2. Alone'
    BY <1>2, <1>a, StepAlone DEF Alone, InProgress
  <2> QED
    BY <2>1, <2>2 DEF Order
<1>3. ASSUME Unmoved, UNCHANGED <<tasks, overlapped, faults, apart>> PROVE Order'
  <2>1. /\ lineages' = lineages /\ certs' = certs /\ narrowed' = narrowed /\ bared' = bared
        /\ tasks' = tasks /\ overlapped' = overlapped /\ (Undisturbed' <=> Undisturbed)
    BY <1>3 DEF Unmoved, Undisturbed
  <2>2. Alone' /\ LineagesOwn' /\ WorksOnOwn'
    BY <1>a, <2>1 DEF Alone, LineagesOwn, WorksOnOwn, InProgress
  <2>3. \A s : InOrder(s)' = InOrder(s)
    BY <1>3, <2>1, UnmovedFacts DEF InOrder
  <2>4. \A q, s : OwnSite(q, s)' = OwnSite(q, s)
    BY <1>3, <2>1, UnmovedFacts DEF OwnSite
  <2>5. \A q, s : OwnWork(q, s)' = OwnWork(q, s)
    BY <1>3, <2>1, UnmovedFacts DEF OwnWork, IdOf
  <2>6. \A q : SyncWork(q)' = SyncWork(q)
    BY <1>3, <2>1, NowStays DEF SyncWork, IdOf
  <2>7. \A q : Progress(q)' = Progress(q)
    BY <2>3, <2>4, <2>5, <2>6 DEF Progress, AllInOrder
  <2>8. AllInOrder' = AllInOrder /\ AllIdle' = AllIdle
    BY <2>1, <2>3 DEF AllInOrder, AllIdle, InProgress
  <2>9. Orderly'
    <3> SUFFICES ASSUME Undisturbed'
                 PROVE  /\ AllIdle' => AllInOrder'
                        /\ \A t \in Tasks : tasks'[t].pc # "idle" => Progress(tasks[t])'
      BY <2>1 DEF Orderly, InProgress
    <3> QED
      BY <1>a, <2>1, <2>7, <2>8 DEF Orderly, InProgress
  <2> QED
    BY <2>2, <2>9 DEF Order
<1>4. ASSUME NEW n \in Names, Cleanup(n) PROVE Order'
  BY <1>3, <1>4 DEF Cleanup, Unmoved
<1>5. CASE PanelRestarts
  <2>1. \A t \in Tasks : tasks'[t].pc = "idle"
    BY <1>5, NoTaskType DEF PanelRestarts
  <2>2. ~Undisturbed'
    BY <1>5, <1>a, FaultShows DEF PanelRestarts, Undisturbed
  <2>3. LineagesOwn'
    BY <1>5, <1>a DEF PanelRestarts, LineagesOwn
  <2> QED
    BY <2>1, <2>2, <2>3 DEF Order, Alone, WorksOnOwn, Orderly, InProgress, OnCertbot
<1>6. CASE UNCHANGED vars
  BY <1>3, <1>6 DEF vars, Unmoved
<1> QED
  BY <1>1, <1>2, <1>4, <1>5, <1>6 DEF Next

LEMMA OrderInvariant == Spec => [](Inv /\ Order)
<1>1. Init => Inv /\ Order
  BY InitInvariant, InitOrder
<1>2. Inv /\ Order /\ [Next]_vars => Inv' /\ Order'
  BY NextInvariant, NextOrder
<1> QED
  BY <1>1, <1>2, PTL DEF Spec

-----------------------------------------------------------------------------
(* What follows *)

\* The variables keep their types; in particular a sync always finds the lineage it writes.
THEOREM SslTypeCorrect == Spec => []TypeOK
<1>1. Inv => TypeOK
  BY DEF Inv
<1> QED
  BY <1>1, Invariant, PTL

\* However requests and renewals about a group overlap, and whatever fails in between, its
\* domains show one certificate or none, until one of the three things happens that the code
\* does for a single domain of the group: a renewal's fallback to the plugin, a sync that could
\* not read the names of the group's certificate, a request for the isolated primary domain.
THEOREM OneCertificatePerGroup == Spec => []GroupInStep
<1>1. Inv => GroupInStep
  BY DEF Inv
<1> QED
  BY <1>1, Invariant, PTL

\* Until one of those three things happens every lineage covers the whole of its site, and a
\* renewal is about the one named by the site of its domain.
THEOREM LineagesCoverSites == Spec => [](LineagesWhole /\ RenewsOwn)
<1>1. Inv => LineagesWhole /\ RenewsOwn
  BY DEF Inv
<1> QED
  BY <1>1, Invariant, PTL

\* Between requests that come one after the other without a failure, none for an isolated
\* primary domain, every row shows the certificate the server has, which covers the domain,
\* until a renewal falls back to the plugin.
THEOREM RowsShowServer == Spec => []RowsFollowServer
<1>1. Inv /\ Order => RowsFollowServer
  <2> SUFFICES ASSUME Inv, Order, Undisturbed, AllIdle, ~narrowed
               PROVE  /\ enabled = {n \in Names : certs[n] # None}
                      /\ \A n \in Names : certs[n] # None /\ certs[n].cert.version # 0 =>
                            certs[n].cert = lineages[SiteOf(n)] /\ n \in certs[n].cert.covers
    BY DEF RowsFollowServer
  <2>1. \A s \in Sites : EnabledOk(s) /\ CertsOk(s)
    BY DEF Order, Orderly, AllInOrder, InOrder
  <2>2. \A n \in Names : SiteOf(n) \in Sites /\ n \in Members(SiteOf(n))
    BY SiteFacts
  <2>3. enabled = {n \in Names : certs[n] # None}
    <3>1. enabled \subseteq Names
      BY DEF Inv, TypeOK
    <3> QED
      BY <2>1, <2>2, <3>1 DEF EnabledOk
  <2>4. ASSUME NEW n \in Names, certs[n] # None, certs[n].cert.version # 0
        PROVE  certs[n].cert = lineages[SiteOf(n)] /\ n \in certs[n].cert.covers
    BY <2>1, <2>2, <2>4 DEF CertsOk, Inv, LineagesWhole
  <2> QED
    BY <2>3, <2>4
<1> QED
  BY <1>1, OrderInvariant, PTL

\* Between such requests every site has its file, which refers to a certificate of all its
\* domains if the panel has issued one, unless that of an isolated domain was deleted under
\* its file.
THEOREM SitesAreServed == Spec => []SitesServed
<1>1. Order => SitesServed
  <2> SUFFICES ASSUME Order, Undisturbed, AllIdle, bared = {}, NEW s \in Sites
               PROVE  FileOk(s) /\ ServedOk(s)
    BY DEF SitesServed, FileOk, ServedOk, Shown, Whole
  <2> QED
    BY DEF Order, Orderly, AllInOrder, InOrder
<1> QED
  BY <1>1, OrderInvariant, PTL

\* Also after a fallback, a lineage holds no names of another site, and what works on one
\* works on that of its own site.
THEOREM LineagesAreOwn == Spec => [](LineagesOwn /\ WorksOnOwn)
<1>1. Order => LineagesOwn /\ WorksOnOwn
  BY DEF Order
<1> QED
  BY <1>1, OrderInvariant, PTL
=============================================================================
