--------------------------- MODULE SslCertificates ---------------------------
(***************************************************************************)
(* The certificates of the nginx domains of one server (routes/ssl.ts):    *)
(* the lineages certbot keeps on the server, the SslCert rows, what the    *)
(* files of nginx refer to, and the operations in memory that follow a     *)
(* renewal in the background.                                              *)
(*                                                                         *)
(* The shared domains of a registrable domain have one certificate and one *)
(* file, named by their primary domain; an isolated domain has its own.    *)
(* The primary domain belongs to the group also while it is isolated       *)
(* itself: then it is alone in its own requests, and a member in those of  *)
(* the others.  Otherwise the domains do not change, and each has its      *)
(* container.  A certificate is its version, counted over all of them, and *)
(* the names it covers; version 0 is a row that is PENDING.  Renewal       *)
(* dates, autoRenew (which nothing acts upon) and the stages shown to the  *)
(* user are left out.                                                      *)
(***************************************************************************)
EXTENDS Naturals, FiniteSets

CONSTANTS Group,      \* the shared domains
          Primary,    \* the one that names their certificate and file
          Isolated,   \* the isolated domains
          Tasks,      \* slots for requests and background renewals
          MaxVersion, \* bound on certificates issued
          MaxRowId,   \* bound on transactions that create SslCert rows
          MaxWaits,   \* how often a renewal waits for another certbot (36 in the code)
          MaxBegun,   \* bound on requests
          MaxFaults,  \* bound on failed commands and restarts of the panel
          None

ASSUME SslAssumption ==
    /\ Primary \in Group /\ Group \cap Isolated = {}
    /\ {MaxVersion, MaxRowId, MaxWaits, MaxBegun, MaxFaults} \subseteq Nat
    /\ MaxVersion > 0 /\ MaxRowId > 0

VARIABLES
    lineages,  \* certbot's certificate of each name
    certs,     \* the SslCert row of each domain
    enabled,   \* the domains with sslEnabled
    nginx,     \* the file of each site, and the lineage it refers to
    operation, \* sslRenewOperations: the state of the last renewal of each certificate
    tasks,     \* requests and renewals in progress
    issued, rowIds, begun, faults, \* how many there were so far
    overlapped, \* history: two tasks were in progress at once
    narrowed,   \* history: a renewal, a sync or a request took one name of the group for all
    apart,      \* history: a request was made for the primary domain while it was isolated
    bared,      \* history: isolated domains whose certificate was deleted under their file
    adopted     \* history: domains whose row a sync created

vars == <<lineages, certs, enabled, nginx, operation, tasks, issued, rowIds, begun, faults,
          overlapped, narrowed, apart, bared, adopted>>

Names == Group \cup Isolated
Sites == {Primary} \cup Isolated
SiteOf(n) == IF n \in Group THEN Primary ELSE n
Members(n) == IF n \in Group THEN Group ELSE {n}

Certificate == [version : 0..MaxVersion, covers : SUBSET Names]
NoCert == [version |-> 0, covers |-> {}]
SslCert == [id : 1..MaxRowId, cert : Certificate]
ASSUME NoneIsNoCertificate == None \notin SslCert \cup Certificate
\* A site's file is there or not, and refers to a lineage or serves HTTP only.
File == [there : BOOLEAN, tls : Sites \cup {None}]

NoTask == [op |-> None, pc |-> "idle", name |-> None, id |-> 0, secure |-> FALSE, lineage |-> None,
           alone |-> FALSE, cert |-> NoCert, waits |-> 0, tls |-> None, left |-> {},
           seen |-> [s \in Sites |-> NoCert], known |-> [n \in Names |-> 0]]
InProgress(t) == tasks[t].pc # "idle"
At(t, pc) == tasks[t].pc = pc
Go(t, pc) == tasks' = [tasks EXCEPT ![t].pc = pc]
Fault == faults < MaxFaults /\ faults' = faults + 1

\* isSharedNginxDomain, as the request read its domain: alone is a primary domain that is
\* isolated.  It acts for its own name, the others for those of their site.
Shared(q) == q.name \in Group /\ ~q.alone
Concerns(q) == IF q.alone THEN {q.name} ELSE Members(q.name)

IdOf(n) == IF certs[n] = None THEN 0 ELSE certs[n].id
\* findSslCertificateForDomain: the lineage that covers a name.
Covering(n) == {s \in Sites : lineages[s] # None /\ n \in lineages[s].covers}

TypeOK ==
    /\ lineages \in [Sites -> Certificate \cup {None}]
    /\ certs \in [Names -> SslCert \cup {None}]
    /\ enabled \subseteq Names
    /\ nginx \in [Sites -> File]
    /\ operation \in [Names -> {None, "RUNNING", "COMPLETED", "FAILED"}]
    /\ tasks \in [Tasks ->
        [op : {None, "issue", "renew", "delete", "sync"},
         pc : {"idle", "certbot", "fetch", "persist", "confirm", "enable", "gather", "choose", "write",
               "test", "resolve", "renew", "wait", "fallback", "reload", "drop", "clear", "disable",
               "list", "names", "details", "merge"},
         name : Names \cup {None}, id : 0..MaxRowId, secure : BOOLEAN, lineage : Sites \cup {None},
         alone : BOOLEAN, cert : Certificate, waits : 0..MaxWaits, tls : Sites \cup {None},
         left : SUBSET Sites,
         seen : [Sites -> Certificate], known : [Names -> 0..MaxRowId]]]
    /\ issued \in 0..MaxVersion /\ rowIds \in 0..MaxRowId
    /\ begun \in 0..MaxBegun /\ faults \in 0..MaxFaults
    /\ {overlapped, narrowed, apart} \subseteq BOOLEAN /\ bared \subseteq Isolated /\ adopted \subseteq Names

\* A site has no certificate, one to be issued (PENDING), one that is used, or one on the
\* server that no row tells of.
Init ==
    /\ \E state \in [Sites -> {"none", "pending", "used", "unknown"}] :
        /\ lineages = [s \in Sites |-> IF state[s] \in {"used", "unknown"}
                                       THEN [version |-> 1, covers |-> Members(s)] ELSE None]
        /\ certs = [n \in Names |->
              CASE state[SiteOf(n)] = "pending" -> [id |-> 1, cert |-> NoCert]
                [] state[SiteOf(n)] = "used" -> [id |-> 1, cert |-> lineages[SiteOf(n)]]
                [] OTHER -> None]
        /\ enabled = {n \in Names : state[SiteOf(n)] \in {"pending", "used"}}
        /\ nginx = [s \in Sites |-> [there |-> TRUE, tls |-> IF state[s] = "used" THEN s ELSE None]]
    /\ operation = [n \in Names |-> None] /\ tasks = [t \in Tasks |-> NoTask]
    /\ issued = 1 /\ rowIds = 1 /\ begun = 0 /\ faults = 0
    /\ overlapped = FALSE /\ narrowed = FALSE /\ apart = FALSE /\ bared = {} /\ adopted = {}

(***************************************************************************)
(* Requests.  Each reads the row of its certificate (or domain) first.     *)
(***************************************************************************)
Admit ==
    /\ begun < MaxBegun /\ begun' = begun + 1
    /\ overlapped' = (overlapped \/ \E t \in Tasks : InProgress(t))
    /\ UNCHANGED <<lineages, certs, enabled, nginx, issued, rowIds, faults, bared, adopted>>

On(n, alone, op, pc) == [NoTask EXCEPT !.op = op, !.pc = pc, !.name = n, !.id = IdOf(n),
                                       !.alone = alone, !.secure = n \in enabled]
\* Any free slot would do; to take one of them saves the states that differ by it alone.
Free(t) == ~InProgress(t) /\ t = CHOOSE u \in Tasks : ~InProgress(u)
Begin(t, task) ==
    /\ Free(t) /\ Admit /\ tasks' = [tasks EXCEPT ![t] = task]
    /\ narrowed' = (narrowed \/ task.alone) /\ apart' = (apart \/ task.alone)

BeginIssue(t, n, alone) ==
    /\ certs[n] # None => certs[n].cert.version = 0
    /\ Begin(t, On(n, alone, "issue", "certbot")) /\ UNCHANGED operation
BeginDelete(t, n, alone) ==
    /\ certs[n] # None
    /\ Begin(t, On(n, alone, "delete", "resolve")) /\ UNCHANGED operation
BeginSync(t) == Begin(t, [NoTask EXCEPT !.op = "sync", !.pc = "list"]) /\ UNCHANGED operation

\* startSslRenewOperation looks for a running renewal and registers its own in one go; the
\* request that finds one changes nothing.
BeginRenew(t, n, alone) ==
    /\ certs[n] # None /\ \A m \in Names : operation[m] # "RUNNING"
    /\ Begin(t, On(n, alone, "renew", "resolve"))
    /\ operation' = [operation EXCEPT ![n] = "RUNNING"]

\* The end of a task: a renewal in the background records how it went.
End(t, outcome) ==
    /\ tasks' = [tasks EXCEPT ![t] = NoTask]
    /\ operation' = IF tasks[t].op # "renew" THEN operation
                    ELSE [operation EXCEPT ![tasks[t].name] = outcome]
Fail(t) == End(t, "FAILED")
Continue(t, task) == tasks' = [tasks EXCEPT ![t] = task] /\ UNCHANGED operation

(***************************************************************************)
(* certbot on the server.                                                  *)
(***************************************************************************)
Issue(s, names) ==
    /\ issued < MaxVersion /\ issued' = issued + 1
    /\ lineages' = [lineages EXCEPT ![s] = [version |-> issued + 1, covers |-> names]]

\* issueSslCertificate: a certificate of the same names that is not due is kept.
Certbot(t) ==
    LET q == tasks[t]
        s == SiteOf(q.name)
        issues == IF lineages[s] # None /\ lineages[s].covers = Concerns(q)
                  THEN UNCHANGED <<lineages, issued>> ELSE Issue(s, Concerns(q))
    IN  /\ At(t, "certbot")
        /\ \/ issues /\ Continue(t, [q EXCEPT !.pc = "fetch", !.lineage = s]) /\ UNCHANGED faults
           \/ Fault /\ Fail(t) /\ (issues \/ UNCHANGED <<lineages, issued>>)
        /\ UNCHANGED <<certs, enabled, nginx, rowIds, begun, overlapped, narrowed, apart, bared,
                       adopted>>

\* readIssuedCertificate reads the certificate in a command of its own.
Fetch(t) ==
    LET q == tasks[t]
        s == q.lineage
    IN  /\ At(t, "fetch")
        /\ \/ /\ lineages[s] # None /\ Continue(t, [q EXCEPT !.pc = "persist", !.cert = lineages[s]])
              /\ UNCHANGED faults
           \/ lineages[s] = None /\ Fail(t) /\ UNCHANGED faults
           \/ Fault /\ Fail(t)
        /\ UNCHANGED <<lineages, certs, enabled, nginx, issued, rowIds, begun, overlapped,
                       narrowed, apart, bared, adopted>>

\* resolveSslCertificate, by a renewal and a deletion.  Where certbot does not list its
\* certificates they are listed as by a sync, whose failed commands find none: the deletion
\* then takes the certificate for absent.
Resolve(t) ==
    LET q == tasks[t]
    IN  /\ At(t, "resolve")
        /\ \/ /\ \E s \in Covering(q.name) :
                    Continue(t, [q EXCEPT !.lineage = s, !.pc = IF q.op = "renew" THEN "renew" ELSE "drop"])
              /\ UNCHANGED faults
           \/ /\ Covering(q.name) = {} /\ UNCHANGED faults
              /\ IF q.op = "renew" THEN Fail(t) ELSE Continue(t, [q EXCEPT !.pc = "clear"])
           \/ Fault /\ Fail(t)
           \/ Fault /\ q.op = "delete" /\ Continue(t, [q EXCEPT !.pc = "clear"])
        /\ UNCHANGED <<lineages, certs, enabled, nginx, issued, rowIds, begun, overlapped,
                       narrowed, apart, bared, adopted>>

\* certbot renew.  While another certbot runs on the server it is tried again, for three
\* minutes; where port 80 is taken the web server's plugin issues the certificate anew.
WrongGivesUp(q) == FALSE
GivesUp(q) == q.waits >= MaxWaits
Renew(t) ==
    LET q == tasks[t]
        s == q.lineage
        renews == lineages[s] # None /\ Issue(s, lineages[s].covers)
    IN  /\ At(t, "renew")
        /\ \/ renews /\ Go(t, "fetch") /\ UNCHANGED <<operation, faults>>
           \/ lineages[s] = None /\ Fail(t) /\ UNCHANGED <<lineages, issued, faults>>
           \/ /\ UNCHANGED <<lineages, issued, faults>>
              /\ IF GivesUp(q) THEN Fail(t) ELSE Go(t, "wait") /\ UNCHANGED operation
           \/ Go(t, "fallback") /\ UNCHANGED <<operation, lineages, issued, faults>>
           \/ Fault /\ Fail(t) /\ (renews \/ UNCHANGED <<lineages, issued>>)
        /\ UNCHANGED <<certs, enabled, nginx, rowIds, begun, overlapped, narrowed, apart, bared,
                       adopted>>

Wait(t) ==
    /\ At(t, "wait")
    /\ Continue(t, [tasks[t] EXCEPT !.pc = "renew", !.waits = IF @ < MaxWaits THEN @ + 1 ELSE @])
    /\ UNCHANGED <<lineages, certs, enabled, nginx, issued, rowIds, begun, faults, overlapped,
                   narrowed, apart, bared, adopted>>

\* issueCertificateWithDetectedPlugin is called without the names of the certificate, so
\* that the one domain becomes all it covers.
Fallback(t) ==
    LET q == tasks[t]
        issues == Issue(q.lineage, {q.name}) /\ narrowed' = (narrowed \/ q.name \in Group)
    IN  /\ At(t, "fallback")
        /\ \/ issues /\ Go(t, "fetch") /\ UNCHANGED <<operation, faults>>
           \/ Fault /\ Fail(t) /\ (issues \/ UNCHANGED <<lineages, issued, narrowed>>)
        /\ UNCHANGED <<certs, enabled, nginx, rowIds, begun, overlapped, apart, bared, adopted>>

\* certbot delete.  No file of nginx is looked at.
Drop(t) ==
    LET s == tasks[t].lineage
        drops == /\ lineages[s] # None
                 /\ lineages' = [lineages EXCEPT ![s] = None] /\ bared' = bared \cup ({s} \cap Isolated)
    IN  /\ At(t, "drop")
        /\ \/ drops /\ Go(t, "clear") /\ UNCHANGED <<operation, faults>>
           \/ lineages[s] = None /\ Fail(t) /\ UNCHANGED <<lineages, bared, faults>>
           \/ Fault /\ Fail(t) /\ (drops \/ UNCHANGED <<lineages, bared>>)
        /\ UNCHANGED <<certs, enabled, nginx, issued, rowIds, begun, overlapped, narrowed, apart,
                       adopted>>

(***************************************************************************)
(* The rows.                                                               *)
(***************************************************************************)
WrongPersisted(names, cert) ==
    [n \in Names |-> IF n \notin names \/ certs[n] = None THEN certs[n] ELSE [certs[n] EXCEPT !.cert = cert]]
Persisted(names, cert) ==
    [n \in Names |-> IF n \notin names THEN certs[n]
                     ELSE [id |-> IF certs[n] = None THEN rowIds + 1 ELSE IdOf(n), cert |-> cert]]
Recorded(names, cert) ==
    LET creates == \E n \in names : certs[n] = None
    IN  /\ creates => rowIds < MaxRowId
        /\ rowIds' = IF creates THEN rowIds + 1 ELSE rowIds
        /\ certs' = Persisted(names, cert)

\* persistSharedSslCertificate writes the rows of all members in one transaction; the row of
\* an isolated domain is updated, or created, as it was read at the beginning.
Persist(t) ==
    LET q == tasks[t]
        n == q.name
    IN  /\ At(t, "persist")
        /\ IF Shared(q)
           THEN /\ Recorded(Group, q.cert) /\ enabled' = enabled \cup Group
                /\ Continue(t, [q EXCEPT !.pc = IF q.op = "issue" THEN "confirm" ELSE "gather"])
           ELSE IF IdOf(n) # q.id THEN Fail(t) /\ UNCHANGED <<certs, enabled, rowIds>>
           ELSE /\ Recorded({n}, q.cert) /\ UNCHANGED enabled
                /\ Continue(t, [q EXCEPT !.pc = IF q.op = "issue" THEN "enable" ELSE "reload"])
        /\ UNCHANGED <<lineages, nginx, issued, begun, faults, overlapped, narrowed, apart,
                       bared, adopted>>

\* The row of a shared domain is read again for the answer, and may be gone.
Confirm(t) ==
    /\ At(t, "confirm")
    /\ IF certs[tasks[t].name] = None THEN Fail(t) ELSE Go(t, "gather") /\ UNCHANGED operation
    /\ UNCHANGED <<lineages, certs, enabled, nginx, issued, rowIds, begun, faults, overlapped,
                   narrowed, apart, bared, adopted>>

Enable(t) ==
    /\ At(t, "enable") /\ enabled' = enabled \cup {tasks[t].name}
    /\ Continue(t, [tasks[t] EXCEPT !.pc = "choose", !.secure = TRUE])
    /\ UNCHANGED <<lineages, certs, nginx, issued, rowIds, begun, faults, overlapped, narrowed,
                   apart, bared, adopted>>

\* clearSharedSslState, or the deletion of an isolated domain's row, which ends there: its
\* file is not written again.
WrongCleared(q) == {q.name}
Cleared(q) == Concerns(q)
Clear(t) ==
    LET q == tasks[t]
        n == q.name
    IN  /\ At(t, "clear")
        /\ IF ~Shared(q) /\ IdOf(n) # q.id THEN Fail(t) /\ UNCHANGED <<certs, enabled>>
           ELSE /\ certs' = [m \in Names |-> IF m \in Cleared(q) THEN None ELSE certs[m]]
                /\ enabled' = IF Shared(q) THEN enabled \ Group ELSE enabled
                /\ Go(t, IF Shared(q) THEN "gather" ELSE "disable") /\ UNCHANGED operation
        /\ UNCHANGED <<lineages, nginx, issued, rowIds, begun, faults, overlapped, narrowed,
                       apart, bared, adopted>>

Disable(t) ==
    /\ At(t, "disable") /\ enabled' = enabled \ {tasks[t].name} /\ End(t, "COMPLETED")
    /\ UNCHANGED <<lineages, certs, nginx, issued, rowIds, begun, faults, overlapped, narrowed,
                   apart, bared, adopted>>

(***************************************************************************)
(* The files: reprovisionSharedDomainProxyIfNeeded and                     *)
(* reprovisionDomainProxyIfNeeded, down to provisionNginxConfig.           *)
(***************************************************************************)
\* A group's file has SSL if one of its members has.
Gather(t) ==
    /\ At(t, "gather")
    /\ Continue(t, [tasks[t] EXCEPT !.pc = "choose", !.secure = enabled \cap Group # {}])
    /\ UNCHANGED <<lineages, certs, enabled, nginx, issued, rowIds, begun, faults, overlapped,
                   narrowed, apart, bared, adopted>>

\* The lineage to refer to: one that covers the whole site.  When certbot cannot be asked
\* the file is written without.
WrongUsable(q) == IF ~q.secure THEN {} ELSE Covering(q.name)
Usable(q) ==
    IF ~q.secure THEN {}
    ELSE {s \in Covering(SiteOf(q.name)) : Concerns(q) \subseteq lineages[s].covers}
Choose(t) ==
    LET q == tasks[t]
        choice(s) == Continue(t, [q EXCEPT !.pc = "write", !.tls = s])
    IN  /\ At(t, "choose")
        /\ \/ (\E s \in Usable(q) : choice(s)) /\ UNCHANGED faults
           \/ Usable(q) = {} /\ choice(None) /\ UNCHANGED faults
           \/ Fault /\ (choice(None) \/ Fail(t))
        /\ UNCHANGED <<lineages, certs, enabled, nginx, issued, rowIds, begun, overlapped,
                       narrowed, apart, bared, adopted>>

Write(t) ==
    LET q == tasks[t]
        written == [nginx EXCEPT ![SiteOf(q.name)] = [there |-> TRUE, tls |-> q.tls]]
    IN  /\ At(t, "write")
        /\ \/ nginx' = written /\ Go(t, "test") /\ UNCHANGED <<operation, faults>>
           \/ Fault /\ Fail(t) /\ nginx' \in {nginx, written}
        /\ UNCHANGED <<lineages, certs, enabled, issued, rowIds, begun, overlapped, narrowed,
                       apart, bared, adopted>>

\* nginx -t accepts the files of all sites only together; if it does not, the file that was
\* written is removed, whatever was there before.
Accepted == \A s \in Sites : nginx[s].tls # None => lineages[nginx[s].tls] # None
Removed(s) == [nginx EXCEPT ![s] = [there |-> FALSE, tls |-> None]]
Test(t) ==
    LET s == SiteOf(tasks[t].name)
    IN  /\ At(t, "test")
        /\ \/ Accepted /\ End(t, "COMPLETED") /\ UNCHANGED <<nginx, faults>>
           \/ ~Accepted /\ Fail(t) /\ nginx' = Removed(s) /\ UNCHANGED faults
           \/ Fault /\ Fail(t) /\ nginx' \in {nginx, Removed(s)}
        /\ UNCHANGED <<lineages, certs, enabled, issued, rowIds, begun, overlapped, narrowed,
                       apart, bared, adopted>>

\* reloadDomainProxyAfterRenewIfNeeded, of an isolated domain.
Reload(t) ==
    /\ At(t, "reload")
    /\ \/ (tasks[t].secure => Accepted) /\ End(t, "COMPLETED") /\ UNCHANGED faults
       \/ tasks[t].secure /\ ~Accepted /\ Fail(t) /\ UNCHANGED faults
       \/ tasks[t].secure /\ Fault /\ Fail(t)
    /\ UNCHANGED <<lineages, certs, enabled, nginx, issued, rowIds, begun, overlapped, narrowed,
                   apart, bared, adopted>>

(***************************************************************************)
(* POST /ssl/sync: the lineages, the rows, and one transaction that fails  *)
(* as a whole if a row was created or deleted since.                       *)
(***************************************************************************)
\* listSslCertificates: the directory of certbot, and the certificates one after the other,
\* each its names and then the rest.  A failed command leaves the directory empty, or the
\* certificate with no name but its own; only the rest must be there.
List(t) ==
    LET found(names) == Continue(t, [tasks[t] EXCEPT !.pc = "names", !.left = names])
    IN  /\ At(t, "list")
        /\ \/ found({s \in Sites : lineages[s] # None}) /\ UNCHANGED faults
           \/ Fault /\ (found({}) \/ Fail(t))
        /\ UNCHANGED <<lineages, certs, enabled, nginx, issued, rowIds, begun, overlapped,
                       narrowed, apart, bared, adopted>>

ReadNames(t) ==
    LET q == tasks[t]
        reads(s, names) == Continue(t, [q EXCEPT !.pc = "details", !.lineage = s, !.left = @ \ {s},
                                                 !.seen[s].covers = names])
    IN  /\ At(t, "names") /\ q.left # {}
        /\ \/ /\ \E s \in q.left : reads(s, IF lineages[s] = None THEN {} ELSE lineages[s].covers)
              /\ UNCHANGED faults
           \/ Fault /\ (Fail(t) \/ \E s \in q.left : reads(s, {}))
        /\ UNCHANGED <<lineages, certs, enabled, nginx, issued, rowIds, begun, overlapped,
                       narrowed, apart, bared, adopted>>

Details(t) ==
    LET q == tasks[t]
        s == q.lineage
    IN  /\ At(t, "details")
        /\ \/ /\ lineages[s] # None /\ UNCHANGED faults
              /\ Continue(t, [q EXCEPT !.pc = "names", !.lineage = None,
                                !.seen[s].version = lineages[s].version])
           \/ lineages[s] = None /\ Fail(t) /\ UNCHANGED faults
           \/ Fault /\ Fail(t)
        /\ UNCHANGED <<lineages, certs, enabled, nginx, issued, rowIds, begun, overlapped,
                       narrowed, apart, bared, adopted>>

Read(t) ==
    /\ At(t, "names") /\ tasks[t].left = {}
    /\ Continue(t, [tasks[t] EXCEPT !.pc = "merge", !.known = [n \in Names |-> IdOf(n)]])
    /\ UNCHANGED <<lineages, certs, enabled, nginx, issued, rowIds, begun, faults, overlapped,
                   narrowed, apart, bared, adopted>>

\* selectBestDiscoveredSslCertificateByDomain: the newest of those that cover a name, or
\* bear it.
Tells(q, s) == IF q.seen[s].version = 0 THEN {} ELSE q.seen[s].covers \cup {s}
Best(q, n) ==
    LET telling == {s \in Sites : n \in Tells(q, s)}
    IN  CHOOSE s \in telling : \A x \in telling : q.seen[x].version <= q.seen[s].version
Merge(t) ==
    LET q == tasks[t]
        found == UNION {Tells(q, s) : s \in Sites}
        new == {n \in found : certs[n] = None}
    IN  /\ At(t, "merge") /\ (new # {} => rowIds < MaxRowId)
        /\ IF \E n \in found : IdOf(n) # q.known[n]
           THEN UNCHANGED <<certs, enabled, rowIds, narrowed, adopted>>
           ELSE /\ certs' = [n \in Names |-> IF n \notin found THEN certs[n]
                                ELSE [id |-> IF n \in new THEN rowIds + 1 ELSE IdOf(n),
                                      cert |-> q.seen[Best(q, n)]]]
                /\ enabled' = enabled \cup found /\ adopted' = adopted \cup new
                /\ rowIds' = IF new = {} THEN rowIds ELSE rowIds + 1
                /\ narrowed' = (narrowed \/ (Primary \in found /\ ~(Group \subseteq found)))
        /\ End(t, "COMPLETED")
        /\ UNCHANGED <<lineages, nginx, issued, begun, faults, overlapped, apart, bared>>

(***************************************************************************)
(* Operations that are over are forgotten after half an hour; those in     *)
(* memory are lost when the panel restarts.                                *)
(***************************************************************************)
Cleanup(n) ==
    /\ operation[n] \in {"COMPLETED", "FAILED"} /\ operation' = [operation EXCEPT ![n] = None]
    /\ UNCHANGED <<lineages, certs, enabled, nginx, tasks, issued, rowIds, begun, faults, overlapped,
                   narrowed, apart, bared, adopted>>

PanelRestarts ==
    /\ \E t \in Tasks : InProgress(t)
    /\ Fault /\ tasks' = [t \in Tasks |-> NoTask] /\ operation' = [n \in Names |-> None]
    /\ UNCHANGED <<lineages, certs, enabled, nginx, issued, rowIds, begun, overlapped, narrowed,
                   apart, bared, adopted>>

Arrives(t) ==
    \/ \E n \in Names, alone \in BOOLEAN :
          /\ alone => n = Primary
          /\ BeginIssue(t, n, alone) \/ BeginRenew(t, n, alone) \/ BeginDelete(t, n, alone)
    \/ BeginSync(t)
Step(t) ==
    \/ Certbot(t) \/ Fetch(t) \/ Resolve(t) \/ Renew(t) \/ Wait(t) \/ Fallback(t) \/ Drop(t)
    \/ Persist(t) \/ Confirm(t) \/ Enable(t) \/ Clear(t) \/ Disable(t)
    \/ Gather(t) \/ Choose(t) \/ Write(t) \/ Test(t) \/ Reload(t)
    \/ List(t) \/ ReadNames(t) \/ Details(t) \/ Read(t) \/ Merge(t)
Next ==
    \/ \E t \in Tasks : Arrives(t) \/ Step(t)
    \/ \E n \in Names : Cleanup(n)
    \/ PanelRestarts

Spec == Init /\ [][Next]_vars
\* The event loop runs what can go on, and certbot and nginx end what they are asked to do.
FairSpec == Spec /\ \A t \in Tasks : WF_vars(Step(t))

(***************************************************************************)
(* Properties                                                              *)
(***************************************************************************)
\* Requests that came one after the other without a failure, none for an isolated primary
\* domain: its own path takes the lineage of the group for one name.
Undisturbed == ~overlapped /\ faults = 0 /\ ~apart
AllIdle == \A t \in Tasks : ~InProgress(t)

\* The domains of a group show the same certificate, or none, however requests about them
\* overlap and whatever fails, but for three things the code does for one domain of the
\* group alone: a renewal that falls back to the web server's plugin (ssh-services/ssl.ts:797),
\* a sync that goes on with the lineage's own name when the command that reads the others
\* failed (:448-467), and a request for the primary domain made while it is isolated.
GroupInStep ==
    ~narrowed => \A n, m \in Group :
        IF certs[n] = None THEN certs[m] = None ELSE certs[m] # None /\ certs[m].cert = certs[n].cert

\* Between requests that come one after the other and meet no failure, none of them for an
\* isolated primary domain, every row shows the certificate the server has, which covers the
\* domain, and the domains with a row are those with SSL enabled; only the fallback of a
\* renewal breaks this.
RowsFollowServer ==
    Undisturbed /\ AllIdle /\ ~narrowed =>
        /\ enabled = {n \in Names : certs[n] # None}
        /\ \A n \in Names : certs[n] # None /\ certs[n].cert.version # 0 =>
              certs[n].cert = lineages[SiteOf(n)] /\ n \in certs[n].cert.covers

\* Between such requests every site has its file, and this refers to a certificate of all
\* its domains if the panel has issued one, even after a fallback (then to none): unless
\* the certificate of an isolated domain was deleted, which leaves a file nginx refuses and
\* takes the next site written along.
SitesServed ==
    Undisturbed /\ AllIdle /\ bared = {} =>
        \A s \in Sites :
            /\ nginx[s].there
            /\ nginx[s].tls # None => nginx[s].tls = s /\ lineages[s] # None /\ Members(s) \subseteq lineages[s].covers
            /\ certs[s] # None /\ certs[s].cert.version # 0 /\ s \notin adopted /\ ~narrowed => nginx[s].tls = s

\* A renewal in the background comes to an end, also when another certbot holds the lock for
\* good: otherwise no certificate of the server could be renewed before a restart.
RenewalEnds == \A n \in Names : operation[n] = "RUNNING" ~> operation[n] # "RUNNING"
=============================================================================
