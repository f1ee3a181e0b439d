---------------------------- MODULE DomainProofs ----------------------------
(***************************************************************************)
(* Proofs about DomainProvisioning, for any names, proxies and targets.    *)
(*                                                                         *)
(* Between two steps of a request the files are not what the rows say.     *)
(* The invariant says what they are then: every route of a name is that of *)
(* its row, or, for the one or two names in work, the new one, or the old  *)
(* one while a step that removes it is still to come (Routes); and a       *)
(* group's file has all members but those in work (Whole).  Both need the  *)
(* place of a route as well as its proxy and target: an isolated domain    *)
(* that also had a route in the group's file would keep it through the     *)
(* next change of its target.  A member whose container was deleted may    *)
(* have any route in its group's file (Left), but in no other.             *)
(***************************************************************************)
EXTENDS DomainProvisioning, TLAPS

Saving == request.op \in {"create", "update"}
Renamed == request.from # request.to

\* Where the route of a domain with row r is, and that <<n, t>> in file k of p is that route.
Home(n, r) == IF IsSharedNginxConfig(r) THEN Anchor[n] ELSE n
RouteOf(n, r, p, k, t) == Proxied(r) /\ p = r.proxy /\ Says(r.target, t) /\ k = Home(n, r)

\* The domain has a route in the file of its group, as a member or as the one that shares its name.
HasGroupFile(n, r) == IsSharedNginxConfig(r) \/ n = Anchor[n]

\* Neither the domain nor a member of its group has a target.
NoneBound(x) == \A n \in {x} \cup GroupMembers(Anchor[x], {}) : ~Bound(row[n])

\* The request in progress is one the handlers take, and the rows are as it has left them.
Shape ==
    /\ request.op = None => Idle
    /\ request.op # None => /\ {request.from, request.to} \subseteq Names /\ request.todo # {}
                            /\ request.op # "update" => request.from = request.to
    /\ request.op = "delete" =>
          /\ row[request.from] = request.old /\ request.new = None
          /\ "erase" \in request.todo /\ request.todo \subseteq {"cleanup", "oldGroup", "erase"}
          /\ "cleanup" \in request.todo => /\ Proxied(request.old)
                                          /\ (IsSharedNginxConfig(request.old) => NoneBound(request.from))
          /\ "oldGroup" \in request.todo => /\ request.old.proxy = "NGINX" /\ HasGroupFile(request.from, request.old)
                                           /\ ~NoneBound(request.from)
    /\ Saving =>
          /\ request.new \in Inputs
          /\ request.todo \subseteq SaveSteps(request.old, request.new, Renamed)
          /\ IsSharedNginxConfig(request.new) => "newGroup" \in request.todo
          /\ "write" \notin request.todo =>
                /\ request.todo \subseteq {"oldGroup", "newGroup"}
                /\ row[request.to] = request.new /\ (Renamed => row[request.from] = None)
          /\ "write" \in request.todo =>
                row[request.from] = request.old /\ (Renamed => row[request.to] = None)

\* The steps that take the old route of the domain away.
Removers ==
    IF request.op = "delete" THEN {"cleanup", "oldGroup"}
    ELSE IF IsSharedNginxConfig(request.old) THEN {"oldGroup"}
    ELSE IF ShouldCleanupOldProvision(request.old, request.new, Renamed) THEN {"cleanup"}
    ELSE {"provision", "newGroup"}

\* The group's file may have any route of a member that was left without its container.
Left(n, p, k) == n \in orphaned /\ p = "NGINX" /\ k = Anchor[n]

\* Every route of a name is that of its row; of a name in work, it is its new one, or its
\* old one while a step that removes that is still to come.
Routes ==
    \A n \in Names \ disturbed, p \in Proxies, k \in Names, t \in Targets :
        <<n, t>> \in files[p][k] /\ ~Left(n, p, k) =>
            IF n \notin {request.from, request.to} THEN RouteOf(n, row[n], p, k, t)
            ELSE \/ n = request.to /\ RouteOf(n, request.new, p, k, t)
                 \/ n = request.from /\ RouteOf(n, request.old, p, k, t) /\ Removers \cap request.todo # {}

Isolates(r) == Proxied(r) /\ r.proxy = "NGINX" /\ r.mode = "ISOLATED"

\* The rows of isolated domains that have the name of a group's file, now or after the next write.
RootsKnown == \A n \in Names : n = Anchor[n] /\ Isolates(row[n]) => n \in rooted
Rooting(a) == request.to = a /\ "write" \in request.todo /\ Isolates(request.new)

\* The group's file has the routes of all members that are not in work.
Whole ==
    \A n \in Names \ {request.from, request.to} :
        /\ IsSharedNginxConfig(row[n]) /\ Bound(row[n]) /\ Anchor[n] \notin rooted /\ ~Rooting(Anchor[n])
        /\ \A m \in disturbed : Anchor[m] # Anchor[n]
        => <<n, row[n].target>> \in files["NGINX"][Anchor[n]]

\* The members without a target are among those known to have lost one.
Adrift(n, r) ==
    /\ Proxied(r) /\ r.proxy = "NGINX" /\ ~Bound(r)
    /\ r.mode = "SHARED" \/ n = Anchor[n]
AdriftKnown == \A n \in Names : Adrift(n, row[n]) => n \in orphaned

Inv == TypeOK /\ Shape /\ Routes /\ RootsKnown /\ Whole /\ AdriftKnown

Contents == SUBSET (Names \X Targets)
FileMap == [Proxies -> [Names -> Contents]]
Rows == [Names -> Domains \cup {None}]

-----------------------------------------------------------------------------
(* Rows, requests and steps *)

\* What a row that is proxied says.
LEMMA InputIs ==
    ASSUME NEW r \in Inputs
    PROVE  /\ r # None
           /\ Proxied(r) => r.proxy \in Proxies /\ r.target \in Targets /\ Bound(r)
           /\ Proxied(r) => IsSharedNginxConfig(r) \/ r.mode = "ISOLATED"
           /\ IsSharedNginxConfig(r) => Proxied(r) /\ r.proxy = "NGINX" /\ ~Isolates(r)
<1>1. r # None
    BY NoneAssumption DEF Domains
<1>2. CASE r \in [proxy : {"NONE"}, mode : {"ISOLATED"}, target : {None}]
    BY <1>1, <1>2 DEF Proxied, IsSharedNginxConfig
<1>3. CASE r \in [proxy : Proxies, mode : {"ISOLATED"}, target : Targets]
    BY <1>1, <1>3, NoneAssumption DEF Proxied, IsSharedNginxConfig, Bound
<1>4. CASE r \in [proxy : {"NGINX"}, mode : {"SHARED"}, target : Targets]
    BY <1>1, <1>4, DomainAssumption, NoneAssumption DEF Proxied, IsSharedNginxConfig, Isolates, Bound
<1> QED BY <1>2, <1>3, <1>4 DEF Inputs

\* A name without a row has no proxy.
LEMMA NoneIs == ~Proxied(None) /\ ~IsSharedNginxConfig(None) /\ ~Isolates(None) /\ ~Bound(None)
BY DEF Proxied, IsSharedNginxConfig, Isolates, Bound

\* A row that has lost its container is the same but for its target.
LEMMA SetNullIs ==
    ASSUME NEW r \in Inputs, Proxied(r)
    PROVE  /\ SetNull(r) # None /\ Proxied(SetNull(r)) /\ ~Bound(SetNull(r))
           /\ SetNull(r).proxy = r.proxy /\ SetNull(r).mode = r.mode
           /\ SetNull(r).target = [container |-> None, port |-> r.target.port]
<1>1. CASE r \in [proxy : {"NONE"}, mode : {"ISOLATED"}, target : {None}]
    BY <1>1 DEF Proxied
<1>2. SetNull(r) \in Domains
    BY DEF Domains
<1>3. SetNull(r) # None
    BY <1>2, NoneAssumption
<1>4. CASE r \in [proxy : Proxies, mode : {"ISOLATED"}, target : Targets]
    BY <1>3, <1>4 DEF Proxied, Bound, SetNull
<1>5. CASE r \in [proxy : {"NGINX"}, mode : {"SHARED"}, target : Targets]
    BY <1>3, <1>5 DEF Proxied, Bound, SetNull
<1> QED BY <1>1, <1>4, <1>5 DEF Inputs

\* A row there may be or not.
LEMMA RowIs ==
    ASSUME NEW r \in Domains \cup {None}
    PROVE  /\ Proxied(r) => r.proxy \in Proxies /\ (Bound(r) => r.target \in Targets)
           /\ Proxied(r) => IsSharedNginxConfig(r) \/ r.mode = "ISOLATED"
           /\ IsSharedNginxConfig(r) => Proxied(r) /\ r.proxy = "NGINX" /\ ~Isolates(r)
           /\ Bound(r) => Proxied(r)
<1>1. CASE r \in Inputs
    BY <1>1, InputIs DEF Bound
<1>2. CASE r = None
    BY <1>2, NoneIs
<1>3. ASSUME NEW x \in Inputs, Proxied(x), r = SetNull(x)
      PROVE  /\ Proxied(r) => r.proxy \in Proxies /\ (Bound(r) => r.target \in Targets)
             /\ Proxied(r) => IsSharedNginxConfig(r) \/ r.mode = "ISOLATED"
             /\ IsSharedNginxConfig(r) => Proxied(r) /\ r.proxy = "NGINX" /\ ~Isolates(r)
             /\ Bound(r) => Proxied(r)
    BY <1>3, InputIs, SetNullIs DEF IsSharedNginxConfig, Isolates
<1> QED BY <1>1, <1>2, <1>3 DEF Domains

\* An anchor is the anchor of its own group.
LEMMA AnchorIs ==
    ASSUME NEW n \in Names
    PROVE  Anchor[n] \in Names /\ Anchor[Anchor[n]] = Anchor[n]
BY DomainAssumption

\* The steps come in the order of Rank.
LEMMA InOrder ==
    ASSUME TypeOK, NEW s \in Steps, At(s)
    PROVE  /\ s \in request.todo
           /\ s \in {"write", "oldGroup", "newGroup", "erase"} => {"provision", "cleanup"} \cap request.todo = {}
           /\ s \in {"oldGroup", "newGroup", "erase"} => "write" \notin request.todo
           /\ s \in {"newGroup", "erase"} => "oldGroup" \notin request.todo
           /\ s = "erase" => "newGroup" \notin request.todo
           /\ s = "cleanup" => "provision" \notin request.todo
<1>1. \A q \in request.todo : Rank[s] <= Rank[q]
    BY DEF At
<1>2. s \in request.todo
    BY DEF At
<1> QED BY <1>1, <1>2 DEF Rank, Steps

\* A request in progress is a save or a deletion.
LEMMA RequestIs ==
    ASSUME TypeOK, Shape
    PROVE  /\ Idle <=> request.op = None
           /\ Idle => /\ request.from = None /\ request.to = None /\ request.todo = {}
                      /\ {request.from, request.to} \cap Names = {}
           /\ ~Idle => /\ request.from \in Names /\ request.to \in Names
                       /\ Saving <=> request.op # "delete"
                       /\ request.old \in Domains \cup {None}
           /\ request.todo # {} => ~Idle
           /\ Saving => request.new \in Inputs /\ ~Idle
<1>1. Idle => request.op = None
    BY DEF Idle, NoRequest
<1>2. Idle => request.from = None /\ request.to = None /\ request.todo = {}
    BY DEF Idle, NoRequest
<1>3. request.op \in {"create", "update", "delete", None} /\ request.old \in Domains \cup {None}
    BY DEF TypeOK, Ops
<1>4. None \notin Names /\ None \notin {"create", "update", "delete"}
    BY NoneAssumption DEF Ops
<1>5. request.op # None => request.from \in Names /\ request.to \in Names
    BY DEF Shape
<1>6. request.op = None => Idle
    BY DEF Shape
<1>7. Saving => request.new \in Inputs
    BY DEF Shape
<1> QED BY <1>1, <1>2, <1>3, <1>4, <1>5, <1>6, <1>7 DEF Saving

\* What is known of the request at each of the steps of a save.
LEMMA SaveStep ==
    ASSUME TypeOK, Shape, Saving, NEW s \in request.todo
    PROVE  /\ s \in {"provision", "cleanup", "write", "oldGroup", "newGroup"}
           /\ s = "provision" => ShouldProvisionNext(request.old, request.new, Renamed)
           /\ s = "cleanup" => ShouldCleanupOldProvision(request.old, request.new, Renamed)
           /\ s = "oldGroup" => IsSharedNginxConfig(request.old) /\ Bound(request.old)
           /\ s = "newGroup" => IsSharedNginxConfig(request.new)
<1>1. s \in SaveSteps(request.old, request.new, Renamed)
    BY DEF Shape
<1> QED BY <1>1 DEF SaveSteps

\* What a deletion in progress has left to do, and its row.
LEMMA DeleteStep ==
    ASSUME TypeOK, Shape, request.op = "delete"
    PROVE  request.todo \subseteq {"cleanup", "oldGroup", "erase"} /\ request.to = request.from
           /\ request.from \in Names /\ row[request.from] = request.old /\ "erase" \in request.todo
BY RequestIs, NoneAssumption DEF Shape, Ops

-----------------------------------------------------------------------------
(* Files *)

\* The files f differ from the present ones only in files ks of proxy p, each of which is
\* gone, or has the content if it is the one named.
Touches(f, p, ks, file, content) ==
    /\ f \in FileMap
    /\ \A q \in Proxies, k \in Names :
          f[q][k] # files[q][k] => q = p /\ k \in ks /\ (f[q][k] = {} \/ (k = file /\ f[q][k] = content))

\* What a file write leaves in every file.
LEMMA WrittenIs ==
    ASSUME files \in FileMap, NEW p \in Proxies, NEW file, NEW content \in Contents, NEW dropped
    PROVE  /\ Written(p, file, content, dropped) \in FileMap
           /\ \A q \in Proxies, k \in Names :
                 Written(p, file, content, dropped)[q][k] =
                     IF q # p THEN files[q][k]
                     ELSE IF k = file THEN content ELSE IF k \in dropped THEN {} ELSE files[q][k]
<1> DEFINE g == [k \in Names |-> IF k = file THEN content ELSE IF k \in dropped THEN {} ELSE files[p][k]]
<1>1. g \in [Names -> Contents]
    BY DEF FileMap, Contents
<1>2. \A k \in Names : g[k] = IF k = file THEN content ELSE IF k \in dropped THEN {} ELSE files[p][k]
    OBVIOUS
<1>3. Written(p, file, content, dropped) = [files EXCEPT ![p] = g]
    BY DEF Written, FileMap
<1> HIDE DEF g
<1>4. Written(p, file, content, dropped) \in FileMap
    BY <1>1, <1>3 DEF FileMap
<1>5. \A q \in Proxies : Written(p, file, content, dropped)[q] = IF q = p THEN g ELSE files[q]
    BY <1>3 DEF FileMap
<1> QED BY <1>2, <1>4, <1>5

\* A file write touches its own file and those it drops.
LEMMA WrittenTouches ==
    ASSUME files \in FileMap, NEW p \in Proxies, NEW file, NEW content \in Contents, NEW dropped
    PROVE  Touches(Written(p, file, content, dropped), p, {file} \cup dropped, file, content)
<1> DEFINE f == Written(p, file, content, dropped)
<1>1. f \in FileMap
    BY WrittenIs
<1>2. ASSUME NEW q \in Proxies, NEW k \in Names
      PROVE  f[q][k] = IF q # p THEN files[q][k]
                       ELSE IF k = file THEN content ELSE IF k \in dropped THEN {} ELSE files[q][k]
    BY WrittenIs
<1> HIDE DEF f
<1>3. Touches(f, p, {file} \cup dropped, file, content)
    BY <1>1, <1>2 DEF Touches
<1> QED BY <1>3 DEF f

\* What removing files leaves in every file.
LEMMA WithoutIs ==
    ASSUME NEW f \in FileMap, NEW p \in Proxies, NEW removed
    PROVE  /\ Without(f, p, removed) \in FileMap
           /\ \A q \in Proxies, k \in Names :
                 Without(f, p, removed)[q][k] = IF q = p /\ k \in removed THEN {} ELSE f[q][k]
<1> DEFINE g == [k \in Names |-> IF k \in removed THEN {} ELSE f[p][k]]
<1>1. g \in [Names -> Contents]
    BY DEF FileMap, Contents
<1>2. \A k \in Names : g[k] = IF k \in removed THEN {} ELSE f[p][k]
    OBVIOUS
<1>3. Without(f, p, removed) = [f EXCEPT ![p] = g]
    BY DEF Without, FileMap
<1> HIDE DEF g
<1>4. Without(f, p, removed) \in FileMap
    BY <1>1, <1>3 DEF FileMap
<1>5. \A q \in Proxies : Without(f, p, removed)[q] = IF q = p THEN g ELSE f[q]
    BY <1>3 DEF FileMap
<1> QED BY <1>2, <1>4, <1>5

\* A provisioning that throws leaves its file as it was, written or gone.
LEMMA FailedProvisioningIs ==
    ASSUME files \in FileMap, NEW p \in Proxies, NEW file, NEW content \in Contents, NEW dropped,
           NEW f \in FailedProvisioning(p, file, content, dropped)
    PROVE  Touches(f, p, {file} \cup dropped, file, content)
<1>1. f = files \/ (\E some \in SUBSET dropped : f = Written(p, file, content, some)) \/ f = Written(p, file, {}, dropped)
    BY DEF FailedProvisioning
<1>2. ASSUME NEW some \in SUBSET dropped
      PROVE  Touches(Written(p, file, content, some), p, {file} \cup dropped, file, content)
    <2>1. Touches(Written(p, file, content, some), p, {file} \cup some, file, content)
        BY WrittenTouches
    <2> QED BY <2>1 DEF Touches
<1>3. Touches(Written(p, file, {}, dropped), p, {file} \cup dropped, file, content)
    <2>1. Touches(Written(p, file, {}, dropped), p, {file} \cup dropped, file, {})
        <3>1. {} \in Contents
            BY DEF Contents
        <3> QED BY <3>1, WrittenTouches
    <2> QED BY <2>1 DEF Touches
<1>4. Touches(files, p, {file} \cup dropped, file, content)
    BY DEF Touches
<1> QED BY <1>1, <1>2, <1>3, <1>4

\* A removal that fails touches no more than the files it was to remove.
LEMMA FailedRemovalIs ==
    ASSUME files \in FileMap, NEW p \in Proxies, NEW removed, NEW f \in FailedRemoval(p, removed), NEW file, NEW content
    PROVE  Touches(f, p, removed, file, content)
<1> PICK some \in SUBSET removed : f = Without(files, p, some)
    BY DEF FailedRemoval
<1> QED BY WithoutIs DEF Touches

\* A member without a target is adrift.
LEMMA AdriftIs ==
    ASSUME NEW n \in Names
    PROVE  Adrift(n, row[n]) <=> n \in GroupMembers(Anchor[n], {}) /\ ~Bound(row[n])
BY DEF Adrift, GroupMembers

\* The members of a group, and those that have a target.
LEMMA MembersAre ==
    ASSUME TypeOK, NEW a \in Names, NEW excluded
    PROVE  /\ \A n \in GroupMembers(a, excluded) :
                 /\ n \in Names /\ n \notin excluded /\ Anchor[n] = a /\ Proxied(row[n]) /\ row[n].proxy = "NGINX"
                 /\ IsSharedNginxConfig(row[n]) \/ n = a
                 /\ RouteOf(n, row[n], "NGINX", a, row[n].target)
                 /\ Bound(row[n]) => row[n].target \in Targets
                 /\ ~Bound(row[n]) => Adrift(n, row[n])
           /\ \A n \in Names \ excluded :
                 IsSharedNginxConfig(row[n]) /\ Anchor[n] = a => n \in GroupMembers(a, excluded)
<1>1. ASSUME NEW n \in GroupMembers(a, excluded)
      PROVE  /\ n \in Names /\ n \notin excluded /\ Anchor[n] = a /\ Proxied(row[n]) /\ row[n].proxy = "NGINX"
             /\ row[n].mode = "SHARED" \/ n = a
             /\ row[n] \in Domains \cup {None}
    BY DEF GroupMembers, TypeOK
<1>2. ASSUME NEW n \in GroupMembers(a, excluded)
      PROVE  /\ IsSharedNginxConfig(row[n]) \/ n = a
             /\ RouteOf(n, row[n], "NGINX", a, row[n].target)
             /\ Bound(row[n]) => row[n].target \in Targets
             /\ ~Bound(row[n]) => Adrift(n, row[n])
    <2>1. /\ n \in Names /\ Anchor[n] = a /\ Proxied(row[n]) /\ row[n].proxy = "NGINX"
          /\ row[n].mode = "SHARED" \/ n = a
          /\ row[n] \in Domains \cup {None}
        BY <1>1
    <2>2. IsSharedNginxConfig(row[n]) \/ n = a
        BY <2>1 DEF IsSharedNginxConfig
    <2>3. RouteOf(n, row[n], "NGINX", a, row[n].target)
        BY <2>1, <2>2 DEF RouteOf, Home, Says
    <2>4. Bound(row[n]) => row[n].target \in Targets
        BY <2>1, RowIs
    <2> QED BY <2>1, <2>2, <2>3, <2>4 DEF Adrift
<1>3. \A n \in Names \ excluded :
          IsSharedNginxConfig(row[n]) /\ Anchor[n] = a => n \in GroupMembers(a, excluded)
    BY DEF GroupMembers, IsSharedNginxConfig
<1> QED BY <1>1, <1>2, <1>3

\* The target that the members get when none has its own is one.
FallbackKnown(a, excluded) ==
    (\A n \in GroupMembers(a, excluded) : ~Bound(row[n])) /\ GroupMembers(a, excluded) # {} => request.old.target \in Targets

\* The file of a group has the routes of its members and nothing else, unless no member has a target.
LEMMA GroupIs ==
    ASSUME TypeOK, NEW a \in Names, NEW excluded, FallbackKnown(a, excluded)
    PROVE  /\ GroupFile(a, excluded) \in Contents
           /\ \A n, t : <<n, t>> \in GroupFile(a, excluded) =>
                 /\ n \in GroupMembers(a, excluded)
                 /\ IF Bound(row[n]) THEN t = row[n].target ELSE Adrift(n, row[n])
           /\ \A n \in GroupMembers(a, excluded) : Bound(row[n]) => <<n, row[n].target>> \in GroupFile(a, excluded)
<1> DEFINE members == GroupMembers(a, excluded)
           provisionable == {n \in members : Bound(row[n])}
<1>1. \A n \in members : n \in Names /\ (Bound(row[n]) => row[n].target \in Targets) /\ (~Bound(row[n]) => Adrift(n, row[n]))
    BY MembersAre
<1>2. GroupFile(a, excluded) = IF provisionable = {} THEN members \X {request.old.target}
                               ELSE {<<n, row[n].target>> : n \in provisionable}
    BY DEF GroupFile
<1>3. provisionable = {} /\ members # {} => request.old.target \in Targets
    BY DEF FallbackKnown
<1>4. provisionable \subseteq members /\ \A n \in members : n \in provisionable <=> Bound(row[n])
    OBVIOUS
<1> HIDE DEF members, provisionable
<1>5. CASE provisionable = {}
    <2>1. GroupFile(a, excluded) = members \X {request.old.target}
        BY <1>2, <1>5
    <2>2. GroupFile(a, excluded) \in Contents
        BY <1>1, <1>3, <1>5, <2>1 DEF Contents
    <2>3. \A n \in members : ~Bound(row[n])
        BY <1>4, <1>5
    <2> QED BY <1>1, <2>1, <2>2, <2>3 DEF members
<1>6. CASE provisionable # {}
    <2>1. GroupFile(a, excluded) = {<<n, row[n].target>> : n \in provisionable}
        BY <1>2, <1>6
    <2>2. GroupFile(a, excluded) \in Contents
        BY <1>1, <1>4, <2>1 DEF Contents
    <2>3. \A n, t : <<n, t>> \in GroupFile(a, excluded) <=> n \in provisionable /\ t = row[n].target
        BY <2>1
    <2> QED BY <1>1, <1>4, <2>2, <2>3 DEF members
<1> QED BY <1>5, <1>6

\* What a reconciliation does, whether the group has members or not.
LEMMA ReconciledIs ==
    ASSUME TypeOK, files \in FileMap, NEW a \in Names, NEW excluded, FallbackKnown(a, excluded)
    PROVE  LET f == Reconciled(a, excluded)
               members == GroupMembers(a, excluded)
           IN  /\ Touches(f, "NGINX", {a} \cup {n \in {request.from} : members = {}} \cup members, a,
                          GroupFile(a, excluded))
               /\ f["NGINX"][a] = GroupFile(a, excluded)
               /\ \A k \in members \ {a} : f["NGINX"][k] = {}
<1> DEFINE f == Reconciled(a, excluded)
           members == GroupMembers(a, excluded)
<1>0. "NGINX" \in Proxies
    BY DomainAssumption
<1>1. CASE members = {}
    <2>0. GroupFile(a, excluded) = {}
        BY <1>1 DEF GroupFile
    <2>1. f = Without(files, "NGINX", {a, request.from}) /\ GroupFile(a, excluded) = {}
        BY <1>1, <2>0 DEF Reconciled
    <2>2. f \in FileMap /\ \A q \in Proxies, k \in Names :
              f[q][k] = IF q = "NGINX" /\ k \in {a, request.from} THEN {} ELSE files[q][k]
        BY <1>0, <2>1, WithoutIs
    <2> HIDE DEF f
    <2> QED BY <1>0, <1>1, <2>1, <2>2 DEF Touches, f
<1>2. CASE members # {}
    <2>1. f = Written("NGINX", a, GroupFile(a, excluded), members)
        BY <1>2 DEF Reconciled
    <2>2. /\ Touches(f, "NGINX", {a} \cup members, a, GroupFile(a, excluded))
          /\ \A k \in Names : f["NGINX"][k] =
                IF k = a THEN GroupFile(a, excluded) ELSE IF k \in members THEN {} ELSE files["NGINX"][k]
        <3>1. GroupFile(a, excluded) \in Contents
            BY GroupIs
        <3> DEFINE g == GroupFile(a, excluded)
        <3> HIDE DEF members, f, g
        <3>2. Touches(Written("NGINX", a, g, members), "NGINX", {a} \cup members, a, g)
            BY <1>0, <3>1, WrittenTouches DEF g
        <3>3. \A q \in Proxies, k \in Names : Written("NGINX", a, g, members)[q][k] =
                     IF q # "NGINX" THEN files[q][k]
                     ELSE IF k = a THEN g ELSE IF k \in members THEN {} ELSE files[q][k]
            BY <1>0, <3>1, WrittenIs DEF g
        <3> QED BY <1>0, <2>1, <3>2, <3>3 DEF g
    <2>3. members \subseteq Names
        BY MembersAre
    <2> HIDE DEF f, members
    <2>4. Touches(f, "NGINX", {a} \cup {n \in {request.from} : members = {}} \cup members, a, GroupFile(a, excluded))
        BY <2>2 DEF Touches
    <2> QED BY <2>2, <2>3, <2>4 DEF f, members
<1> QED BY <1>1, <1>2

\* A reconciliation that fails touches no more than the group's file and those it was to drop.
LEMMA FailedReconciliationIs ==
    ASSUME TypeOK, files \in FileMap, NEW a \in Names, NEW excluded, FallbackKnown(a, excluded),
           NEW f \in FailedReconciliation(a, excluded)
    PROVE  Touches(f, "NGINX", {a, request.from} \cup GroupMembers(a, excluded), a, GroupFile(a, excluded))
<1>0. "NGINX" \in Proxies
    BY DomainAssumption
<1>1. CASE GroupMembers(a, excluded) = {}
    <2>1. f \in FailedRemoval("NGINX", {a, request.from})
        BY <1>1 DEF FailedReconciliation
    <2>2. Touches(f, "NGINX", {a, request.from}, a, GroupFile(a, excluded))
        BY <1>0, <2>1, FailedRemovalIs
    <2> QED BY <2>2 DEF Touches
<1>2. CASE GroupMembers(a, excluded) # {}
    <2>1. f \in FailedProvisioning("NGINX", a, GroupFile(a, excluded), GroupMembers(a, excluded))
        BY <1>2 DEF FailedReconciliation
    <2>2. Touches(f, "NGINX", {a} \cup GroupMembers(a, excluded), a, GroupFile(a, excluded))
        BY <1>0, <2>1, GroupIs, FailedProvisioningIs
    <2> QED BY <2>2 DEF Touches
<1> QED BY <1>1, <1>2

-----------------------------------------------------------------------------
(* Beginning a request *)

\* A request begins well if it has a step for every route that is not to stay.
LEMMA BeginRoutes ==
    ASSUME Inv, Idle, UNCHANGED <<row, files, disturbed, rooted, orphaned>>,
           request'.from \in Names, request'.to \in Names, request'.old = row[request'.from],
           request'.to = request'.from \/ row[request'.to] = None,
           Proxied(request'.old) =>
              \/ Removers' \cap request'.todo # {}
              \/ IsSharedNginxConfig(request'.old) /\ ~Bound(request'.old)
              \/ /\ request'.to = request'.from /\ Proxied(request'.new)
                 /\ request'.new.proxy = request'.old.proxy /\ request'.new.target = request'.old.target
                 /\ Home(request'.to, request'.new) = Home(request'.from, request'.old)
    PROVE  Routes' /\ RootsKnown' /\ Whole' /\ AdriftKnown'
<1> USE DEF Inv
<1>1. {request.from, request.to} \cap Names = {} /\ request.todo = {}
    BY RequestIs
<1>2. RootsKnown'
    BY DEF RootsKnown
<1>3. Whole'
    <2> SUFFICES ASSUME NEW n \in Names \ {request'.from, request'.to},
                        IsSharedNginxConfig(row[n]), Bound(row[n]), Anchor[n] \notin rooted,
                        \A m \in disturbed : Anchor[m] # Anchor[n]
                 PROVE  <<n, row[n].target>> \in files["NGINX"][Anchor[n]]
        BY DEF Whole
    <2>1. ~Rooting(Anchor[n])
        BY <1>1 DEF Rooting
    <2> QED BY <1>1, <2>1 DEF Whole
<1>4. Routes'
    <2> SUFFICES ASSUME NEW n \in Names \ disturbed, NEW p \in Proxies, NEW k \in Names, NEW t \in Targets,
                        <<n, t>> \in files[p][k], ~Left(n, p, k)
                 PROVE  IF n \notin {request'.from, request'.to} THEN RouteOf(n, row[n], p, k, t)
                        ELSE \/ n = request'.to /\ RouteOf(n, request'.new, p, k, t)
                             \/ /\ n = request'.from /\ RouteOf(n, request'.old, p, k, t)
                                /\ Removers' \cap request'.todo # {}
        BY DEF Routes, Left
    <2>1. RouteOf(n, row[n], p, k, t)
        BY <1>1 DEF Routes
    <2>2. n = request'.to => n = request'.from
        BY <2>1, NoneIs DEF RouteOf
    <2>3. CASE n = request'.from
        <3>1. ~(IsSharedNginxConfig(row[n]) /\ ~Bound(row[n]))
            <4>1. IsSharedNginxConfig(row[n]) => p = "NGINX" /\ k = Anchor[n]
                BY <2>1 DEF RouteOf, Home, IsSharedNginxConfig
            <4> QED BY <4>1 DEF AdriftKnown, Adrift, Left, IsSharedNginxConfig
        <3> QED BY <2>1, <2>2, <2>3, <3>1 DEF RouteOf
    <2> QED BY <2>1, <2>2, <2>3
<1>5. AdriftKnown'
    BY DEF AdriftKnown
<1> QED BY <1>2, <1>3, <1>4, <1>5

\* The steps of a save see to every route of the old row.
LEMMA SaveSeesTo ==
    ASSUME NEW n \in Names, NEW old \in Domains \cup {None}, NEW new \in Inputs, NEW renamed \in BOOLEAN,
           Proxied(old)
    PROVE  \/ IsSharedNginxConfig(old) /\ ~Bound(old)
           \/ IsSharedNginxConfig(old) /\ Bound(old) /\ "oldGroup" \in SaveSteps(old, new, renamed)
           \/ /\ ~IsSharedNginxConfig(old) /\ ShouldCleanupOldProvision(old, new, renamed)
              /\ "cleanup" \in SaveSteps(old, new, renamed)
           \/ /\ ~IsSharedNginxConfig(old) /\ ~ShouldCleanupOldProvision(old, new, renamed)
              /\ {"provision", "newGroup"} \cap SaveSteps(old, new, renamed) # {}
           \/ /\ ~renamed /\ Proxied(new) /\ new.proxy = old.proxy /\ new.target = old.target
              /\ Home(n, new) = Home(n, old)
<1>1. CASE IsSharedNginxConfig(old)
    BY <1>1 DEF SaveSteps
<1>2. CASE ~IsSharedNginxConfig(old) /\ ShouldCleanupOldProvision(old, new, renamed)
    BY <1>2 DEF SaveSteps
<1>3. CASE ~IsSharedNginxConfig(old) /\ ~ShouldCleanupOldProvision(old, new, renamed)
    <2>1. Proxied(new) /\ ~renamed /\ old.proxy = new.proxy
        BY <1>3 DEF ShouldCleanupOldProvision
    <2>2. CASE IsSharedNginxConfig(new)
        BY <1>3, <2>2 DEF SaveSteps
    <2>3. CASE ~IsSharedNginxConfig(new) /\ old.target # new.target
        BY <1>3, <2>1, <2>3 DEF SaveSteps, ShouldProvisionNext
    <2>4. CASE ~IsSharedNginxConfig(new) /\ old.target = new.target
        BY <1>3, <2>1, <2>4 DEF Home
    <2> QED BY <2>2, <2>3, <2>4
<1> QED BY <1>1, <1>2, <1>3

\* A create or an update begins: what its steps will do is still to come.
LEMMA BeginSave ==
    ASSUME Inv, NEW op \in {"create", "update"}, NEW n \in Names, NEW m \in Names, NEW new \in Inputs,
           op = "create" => row[n] = None /\ m = n, m # n => row[m] = None,
           Begin(op, n, m, new, SaveSteps(row[n], new, m # n))
    PROVE  Inv'
<1> USE DEF Inv
<1>1. /\ Idle /\ UNCHANGED <<row, files, faults, disturbed, rooted, orphaned>>
      /\ request' = [op |-> op, from |-> n, to |-> m, old |-> row[n], new |-> new,
                     todo |-> SaveSteps(row[n], new, m # n)]
    BY DEF Begin
<1>2. SaveSteps(row[n], new, m # n) \subseteq {"provision", "cleanup", "write", "oldGroup", "newGroup"}
    BY DEF SaveSteps
<1>3. row[n] \in Domains \cup {None}
    BY DEF TypeOK
<1>4. TypeOK'
    BY <1>1, <1>2, <1>3 DEF TypeOK, Ops, Steps
<1>5. Shape'
    <2>1. "write" \in SaveSteps(row[n], new, m # n)
        BY DEF SaveSteps
    <2>2. IsSharedNginxConfig(new) => "newGroup" \in SaveSteps(row[n], new, m # n)
        BY DEF SaveSteps
    <2>3. op # None
        BY NoneAssumption DEF Ops
    <2> QED BY <1>1, <2>1, <2>2, <2>3 DEF Shape, Saving, Renamed
<1>6. Routes' /\ RootsKnown' /\ Whole' /\ AdriftKnown'
    <2>1. /\ request'.from = n /\ request'.to = m /\ request'.old = row[n] /\ request'.new = new
          /\ request'.todo = SaveSteps(row[n], new, m # n) /\ request'.op # "delete"
        BY <1>1
    <2>2. Removers' = IF IsSharedNginxConfig(row[n]) THEN {"oldGroup"}
                      ELSE IF ShouldCleanupOldProvision(row[n], new, m # n) THEN {"cleanup"}
                      ELSE {"provision", "newGroup"}
        BY <2>1 DEF Removers, Renamed
    <2>3. ASSUME Proxied(row[n])
          PROVE  \/ Removers' \cap request'.todo # {}
                 \/ IsSharedNginxConfig(row[n]) /\ ~Bound(row[n])
                 \/ /\ m = n /\ Proxied(new) /\ new.proxy = row[n].proxy /\ new.target = row[n].target
                    /\ Home(n, new) = Home(n, row[n])
        <3> DEFINE s == SaveSteps(row[n], new, m # n)
                   c == ShouldCleanupOldProvision(row[n], new, m # n)
        <3>1. \/ IsSharedNginxConfig(row[n]) /\ ~Bound(row[n])
              \/ IsSharedNginxConfig(row[n]) /\ Bound(row[n]) /\ "oldGroup" \in s
              \/ ~IsSharedNginxConfig(row[n]) /\ c /\ "cleanup" \in s
              \/ ~IsSharedNginxConfig(row[n]) /\ ~c /\ {"provision", "newGroup"} \cap s # {}
              \/ /\ ~(m # n) /\ Proxied(new) /\ new.proxy = row[n].proxy /\ new.target = row[n].target
                 /\ Home(n, new) = Home(n, row[n])
            BY <1>3, <2>3, SaveSeesTo, ZenonT(60)
        <3> HIDE DEF s, c
        <3> QED BY <2>1, <2>2, <3>1 DEF s, c
    <2> QED BY <1>1, <2>1, <2>3, BeginRoutes
<1> QED BY <1>4, <1>5, <1>6

\* A deletion begins.
LEMMA BeginDeletion ==
    ASSUME Inv, NEW n \in Names, BeginDelete(n)
    PROVE  Inv'
<1> USE DEF Inv
<1>1. /\ Idle /\ UNCHANGED <<row, files, faults, disturbed, rooted, orphaned>> /\ row[n] # None
      /\ request' = [op |-> "delete", from |-> n, to |-> n, old |-> row[n], new |-> None, todo |-> DeleteSteps(n)]
    BY DEF BeginDelete, Begin
<1>2. /\ DeleteSteps(n) \subseteq {"cleanup", "oldGroup", "erase"} /\ "erase" \in DeleteSteps(n)
      /\ Proxied(row[n]) => DeleteSteps(n) \cap {"cleanup", "oldGroup"} # {}
      /\ "cleanup" \in DeleteSteps(n) => Proxied(row[n]) /\ (IsSharedNginxConfig(row[n]) => NoneBound(n))
      /\ "oldGroup" \in DeleteSteps(n) => row[n].proxy = "NGINX" /\ HasGroupFile(n, row[n]) /\ ~NoneBound(n)
    <2>1. ShouldReconcileRootConfigOnDelete(n) =>
              row[n].proxy = "NGINX" /\ HasGroupFile(n, row[n]) /\ ~NoneBound(n)
        BY DEF ShouldReconcileRootConfigOnDelete, HasGroupFile, IsSharedNginxConfig, NoneBound
    <2>2. IsSharedNginxConfig(row[n]) /\ ~ShouldReconcileRootConfigOnDelete(n) => NoneBound(n)
        BY DEF ShouldReconcileRootConfigOnDelete, NoneBound
    <2> QED BY <2>1, <2>2 DEF DeleteSteps
<1>3. row[n] \in Domains \cup {None}
    BY DEF TypeOK
<1>4. TypeOK'
    BY <1>1, <1>2, <1>3 DEF TypeOK, Ops, Steps
<1>5. Shape'
    <2>1. None # "delete"
        BY NoneAssumption DEF Ops
    <2>2. NoneBound(n)' <=> NoneBound(n)
        BY <1>1 DEF NoneBound, GroupMembers
    <2> QED BY <1>1, <1>2, <2>1, <2>2 DEF Shape, Saving
<1>6. Routes' /\ RootsKnown' /\ Whole' /\ AdriftKnown'
    <2>1. Removers' = {"cleanup", "oldGroup"}
        BY <1>1 DEF Removers
    <2> QED BY <1>1, <1>2, <2>1, BeginRoutes
<1> QED BY <1>4, <1>5, <1>6

-----------------------------------------------------------------------------
(* A request that fails or is cut off *)

\* The rows are those there were, without those of some names.
Lose(gone) == row' = [n \in Names |-> IF n \in gone THEN None ELSE row[n]]

\* A content has no route of a domain not in work but the one that belongs in the file.
OthersRight(p, file, content) ==
    \A n \in Names \ {request.from, request.to}, t \in Targets : <<n, t>> \in content => RouteOf(n, row[n], p, file, t) \/ Left(n, p, file)

\* The files of groups among ks are those of the names in work.
OwnGroups(p, ks) ==
    \A n \in Names : p = "NGINX" /\ Anchor[n] \in ks => Anchor[n] \in {Anchor[request.from], Anchor[request.to]}

\* Nothing is lost for others when a request ends half way, if its last step has put no route of
\* another domain where it does not belong and has left alone the files of other groups.
LEMMA AbandonKeeps ==
    ASSUME Inv, ~Idle, Abandon, NEW gone \in SUBSET {request.from, request.to},
           Lose(gone),
           \A p \in Proxies, k \in Names, n \in Names \ {request.from, request.to}, t \in Targets :
              <<n, t>> \in files'[p][k] => <<n, t>> \in files[p][k] \/ RouteOf(n, row[n], p, k, t) \/ Left(n, p, k),
           \A n \in Names : Anchor[n] \notin {Anchor[request.from], Anchor[request.to]} =>
              files'["NGINX"][Anchor[n]] = files["NGINX"][Anchor[n]]
    PROVE  Shape' /\ Routes' /\ RootsKnown' /\ Whole' /\ AdriftKnown'
<1> USE DEF Inv
<1>1. /\ request' = NoRequest /\ disturbed' = disturbed \cup {request.from, request.to} /\ rooted' = rooted /\ orphaned' = orphaned
      /\ \A n \in Names : row'[n] = None \/ row'[n] = row[n]
      /\ \A n \in Names \ {request.from, request.to} : row'[n] = row[n]
    BY DEF Abandon, Lose
<1>2. request'.op = None /\ request'.from = None /\ request'.to = None /\ request'.todo = {} /\ None \notin Names
    BY <1>1, NoneAssumption DEF NoRequest
<1>3. Shape'
    BY <1>1, <1>2, NoneAssumption DEF Shape, Idle, Saving, Ops
<1>4. Routes'
    <2> SUFFICES ASSUME NEW n \in Names \ disturbed', NEW p \in Proxies, NEW k \in Names, NEW t \in Targets,
                        <<n, t>> \in files'[p][k], ~Left(n, p, k)
                 PROVE  RouteOf(n, row'[n], p, k, t)
        BY <1>1, <1>2 DEF Routes, Left
    <2>1. n \notin disturbed /\ n \notin {request.from, request.to} /\ row'[n] = row[n]
        BY <1>1
    <2> QED BY <2>1 DEF Routes
<1>5. RootsKnown'
    BY <1>1, NoneIs DEF RootsKnown
<1>6. Whole'
    <2> SUFFICES ASSUME NEW n \in Names, IsSharedNginxConfig(row'[n]), Bound(row'[n]), Anchor[n] \notin rooted,
                        \A m \in disturbed' : Anchor[m] # Anchor[n]
                 PROVE  <<n, row'[n].target>> \in files'["NGINX"][Anchor[n]]
        BY <1>1 DEF Whole
    <2>1. /\ Anchor[n] \notin {Anchor[request.from], Anchor[request.to]}
          /\ \A m \in disturbed : Anchor[m] # Anchor[n]
        BY <1>1
    <2>2. n \notin {request.from, request.to} /\ row'[n] = row[n]
        BY <1>1, <2>1
    <2>3. ~Rooting(Anchor[n])
        BY <2>1, AnchorIs DEF Rooting
    <2>4. <<n, row[n].target>> \in files["NGINX"][Anchor[n]]
        BY <2>1, <2>2, <2>3 DEF Whole
    <2> QED BY <2>1, <2>2, <2>4
<1>7. AdriftKnown'
    BY <1>1, NoneIs DEF AdriftKnown, Adrift
<1> QED BY <1>3, <1>4, <1>5, <1>6, <1>7

\* The same of a step that touches some files of one proxy.
LEMMA AbandonTouching ==
    ASSUME Inv, ~Idle, Abandon, NEW gone \in SUBSET {request.from, request.to},
           Lose(gone),
           NEW p \in Proxies, NEW ks, NEW file \in Names, NEW content, Touches(files', p, ks, file, content),
           OthersRight(p, file, content), OwnGroups(p, ks)
    PROVE  Shape' /\ Routes' /\ RootsKnown' /\ Whole' /\ AdriftKnown'
<1>1. ASSUME NEW q \in Proxies, NEW k \in Names, NEW n \in Names \ {request.from, request.to}, NEW t \in Targets,
             <<n, t>> \in files'[q][k]
      PROVE  <<n, t>> \in files[q][k] \/ RouteOf(n, row[n], q, k, t) \/ Left(n, q, k)
    BY <1>1 DEF Touches, OthersRight
<1>2. ASSUME NEW n \in Names, Anchor[n] \notin {Anchor[request.from], Anchor[request.to]}
      PROVE  files'["NGINX"][Anchor[n]] = files["NGINX"][Anchor[n]]
    BY <1>2, DomainAssumption DEF Touches, OwnGroups
<1> QED BY <1>1, <1>2, AbandonKeeps

\* An abandoned request leaves well-formed rows and files.
LEMMA AbandonTypes ==
    ASSUME TypeOK, Shape, ~Idle, Fault, Abandon, files' \in FileMap,
           NEW gone \in SUBSET Names, Lose(gone)
    PROVE  TypeOK'
<1>1. disturbed' \subseteq Names /\ rooted' \subseteq Names /\ orphaned' \subseteq Names
    BY RequestIs DEF Abandon, TypeOK
<1>2. faults' \in 0..MaxFaults
    BY DomainAssumption DEF Fault, TypeOK
<1>3. row' \in [Names -> Domains \cup {None}] /\ \A n \in Foreign : row'[n] = None
    BY DomainAssumption DEF TypeOK, Lose
<1>4. files' \in [Proxies -> [Names -> SUBSET (Names \X Targets)]]
    BY DEF FileMap, Contents
<1>5. request' \in [op : Ops \cup {None}, from : Names \cup {None}, to : Names \cup {None},
                    old : Domains \cup {None}, new : Inputs \cup {None}, todo : SUBSET Steps]
    BY DEF Abandon, NoRequest
<1> QED BY <1>1, <1>2, <1>3, <1>4, <1>5 DEF TypeOK

\* A row map in which nothing goes.
LEMMA NoneGone == TypeOK /\ UNCHANGED row => Lose({})
BY DEF TypeOK, Lose

\* The files as a map of maps.
LEMMA FilesAre == TypeOK => files \in FileMap
BY DEF TypeOK, FileMap, Contents

\* A restart, or the database's refusal of the name, abandons the request.
LEMMA RestartKeeps == Inv /\ (Restart \/ NameTaken) => Inv'
<1> SUFFICES ASSUME Inv, Restart \/ NameTaken PROVE Inv'
    OBVIOUS
<1>0. TypeOK /\ Shape
    BY DEF Inv
<1>1. ~Idle /\ Fault /\ Abandon /\ UNCHANGED <<row, files>>
    BY <1>0, RequestIs DEF Restart, NameTaken, At
<1>2. Lose({})
    BY <1>0, <1>1, NoneGone
<1>3. Shape' /\ Routes' /\ RootsKnown' /\ Whole' /\ AdriftKnown'
    BY <1>1, <1>2, AbandonKeeps
<1>4. TypeOK'
    BY <1>0, <1>1, <1>2, AbandonTypes, FilesAre
<1> QED BY <1>3, <1>4 DEF Inv

\* What is known of the steps that provision and clean up.
LEMMA ProvisionIs ==
    ASSUME TypeOK, Shape, At("provision")
    PROVE  /\ Saving /\ ~Idle /\ request.new \in Inputs /\ Proxied(request.new) /\ ~IsSharedNginxConfig(request.new)
           /\ request.new.proxy \in Proxies /\ request.new.target \in Targets /\ "write" \in request.todo
           /\ {<<request.to, request.new.target>>} \in Contents
<1>1. "provision" \in request.todo
    BY DEF At
<1>2. Saving /\ ~Idle
    BY <1>1, RequestIs, DeleteStep
<1>3. ShouldProvisionNext(request.old, request.new, Renamed)
    BY <1>1, <1>2, SaveStep
<1>4. request.new \in Inputs /\ "write" \in request.todo
    BY <1>1, <1>2 DEF Shape
<1>5. request.new.proxy \in Proxies /\ request.new.target \in Targets
    BY <1>3, <1>4, InputIs DEF ShouldProvisionNext
<1>6. request.to \in Names
    BY <1>2, RequestIs
<1> QED BY <1>2, <1>3, <1>4, <1>5, <1>6 DEF ShouldProvisionNext, Contents

\* What the removal of the old configuration is about.
LEMMA CleanupIs ==
    ASSUME TypeOK, Shape, At("cleanup")
    PROVE  /\ ~Idle /\ Proxied(request.old) /\ (IsSharedNginxConfig(request.old) => NoneBound(request.from))
           /\ (Saving => ~IsSharedNginxConfig(request.old))
           /\ request.old \in Domains \cup {None} /\ request.old.proxy \in Proxies /\ row[request.from] = request.old
<1>1. "cleanup" \in request.todo /\ ~Idle
    BY RequestIs DEF At
<1>2. request.op = "delete" \/ Saving
    BY <1>1, RequestIs
<1>3. CASE request.op = "delete"
    <2>1. /\ Proxied(request.old) /\ (IsSharedNginxConfig(request.old) => NoneBound(request.from))
          /\ row[request.from] = request.old
        BY <1>1, <1>3 DEF Shape
    <2>2. ~Saving
        BY <1>3 DEF Saving
    <2> QED BY <1>1, <2>1, <2>2, RequestIs, RowIs
<1>4. CASE Saving
    <2>1. ShouldCleanupOldProvision(request.old, request.new, Renamed)
        BY <1>1, <1>4, SaveStep
    <2>2. row[request.from] = request.old
        BY <1>1, <1>4 DEF Shape
    <2> QED BY <1>1, <2>1, <2>2, RequestIs, RowIs DEF ShouldCleanupOldProvision
<1> QED BY <1>2, <1>3, <1>4

\* A provisioning that fails.
LEMMA ProvisionFailureKeeps == Inv /\ ProvisionProxyFails => Inv'
<1> SUFFICES ASSUME Inv, ProvisionProxyFails PROVE Inv'
    OBVIOUS
<1>0. TypeOK /\ Shape
    BY DEF Inv
<1>1. At("provision") /\ Fault /\ Abandon /\ UNCHANGED row
    BY DEF ProvisionProxyFails
<1>2. /\ ~Idle /\ request.to \in Names /\ request.new.proxy \in Proxies
      /\ {<<request.to, request.new.target>>} \in Contents
    BY <1>1, <1>0, ProvisionIs, RequestIs
<1>3. Touches(files', request.new.proxy, {request.to} \cup {}, request.to, {<<request.to, request.new.target>>})
    BY <1>2, FailedProvisioningIs, <1>0, FilesAre DEF ProvisionProxyFails
<1>4. Lose({})
    BY <1>0, <1>1, NoneGone
<1>5. Shape' /\ Routes' /\ RootsKnown' /\ Whole' /\ AdriftKnown'
    <2>1. OwnGroups(request.new.proxy, {request.to} \cup {})
        BY AnchorIs DEF OwnGroups
    <2>2. OthersRight(request.new.proxy, request.to, {<<request.to, request.new.target>>})
        BY DEF OthersRight
    <2>3. {} \in SUBSET {request.from, request.to}
        OBVIOUS
    <2> QED BY <1>1, <1>2, <1>3, <1>4, <2>1, <2>2, <2>3, AbandonTouching
<1>6. TypeOK'
    BY <1>1, <1>2, <1>3, <1>4, <1>0, AbandonTypes DEF Touches
<1> QED BY <1>5, <1>6 DEF Inv

\* A removal that fails in a PUT is followed by the removal of the new file.
LEMMA RemovalFailureFiles ==
    ASSUME Inv, RemoveProxyFails
    PROVE  /\ files' \in FileMap
           /\ \A p \in Proxies, k \in Names : files'[p][k] # files[p][k] =>
                 /\ files'[p][k] = {}
                 /\ k \in {request.from, request.to}
<1> USE DEF Inv
<1>1. At("cleanup") /\ ~Idle /\ request.old.proxy \in Proxies /\ files \in FileMap
    BY CleanupIs, FilesAre DEF RemoveProxyFails
<1>2. PICK f \in FailedRemoval(request.old.proxy, {request.from}) :
           IF request.op = "update" /\ ShouldProvisionNext(request.old, request.new, request.from # request.to)
           THEN files' \in {f, Without(f, request.new.proxy, {request.to})}
           ELSE files' = f
    BY DEF RemoveProxyFails
<1>3. Touches(f, request.old.proxy, {request.from}, request.from, {})
    BY <1>1, FailedRemovalIs
<1>4. CASE files' = f
    BY <1>3, <1>4 DEF Touches
<1>5. CASE files' = Without(f, request.new.proxy, {request.to}) /\ Saving /\ Proxied(request.new)
    <2>1. request.new.proxy \in Proxies
        BY <1>5, RequestIs, InputIs
    <2>2. /\ files' \in FileMap
          /\ \A q \in Proxies, k \in Names :
                files'[q][k] = IF q = request.new.proxy /\ k \in {request.to} THEN {} ELSE f[q][k]
        BY <1>3, <1>5, <2>1, WithoutIs DEF Touches
    <2> QED BY <1>3, <2>2 DEF Touches
<1> QED BY <1>2, <1>4, <1>5 DEF ShouldProvisionNext, Saving

\* A removal of the old configuration that fails.
LEMMA RemovalFailureKeeps == Inv /\ RemoveProxyFails => Inv'
<1> SUFFICES ASSUME Inv, RemoveProxyFails PROVE Inv'
    OBVIOUS
<1>0. TypeOK /\ Shape
    BY DEF Inv
<1>1. At("cleanup") /\ Fault /\ Abandon /\ UNCHANGED row
    BY DEF RemoveProxyFails
<1>2. ~Idle
    BY <1>1, <1>0, CleanupIs
<1>3. Lose({})
    BY <1>0, <1>1, NoneGone
<1>4. /\ files' \in FileMap
      /\ \A p \in Proxies, k \in Names : files'[p][k] # files[p][k] =>
                 files'[p][k] = {} /\ k \in {request.from, request.to}
    BY RemovalFailureFiles
<1>5. ASSUME NEW p \in Proxies, NEW k \in Names, NEW n \in Names \ {request.from, request.to}, NEW t \in Targets,
             <<n, t>> \in files'[p][k]
      PROVE  <<n, t>> \in files[p][k]
    BY <1>4, <1>5
<1>6. ASSUME NEW n \in Names, Anchor[n] \notin {Anchor[request.from], Anchor[request.to]}
      PROVE  files'["NGINX"][Anchor[n]] = files["NGINX"][Anchor[n]]
    BY <1>4, <1>6, AnchorIs, DomainAssumption
<1>7. Shape' /\ Routes' /\ RootsKnown' /\ Whole' /\ AdriftKnown'
    BY <1>1, <1>2, <1>3, <1>5, <1>6, AbandonKeeps
<1>8. TypeOK'
    BY <1>1, <1>2, <1>3, <1>4, <1>0, AbandonTypes
<1> QED BY <1>7, <1>8 DEF Inv

\* When no member of the old group has a target, the domain that leaves has had one.
LEMMA OldTarget ==
    ASSUME TypeOK, Shape, At("oldGroup")
    PROVE  FallbackKnown(Anchor[request.from], {n \in {request.from} : request.op = "delete"})
<1> DEFINE excluded == {n \in {request.from} : request.op = "delete"}
           a == Anchor[request.from]
<1>1. "oldGroup" \in request.todo /\ ~Idle
    BY RequestIs DEF At
<1>2. request.op = "delete" \/ Saving
    BY <1>1, RequestIs
<1>3. request.from \in Names /\ request.old \in Domains \cup {None}
    BY <1>1, RequestIs
<1>4. CASE Saving
    <2>1. Bound(request.old)
        BY <1>1, <1>4, SaveStep
    <2> QED BY <1>3, <2>1, RowIs DEF FallbackKnown, Bound
<1>5. CASE request.op = "delete"
    <2>1. ~NoneBound(request.from) /\ row[request.from] = request.old
        BY <1>1, <1>5 DEF Shape
    <2>2. excluded = {request.from}
        BY <1>5
    <2>3. GroupMembers(a, {}) \subseteq GroupMembers(a, excluded) \cup {request.from}
        BY <2>2 DEF GroupMembers
    <2>4. PICK m \in {request.from} \cup GroupMembers(a, {}) : Bound(row[m])
        BY <2>1 DEF NoneBound
    <2> HIDE DEF excluded, a
    <2>5. CASE m = request.from
        <3>1. request.old.target \in Targets
            BY <1>3, <2>1, <2>4, <2>5, RowIs
        <3> QED BY <3>1 DEF FallbackKnown, excluded, a
    <2>6. CASE m # request.from
        <3>1. m \in GroupMembers(a, excluded)
            BY <2>3, <2>4, <2>6
        <3> QED BY <2>4, <3>1 DEF FallbackKnown, excluded, a
    <2> QED BY <2>5, <2>6
<1> QED BY <1>2, <1>4, <1>5

\* The domain that joins a group has a target.
LEMMA NewTarget ==
    ASSUME TypeOK, Shape, At("newGroup")
    PROVE  FallbackKnown(Anchor[request.to], {})
<1>1. "newGroup" \in request.todo /\ ~Idle /\ "write" \notin request.todo
    BY RequestIs, InOrder DEF At, Steps
<1>2. Saving
    BY <1>1, RequestIs, DeleteStep
<1>3. IsSharedNginxConfig(request.new) /\ request.new \in Inputs /\ row[request.to] = request.new
      /\ request.to \in Names
    BY <1>1, <1>2, SaveStep, RequestIs DEF Shape
<1>4. Bound(row[request.to]) /\ request.to \in GroupMembers(Anchor[request.to], {})
    BY <1>3, InputIs DEF GroupMembers, IsSharedNginxConfig
<1> QED BY <1>4 DEF FallbackKnown

\* A reconciliation touches its group's file, and those of the request's domain and of members.
LEMMA GroupTouched ==
    ASSUME TypeOK, NEW x \in {request.from, request.to}, request.from \in Names, request.to \in Names, NEW excluded,
           FallbackKnown(Anchor[x], excluded), AdriftKnown
    PROVE  /\ Anchor[x] \in Names
           /\ OthersRight("NGINX", Anchor[x], GroupFile(Anchor[x], excluded))
           /\ OwnGroups("NGINX", {Anchor[x], request.from} \cup GroupMembers(Anchor[x], excluded))
<1>1. Anchor[x] \in Names
    BY AnchorIs
<1>2. \A n \in GroupMembers(Anchor[x], excluded) :
          n \in Names /\ Anchor[n] = Anchor[x] /\ RouteOf(n, row[n], "NGINX", Anchor[x], row[n].target)
    BY <1>1, MembersAre
<1>3. \A n, t : <<n, t>> \in GroupFile(Anchor[x], excluded) =>
          /\ n \in GroupMembers(Anchor[x], excluded)
          /\ t = row[n].target \/ Adrift(n, row[n])
    BY <1>1, GroupIs
<1>4. OthersRight("NGINX", Anchor[x], GroupFile(Anchor[x], excluded))
    BY <1>2, <1>3 DEF OthersRight, AdriftKnown, Left
<1>5. OwnGroups("NGINX", {Anchor[x], request.from} \cup GroupMembers(Anchor[x], excluded))
    BY <1>2, AnchorIs DEF OwnGroups
<1> QED BY <1>1, <1>4, <1>5

\* A reconciliation that fails, of the old group or of the new one.
LEMMA ReconciliationFailureKeeps == Inv /\ (ReconcileOldGroupFails \/ ReconcileNewGroupFails) => Inv'
<1> SUFFICES ASSUME Inv, ReconcileOldGroupFails \/ ReconcileNewGroupFails PROVE Inv'
    OBVIOUS
<1>0. TypeOK /\ Shape /\ AdriftKnown
    BY DEF Inv
<1>1. Fault /\ Abandon /\ request.todo # {}
    BY DEF ReconcileOldGroupFails, ReconcileNewGroupFails, At
<1>2. ~Idle /\ request.from \in Names /\ request.to \in Names
    BY <1>0, <1>1, RequestIs
<1>3. PICK x \in {request.from, request.to}, excluded \in SUBSET {request.from} :
           FallbackKnown(Anchor[x], excluded) /\ files' \in FailedReconciliation(Anchor[x], excluded)
    <2>1. CASE ReconcileOldGroupFails
        BY <1>0, <2>1, OldTarget DEF ReconcileOldGroupFails
    <2>2. CASE ReconcileNewGroupFails
        BY <1>0, <2>2, NewTarget DEF ReconcileNewGroupFails
    <2> QED BY <2>1, <2>2
<1>4. PICK gone \in SUBSET {request.from, request.to} : Lose(gone)
    <2>1. CASE row' = row
        BY <1>0, <2>1, NoneGone
    <2>2. CASE row' = [row EXCEPT ![request.to] = None]
        <3>1. Lose({request.to})
            BY <1>0, <2>2 DEF TypeOK, Lose
        <3> QED BY <3>1
    <2> QED BY <2>1, <2>2 DEF ReconcileOldGroupFails, ReconcileNewGroupFails
<1>5. Anchor[x] \in Names
    BY <1>2, AnchorIs
<1>6. Touches(files', "NGINX", {Anchor[x], request.from} \cup GroupMembers(Anchor[x], excluded), Anchor[x],
              GroupFile(Anchor[x], excluded))
    BY <1>0, <1>3, <1>5, FilesAre, FailedReconciliationIs
<1>7. Shape' /\ Routes' /\ RootsKnown' /\ Whole' /\ AdriftKnown'
    <2>1. /\ OthersRight("NGINX", Anchor[x], GroupFile(Anchor[x], excluded))
          /\ OwnGroups("NGINX", {Anchor[x], request.from} \cup GroupMembers(Anchor[x], excluded))
        BY <1>0, <1>2, <1>3, GroupTouched
    <2> QED BY <1>1, <1>2, <1>4, <1>5, <1>6, <2>1, AbandonTouching, DomainAssumption
<1>8. TypeOK'
    BY <1>1, <1>2, <1>4, <1>6, <1>0, AbandonTypes DEF Touches
<1> QED BY <1>7, <1>8 DEF Inv

-----------------------------------------------------------------------------
(* A step that is done *)

\* The request goes on with the steps it has left, or is over.
LEMMA ProceedIs ==
    ASSUME TypeOK, Shape, NEW s \in Steps, Proceed(s)
    PROVE  /\ ~Idle /\ s \in request.todo /\ faults' = faults /\ disturbed' = disturbed
           /\ request.todo = {s} => request' = NoRequest
           /\ request.todo # {s} =>
                 /\ request'.op = request.op /\ request'.from = request.from /\ request'.to = request.to
                 /\ request'.old = request.old /\ request'.new = request.new
                 /\ request'.todo = request.todo \ {s} /\ request'.todo # {}
           /\ request' \in [op : Ops \cup {None}, from : Names \cup {None}, to : Names \cup {None},
                            old : Domains \cup {None}, new : Inputs \cup {None}, todo : SUBSET Steps]
<1>1. s \in request.todo /\ faults' = faults /\ disturbed' = disturbed
    BY DEF Proceed, At
<1>2. ~Idle
    BY <1>1, RequestIs
<1>3. CASE request.todo = {s}
    <2>1. request' = NoRequest
        BY <1>3 DEF Proceed
    <2> QED BY <1>1, <1>2, <1>3, <2>1 DEF NoRequest
<1>4. CASE request.todo # {s}
    <2>1. request' = [request EXCEPT !.todo = request.todo \ {s}]
        BY <1>4 DEF Proceed
    <2> QED BY <1>1, <1>2, <1>4, <2>1 DEF TypeOK
<1> QED BY <1>3, <1>4

\* A step taken in full keeps rows and files well formed.
LEMMA ProceedTypes ==
    ASSUME TypeOK, Shape, NEW s \in Steps, Proceed(s), files' \in FileMap, rooted' \subseteq Names, orphaned' \subseteq Names,
           row' \in Rows, \A n \in Foreign : row'[n] = None
    PROVE  TypeOK'
<1>1. files' \in [Proxies -> [Names -> SUBSET (Names \X Targets)]]
    BY DEF FileMap, Contents
<1> QED BY <1>1, ProceedIs DEF TypeOK, Rows

\* The last step of a deletion is the erasure, that of a save with a shared group its group's.
LEMMA LastStep ==
    ASSUME TypeOK, Shape, NEW s \in Steps, Proceed(s)
    PROVE  /\ s = "erase" => request.op = "delete" /\ request.todo = {s}
           /\ s = "newGroup" => Saving /\ request.todo = {s} /\ IsSharedNginxConfig(request.new)
           /\ s \in {"provision", "cleanup"} => request.todo # {s}
           /\ s \in {"provision", "write"} => Saving
<1>1. At(s) /\ s \in request.todo /\ ~Idle
    BY ProceedIs DEF Proceed
<1>2. request.op = "delete" \/ Saving
    BY <1>1, RequestIs
<1>3. ASSUME request.op = "delete"
      PROVE  "erase" \in request.todo /\ request.todo \subseteq {"cleanup", "oldGroup", "erase"}
    BY <1>3, DeleteStep
<1>4. ASSUME Saving
      PROVE  /\ request.todo \subseteq {"provision", "cleanup", "write", "oldGroup", "newGroup"}
             /\ "write" \notin request.todo => request.todo \subseteq {"oldGroup", "newGroup"}
             /\ s = "newGroup" => IsSharedNginxConfig(request.new)
    BY <1>1, <1>4, SaveStep DEF Shape
<1>5. CASE s = "erase"
    <2>1. request.op = "delete"
        BY <1>1, <1>2, <1>4, <1>5
    <2> QED BY <1>1, <1>3, <1>5, <2>1, InOrder
<1>6. CASE s = "newGroup"
    <2>1. Saving
        BY <1>1, <1>2, <1>3, <1>6
    <2> QED BY <1>1, <1>4, <1>6, <2>1, InOrder
<1>7. CASE s \in {"provision", "cleanup"}
    BY <1>1, <1>2, <1>3, <1>4, <1>7
<1>8. CASE s = "write"
    BY <1>1, <1>2, <1>3, <1>8
<1> QED BY <1>5, <1>6, <1>7, <1>8

\* A step taken in full keeps the request and the rows together.
LEMMA ProceedShape ==
    ASSUME TypeOK, Shape, NEW s \in Steps, Proceed(s),
           s \notin {"write", "erase"} => UNCHANGED row,
           s = "write" => row'[request.to] = request.new /\ (Renamed => row'[request.from] = None)
    PROVE  Shape'
<1>1. CASE request.todo = {s}
    <2>1. request' = NoRequest
        BY <1>1, ProceedIs
    <2> QED BY <2>1, NoneAssumption DEF Shape, Idle, Saving, Ops, NoRequest
<1>2. CASE request.todo # {s}
    <2>1. /\ request'.op = request.op /\ request'.from = request.from /\ request'.to = request.to
          /\ request'.old = request.old /\ request'.new = request.new
          /\ request'.todo = request.todo \ {s} /\ request'.todo # {} /\ s \in request.todo /\ ~Idle
        BY <1>2, ProceedIs
    <2>2. s # "erase" /\ s # "newGroup"
        BY <1>2, LastStep
    <2>3. CASE request.op = "delete"
        <3>1. s # "write"
            BY <2>3, LastStep, NoneAssumption DEF Saving
        <3>2. row' = row
            BY <2>2, <3>1
        <3>3. \A n \in Names : NoneBound(n)' <=> NoneBound(n)
            BY <3>2 DEF NoneBound, GroupMembers
        <3>4. request.from \in Names
            BY <2>1, RequestIs
        <3> QED BY <2>1, <2>2, <2>3, <3>1, <3>2, <3>3, <3>4, NoneAssumption DEF Shape, Saving, Ops
    <2>4. CASE Saving
        <3>1. /\ request.new \in Inputs
              /\ request.todo \subseteq SaveSteps(request.old, request.new, Renamed)
              /\ IsSharedNginxConfig(request.new) => "newGroup" \in request.todo
            BY <2>4 DEF Shape
        <3>2. CASE s = "write"
            <4>1. request'.todo \subseteq {"oldGroup", "newGroup"}
                <5>1. {"provision", "cleanup"} \cap request.todo = {}
                    BY <3>2, InOrder DEF Proceed
                <5>2. request.todo \subseteq {"provision", "cleanup", "write", "oldGroup", "newGroup"}
                    BY <2>4, SaveStep
                <5> QED BY <2>1, <3>2, <5>1, <5>2
            <4> QED BY <2>1, <2>2, <2>4, <3>1, <3>2, <4>1 DEF Shape, Saving, Renamed
        <3>3. CASE s # "write"
            <4>1. row' = row /\ ("write" \in request'.todo <=> "write" \in request.todo)
                BY <2>1, <2>2, <3>3
            <4> QED BY <2>1, <2>2, <2>4, <3>1, <3>3, <4>1 DEF Shape, Saving, Renamed
        <3> QED BY <3>2, <3>3
    <2> QED BY <2>1, <2>3, <2>4, RequestIs
<1> QED BY <1>1, <1>2

\* The same of a member that is left without its container after the step.
LeftAfter(n, p, k) == n \in orphaned' /\ p = "NGINX" /\ k = Anchor[n]

\* The pairs that the step leaves in the files were there, or are routes that belong there.
NewRight ==
    \A p \in Proxies, k \in Names, n \in Names, t \in Targets :
        <<n, t>> \in files'[p][k] /\ ~LeftAfter(n, p, k) =>
            \/ <<n, t>> \in files[p][k] /\ ~Left(n, p, k)
            \/ n \notin {request.from, request.to} /\ RouteOf(n, row[n], p, k, t)
            \/ n = request.to /\ RouteOf(n, request.new, p, k, t)

\* The old route is gone from the files, unless it is the new one too.
OldGone ==
    \A p \in Proxies, k \in Names, t \in Targets :
        /\ <<request.from, t>> \in files'[p][k] /\ ~LeftAfter(request.from, p, k)
        /\ RouteOf(request.from, request.old, p, k, t)
        =>
            request.from = request.to /\ RouteOf(request.to, request.new, p, k, t)

\* The files keep the routes of the members of groups that are not in work.
OthersKept ==
    \A n \in Names \ {request.from, request.to} :
        /\ IsSharedNginxConfig(row[n]) /\ Bound(row[n]) /\ Anchor[n] \notin rooted /\ ~Rooting(Anchor[n])
        /\ <<n, row[n].target>> \in files["NGINX"][Anchor[n]]
        => <<n, row[n].target>> \in files'["NGINX"][Anchor[n]]

\* A step taken in full keeps the routes when it writes no route but the new one, and takes the
\* old one away if it is there to do that.
LEMMA ProceedRoutes ==
    ASSUME TypeOK, Shape, Routes, NEW s \in Steps, Proceed(s), NewRight, s \in Removers => OldGone,
           \A n \in Names \ {request.from, request.to} : row'[n] = row[n],
           request.todo = {s} => row'[request.to] = request.new \/ request.new = None
    PROVE  Routes'
<1> SUFFICES ASSUME NEW n \in Names \ disturbed', NEW p \in Proxies, NEW k \in Names, NEW t \in Targets,
                    <<n, t>> \in files'[p][k], ~LeftAfter(n, p, k)
             PROVE  IF n \notin {request'.from, request'.to} THEN RouteOf(n, row'[n], p, k, t)
                    ELSE \/ n = request'.to /\ RouteOf(n, request'.new, p, k, t)
                         \/ /\ n = request'.from /\ RouteOf(n, request'.old, p, k, t)
                            /\ Removers' \cap request'.todo # {}
    BY DEF Routes, Left, LeftAfter
<1>1. n \notin disturbed
    BY ProceedIs
<1>2. IF n \notin {request.from, request.to} THEN RouteOf(n, row[n], p, k, t)
      ELSE \/ n = request.to /\ RouteOf(n, request.new, p, k, t)
           \/ n = request.from /\ RouteOf(n, request.old, p, k, t) /\ Removers \cap (request.todo \ {s}) # {}
    <2>1. CASE <<n, t>> \in files[p][k] /\ ~Left(n, p, k)
        <3>1. IF n \notin {request.from, request.to} THEN RouteOf(n, row[n], p, k, t)
              ELSE \/ n = request.to /\ RouteOf(n, request.new, p, k, t)
                   \/ n = request.from /\ RouteOf(n, request.old, p, k, t) /\ Removers \cap request.todo # {}
            BY <1>1, <2>1 DEF Routes
        <3>2. ASSUME n = request.from, RouteOf(n, request.old, p, k, t), s \in Removers
              PROVE  n = request.to /\ RouteOf(n, request.new, p, k, t)
            BY <3>2 DEF OldGone
        <3>3. s \notin Removers => Removers \cap (request.todo \ {s}) = Removers \cap request.todo
            OBVIOUS
        <3> QED BY <3>1, <3>2, <3>3
    <2>2. CASE ~(<<n, t>> \in files[p][k] /\ ~Left(n, p, k))
        BY <2>2 DEF NewRight, Left, LeftAfter
    <2> QED BY <2>1, <2>2
<1>3. CASE request.todo = {s}
    <2>1. request'.from = None /\ request'.to = None /\ n # None
        BY <1>3, ProceedIs, NoneAssumption DEF NoRequest
    <2>2. RouteOf(n, row'[n], p, k, t)
        BY <1>2, <1>3, NoneIs DEF RouteOf
    <2> QED BY <2>1, <2>2
<1>4. CASE request.todo # {s}
    <2>1. /\ request'.op = request.op /\ request'.from = request.from /\ request'.to = request.to
          /\ request'.old = request.old /\ request'.new = request.new /\ request'.todo = request.todo \ {s}
        BY <1>4, ProceedIs
    <2>2. Removers' = Removers
        BY <2>1 DEF Removers, Renamed
    <2> QED BY <1>2, <2>1, <2>2
<1> QED BY <1>3, <1>4

\* A step taken in full keeps the groups' files whole when it keeps the routes of the others.
LEMMA ProceedWhole ==
    ASSUME TypeOK, Shape, Whole, NEW s \in Steps, Proceed(s), OthersKept,
           \A n \in Names \ {request.from, request.to} : row'[n] = row[n],
           rooted \subseteq rooted',
           s = "write" => \A n \in Names : Rooting(Anchor[n]) => Anchor[n] \in rooted',
           request.todo = {s} => \A n \in {request.from, request.to} :
               IsSharedNginxConfig(row'[n]) /\ Bound(row'[n]) => <<n, row'[n].target>> \in files'["NGINX"][Anchor[n]]
    PROVE  Whole'
<1> SUFFICES ASSUME NEW n \in Names \ {request'.from, request'.to},
                    IsSharedNginxConfig(row'[n]), Bound(row'[n]), Anchor[n] \notin rooted', ~Rooting(Anchor[n])',
                    \A m \in disturbed' : Anchor[m] # Anchor[n]
             PROVE  <<n, row'[n].target>> \in files'["NGINX"][Anchor[n]]
    BY DEF Whole
<1>1. disturbed' = disturbed
    BY ProceedIs
<1>2. ~Rooting(Anchor[n])
    <2>1. CASE s = "write"
        BY <2>1
    <2>2. CASE s # "write" /\ request.todo = {s}
        BY <2>2 DEF Rooting
    <2>3. CASE s # "write" /\ request.todo # {s}
        <3>1. request'.to = request.to /\ request'.new = request.new /\ request'.todo = request.todo \ {s}
            BY <2>3, ProceedIs
        <3> QED BY <2>3, <3>1 DEF Rooting
    <2> QED BY <2>1, <2>2, <2>3
<1>3. CASE n \notin {request.from, request.to}
    BY <1>1, <1>2, <1>3 DEF Whole, OthersKept
<1>4. CASE n \in {request.from, request.to}
    <2>1. request.todo = {s}
        BY <1>4, ProceedIs
    <2> QED BY <1>4, <2>1
<1> QED BY <1>3, <1>4

\* No row loses its container in a step of a request.
LEMMA AdriftStays ==
    ASSUME AdriftKnown, orphaned \subseteq orphaned',
           \A n \in Names : row'[n] = row[n] \/ row'[n] \in Inputs \cup {None}
    PROVE  AdriftKnown'
<1> SUFFICES ASSUME NEW n \in Names, Adrift(n, row'[n]) PROVE n \in orphaned'
    BY DEF AdriftKnown
<1>1. row'[n] \notin Inputs \cup {None}
    BY InputIs, NoneIs DEF Adrift
<1> QED BY <1>1 DEF AdriftKnown

\* provisionProxyForDomain.
LEMMA ProvisioningKeeps == Inv /\ ProvisionProxyForDomain => Inv'
<1> SUFFICES ASSUME Inv, ProvisionProxyForDomain PROVE Inv'
    OBVIOUS
<1>0. TypeOK /\ Shape /\ Routes /\ Whole /\ files \in FileMap
    BY FilesAre DEF Inv
<1>1. At("provision") /\ Proceed("provision") /\ UNCHANGED <<row, rooted, orphaned>> /\ "provision" \in Steps
    BY DEF ProvisionProxyForDomain, Proceed, Steps
<1> DEFINE content == {<<request.to, request.new.target>>}
<1>2. /\ Saving /\ request.new \in Inputs /\ Proxied(request.new) /\ ~IsSharedNginxConfig(request.new)
      /\ request.new.proxy \in Proxies /\ "write" \in request.todo /\ content \in Contents
    BY <1>0, <1>1, ProvisionIs
<1>3. /\ files' \in FileMap
      /\ \A p \in Proxies, k \in Names :
            files'[p][k] = IF p = request.new.proxy /\ k = request.to THEN content ELSE files[p][k]
    <2>1. files' = Written(request.new.proxy, request.to, content, {})
        BY DEF ProvisionProxyForDomain
    <2>2. \A p \in Proxies, k \in Names : files'[p][k] = IF p # request.new.proxy THEN files[p][k]
                     ELSE IF k = request.to THEN content ELSE IF k \in {} THEN {} ELSE files[p][k]
        BY <1>0, <1>2, <2>1, WrittenIs
    <2> QED BY <1>0, <1>2, <2>1, <2>2, WrittenIs
<1>4. TypeOK' /\ Shape'
    <2>1. row \in Rows /\ (\A n \in Foreign : row[n] = None) /\ rooted \subseteq Names /\ orphaned \subseteq Names
        BY <1>0 DEF TypeOK, Rows
    <2> QED BY <1>0, <1>1, <1>3, <2>1, ProceedTypes, ProceedShape
<1>5. NewRight
    <2>1. \A n, t : <<n, t>> \in content => n = request.to /\ t = request.new.target
        OBVIOUS
    <2> HIDE DEF content
    <2>2. RouteOf(request.to, request.new, request.new.proxy, request.to, request.new.target)
        BY <1>2 DEF RouteOf, Home, Says
    <2>3. \A n, p, k : LeftAfter(n, p, k) <=> Left(n, p, k)
        BY <1>1 DEF LeftAfter, Left
    <2> QED BY <1>3, <2>1, <2>2, <2>3 DEF NewRight
<1>6. "provision" \in Removers => OldGone
    <2> SUFFICES ASSUME "provision" \in Removers, NEW p \in Proxies, NEW k \in Names, NEW t \in Targets,
                        <<request.from, t>> \in files'[p][k], ~LeftAfter(request.from, p, k),
                        RouteOf(request.from, request.old, p, k, t)
                 PROVE  request.from = request.to /\ RouteOf(request.to, request.new, p, k, t)
        BY DEF OldGone
    <2>1. /\ ~IsSharedNginxConfig(request.old) /\ request.from = request.to
          /\ Proxied(request.old) => request.old.proxy = request.new.proxy
        <3>1. request.op # "delete"
            BY <1>2 DEF Saving
        <3>2. ~IsSharedNginxConfig(request.old) /\ ~ShouldCleanupOldProvision(request.old, request.new, Renamed)
            BY <3>1 DEF Removers
        <3> QED BY <3>2 DEF ShouldCleanupOldProvision, Renamed, RouteOf
    <2>2. p = request.new.proxy /\ k = request.to
        BY <2>1 DEF RouteOf, Home
    <2> QED BY <1>2, <1>3, <2>1, <2>2 DEF RouteOf, Home, Says
<1>7. Routes'
    <2>1. request.todo # {"provision"} /\ \A n \in Names \ {request.from, request.to} : row'[n] = row[n]
        BY <1>1, <1>2
    <2> QED BY <1>0, <1>1, <1>5, <1>6, <2>1, ProceedRoutes
<1>8. OthersKept
    <2> SUFFICES ASSUME NEW n \in Names \ {request.from, request.to}, ~Rooting(Anchor[n])
                 PROVE  files'["NGINX"][Anchor[n]] = files["NGINX"][Anchor[n]]
        BY DEF OthersKept
    <2>1. request.new.proxy = "NGINX" => Isolates(request.new)
        BY <1>2, InputIs DEF Isolates
    <2>2. ~(request.new.proxy = "NGINX" /\ Anchor[n] = request.to)
        BY <1>2, <2>1 DEF Rooting
    <2> QED BY <1>3, <2>2, AnchorIs, DomainAssumption
<1>9. Whole'
    <2>1. request.todo # {"provision"} /\ \A n \in Names \ {request.from, request.to} : row'[n] = row[n]
        BY <1>1, <1>2
    <2> QED BY <1>0, <1>1, <1>8, <2>1, ProceedWhole
<1>10. RootsKnown'
    BY <1>1 DEF Inv, RootsKnown
<1>11. AdriftKnown'
    BY <1>1, AdriftStays DEF Inv
<1> QED BY <1>4, <1>7, <1>9, <1>10, <1>11 DEF Inv

\* removeManagedDomainProxyConfig.
LEMMA CleanupKeeps == Inv /\ RemoveManagedDomainProxyConfig => Inv'
<1> SUFFICES ASSUME Inv, RemoveManagedDomainProxyConfig PROVE Inv'
    OBVIOUS
<1>0. TypeOK /\ Shape /\ Routes /\ Whole /\ files \in FileMap
    BY FilesAre DEF Inv
<1>1. At("cleanup") /\ Proceed("cleanup") /\ UNCHANGED <<row, rooted, orphaned>> /\ "cleanup" \in Steps
    BY DEF RemoveManagedDomainProxyConfig, Proceed, Steps
<1>2. /\ Proxied(request.old) /\ (IsSharedNginxConfig(request.old) => NoneBound(request.from))
      /\ request.old \in Domains \cup {None} /\ request.old.proxy \in Proxies /\ row[request.from] = request.old /\ ~Idle
    BY <1>0, <1>1, CleanupIs
<1>3. /\ files' \in FileMap
      /\ \A p \in Proxies, k \in Names :
            files'[p][k] = IF p = request.old.proxy /\ k \in {request.from} THEN {} ELSE files[p][k]
    <2>1. files' = Without(files, request.old.proxy, {request.from})
        BY DEF RemoveManagedDomainProxyConfig
    <2> QED BY <1>0, <1>2, <2>1, WithoutIs
<1>4. TypeOK' /\ Shape'
    <2>1. row \in Rows /\ (\A n \in Foreign : row[n] = None) /\ rooted \subseteq Names /\ orphaned \subseteq Names
        BY <1>0 DEF TypeOK, Rows
    <2> QED BY <1>0, <1>1, <1>3, <2>1, ProceedTypes, ProceedShape
<1>5. NewRight
    BY <1>1, <1>3 DEF NewRight, Left, LeftAfter
<1>6. OldGone
    <2> SUFFICES ASSUME NEW p \in Proxies, NEW k \in Names, NEW t \in Targets,
                        <<request.from, t>> \in files'[p][k], RouteOf(request.from, request.old, p, k, t)
                 PROVE  LeftAfter(request.from, p, k)
        BY DEF OldGone
    <2>1. IsSharedNginxConfig(request.old)
        BY <1>2, <1>3 DEF RouteOf, Home
    <2>2. request.old.proxy = "NGINX" /\ p = "NGINX" /\ k = Anchor[request.from] /\ request.from \in Names
        BY <1>0, <1>2, <2>1, RequestIs DEF RouteOf, Home, IsSharedNginxConfig
    <2>3. ~Bound(request.old)
        BY <1>2, <2>1 DEF NoneBound
    <2>4. Adrift(request.from, row[request.from])
        BY <1>2, <2>1, <2>2, <2>3 DEF Adrift, IsSharedNginxConfig
    <2> QED BY <1>1, <2>2, <2>4 DEF LeftAfter, Inv, AdriftKnown
<1>7. request.todo # {"cleanup"} /\ \A n \in Names \ {request.from, request.to} : row'[n] = row[n]
    BY <1>0, <1>1, LastStep
<1>8. Routes'
    BY <1>0, <1>1, <1>5, <1>6, <1>7, ProceedRoutes
<1>9. OthersKept
    <2> SUFFICES ASSUME NEW n \in Names \ {request.from, request.to}, Anchor[n] \notin rooted,
                        IsSharedNginxConfig(row[n]), Bound(row[n])
                 PROVE  files'["NGINX"][Anchor[n]] = files["NGINX"][Anchor[n]]
        BY DEF OthersKept
    <2>1. request.old.proxy = "NGINX" => IsSharedNginxConfig(request.old) \/ Isolates(row[request.from])
        BY <1>2, RowIs DEF Isolates
    <2>2. IsSharedNginxConfig(request.old) => Anchor[n] # request.from
        <3>1. Anchor[n] = request.from => n \in GroupMembers(Anchor[request.from], {})
            BY AnchorIs DEF GroupMembers, IsSharedNginxConfig
        <3> QED BY <1>2, <3>1 DEF NoneBound
    <2>3. ~(request.old.proxy = "NGINX" /\ Anchor[n] = request.from)
        BY <2>1, <2>2, AnchorIs DEF Inv, RootsKnown
    <2> QED BY <1>3, <2>3, AnchorIs, DomainAssumption
<1>10. Whole'
    BY <1>0, <1>1, <1>7, <1>9, ProceedWhole
<1>11. RootsKnown'
    BY <1>1 DEF Inv, RootsKnown
<1>12. AdriftKnown'
    BY <1>1, AdriftStays DEF Inv
<1> QED BY <1>4, <1>8, <1>10, <1>11, <1>12 DEF Inv

\* The row is created or updated.
LEMMA WriteKeeps == Inv /\ WriteRow => Inv'
<1> SUFFICES ASSUME Inv, WriteRow PROVE Inv'
    OBVIOUS
<1>0. TypeOK /\ Shape /\ Routes /\ Whole /\ RootsKnown /\ files \in FileMap
    BY FilesAre DEF Inv
<1>1. At("write") /\ Proceed("write") /\ UNCHANGED <<files, orphaned>> /\ "write" \in Steps /\ request.to \notin Foreign
    BY DEF WriteRow, Proceed, Steps
<1>2. Saving /\ ~Idle /\ request.from \in Names /\ request.to \in Names /\ request.new \in Inputs
    BY <1>0, <1>1, LastStep, RequestIs
<1>3. /\ row' \in Rows /\ row'[request.to] = request.new /\ (Renamed => row'[request.from] = None)
      /\ \A n \in Names \ {request.from, request.to} : row'[n] = row[n]
    <2>1. row' = [row EXCEPT ![request.from] = None, ![request.to] = request.new]
        BY DEF WriteRow
    <2>2. row \in [Names -> Domains \cup {None}] /\ request.new \in Domains
        BY <1>0, <1>2 DEF TypeOK, Domains
    <2>3. row'[request.to] = request.new
        BY <1>2, <2>1, <2>2
    <2>4. request.from # request.to => row'[request.from] = None
        BY <1>2, <2>1, <2>2
    <2> QED BY <1>2, <2>1, <2>2, <2>3, <2>4 DEF Rows, Renamed
<1>4. rooted \subseteq rooted' /\ rooted' \subseteq Names
      /\ (request.to = Anchor[request.to] /\ Isolates(request.new) => request.to \in rooted')
    <2>1. rooted' = rooted \cup {n \in {request.to} : /\ n = Anchor[n] /\ request.new.proxy = "NGINX"
                                                      /\ request.new.mode = "ISOLATED"}
        BY DEF WriteRow
    <2>2. rooted \subseteq Names
        BY <1>0 DEF TypeOK
    <2> QED BY <1>2, <2>1, <2>2 DEF Isolates
<1>11. orphaned' \subseteq Names
    BY <1>0, <1>1 DEF TypeOK
<1>5. \A n \in Foreign : row'[n] = None
    <2> SUFFICES ASSUME NEW n \in Foreign PROVE row'[n] = None
        OBVIOUS
    <2>1. n \in Names /\ n # request.to /\ row[n] = None
        BY <1>0, <1>1, DomainAssumption DEF TypeOK
    <2>2. CASE n = request.from
        BY <1>3, <2>1, <2>2 DEF Renamed
    <2> QED BY <1>3, <2>1, <2>2
<1>6. TypeOK' /\ Shape'
    BY <1>0, <1>1, <1>3, <1>4, <1>5, <1>11, ProceedTypes, ProceedShape
<1>7. Routes'
    <2>1. NewRight
        BY <1>1 DEF NewRight, Left, LeftAfter
    <2>2. "write" \notin Removers
        BY DEF Removers
    <2> QED BY <1>0, <1>1, <1>3, <2>1, <2>2, ProceedRoutes
<1>8. Whole'
    <2>1. OthersKept
        BY <1>1 DEF OthersKept
    <2>2. \A n \in Names : Rooting(Anchor[n]) => Anchor[n] \in rooted'
        BY <1>4, AnchorIs DEF Rooting
    <2>3. ASSUME request.todo = {"write"}, NEW n \in {request.from, request.to}
          PROVE  ~IsSharedNginxConfig(row'[n])
        <3>1. ~IsSharedNginxConfig(request.new)
            BY <1>0, <1>2, <2>3 DEF Shape
        <3> QED BY <1>3, <3>1, NoneIs DEF Renamed
    <2>4. request.todo = {"write"} => \A n \in {request.from, request.to} :
              IsSharedNginxConfig(row'[n]) /\ Bound(row'[n]) => <<n, row'[n].target>> \in files'["NGINX"][Anchor[n]]
        BY <2>3
    <2> QED BY <1>0, <1>1, <1>3, <1>4, <2>1, <2>2, <2>4, ProceedWhole
<1>9. RootsKnown'
    <2> SUFFICES ASSUME NEW n \in Names, n = Anchor[n], Isolates(row'[n]) PROVE n \in rooted'
        BY DEF RootsKnown
    <2>1. CASE n = request.to
        BY <1>3, <1>4, <2>1
    <2>2. CASE n # request.to /\ n = request.from
        BY <1>3, <2>2, NoneIs DEF Renamed
    <2>3. CASE n \notin {request.from, request.to}
        BY <1>0, <1>3, <1>4, <2>3 DEF RootsKnown
    <2> QED BY <2>1, <2>2, <2>3
<1>10. AdriftKnown'
    <2>1. \A n \in Names : row'[n] = row[n] \/ row'[n] \in Inputs \cup {None}
        BY <1>2, <1>3 DEF Renamed
    <2> QED BY <1>1, <2>1, AdriftStays DEF Inv
<1> QED BY <1>6, <1>7, <1>8, <1>9, <1>10 DEF Inv

\* The row is deleted.
LEMMA ErasureKeeps == Inv /\ EraseRow => Inv'
<1> SUFFICES ASSUME Inv, EraseRow PROVE Inv'
    OBVIOUS
<1>0. TypeOK /\ Shape /\ Routes /\ Whole /\ RootsKnown /\ files \in FileMap
    BY FilesAre DEF Inv
<1>1. Proceed("erase") /\ UNCHANGED <<files, rooted, orphaned>> /\ "erase" \in Steps
    BY DEF EraseRow, Steps
<1>2. request.op = "delete" /\ request.todo = {"erase"} /\ request.from \in Names /\ request.to = request.from
      /\ request.new = None
    BY <1>0, <1>1, LastStep, DeleteStep DEF Shape
<1>3. /\ row' \in Rows /\ row'[request.from] = None
      /\ \A n \in Names \ {request.from} : row'[n] = row[n]
    BY <1>0, <1>2 DEF TypeOK, Rows, EraseRow
<1>4. TypeOK' /\ Shape'
    <2>1. (\A n \in Foreign : row'[n] = None) /\ rooted' \subseteq Names /\ orphaned' \subseteq Names
        BY <1>0, <1>1, <1>3, DomainAssumption DEF TypeOK
    <2> QED BY <1>0, <1>1, <1>3, <2>1, ProceedTypes, ProceedShape
<1>5. Routes'
    <2>1. NewRight
        BY <1>1 DEF NewRight, Left, LeftAfter
    <2>2. "erase" \notin Removers
        BY <1>2 DEF Removers
    <2> QED BY <1>0, <1>1, <1>2, <1>3, <2>1, <2>2, ProceedRoutes
<1>6. Whole'
    <2>1. OthersKept
        BY <1>1 DEF OthersKept
    <2>2. \A n \in {request.from, request.to} : ~IsSharedNginxConfig(row'[n])
        BY <1>2, <1>3, NoneIs
    <2> QED BY <1>0, <1>1, <1>2, <1>3, <2>1, <2>2, ProceedWhole
<1>7. RootsKnown'
    BY <1>0, <1>1, <1>3, NoneIs DEF RootsKnown
<1>8. AdriftKnown'
    <2>1. \A n \in Names : row'[n] = row[n] \/ row'[n] \in Inputs \cup {None}
        BY <1>3
    <2> QED BY <1>1, <2>1, AdriftStays DEF Inv
<1> QED BY <1>4, <1>5, <1>6, <1>7, <1>8 DEF Inv

\* What is known of the rows when a group's file is rewritten.
LEMMA GroupStep ==
    ASSUME TypeOK, Shape, NEW s \in {"oldGroup", "newGroup"}, Proceed(s)
    PROVE  /\ request.from \in Names /\ request.to \in Names
           /\ Saving => /\ request.new \in Inputs /\ row[request.to] = request.new
                        /\ Renamed => row[request.from] = None
           /\ request.op = "delete" => /\ s = "oldGroup" /\ request.to = request.from /\ request.todo # {s}
                                       /\ request.old.proxy = "NGINX" /\ HasGroupFile(request.from, request.old)
           /\ request.op = "delete" \/ Saving
           /\ Saving /\ s = "oldGroup" => IsSharedNginxConfig(request.old)
           /\ Saving /\ request.todo = {"oldGroup"} => ~IsSharedNginxConfig(request.new)
<1>0. s \in Steps /\ s \in request.todo /\ At(s) /\ ~Idle
    BY ProceedIs DEF Steps, Proceed
<1>1. request.from \in Names /\ request.to \in Names /\ (request.op = "delete" \/ Saving)
    BY <1>0, RequestIs
<1>2. ASSUME Saving
      PROVE  /\ request.new \in Inputs /\ row[request.to] = request.new
             /\ Renamed => row[request.from] = None
             /\ s = "oldGroup" => IsSharedNginxConfig(request.old)
             /\ request.todo = {"oldGroup"} => ~IsSharedNginxConfig(request.new)
    <2>1. "write" \notin request.todo
        BY <1>0, InOrder
    <2>2. request.todo = {"oldGroup"} => ~IsSharedNginxConfig(request.new)
        BY <1>2 DEF Shape
    <2> QED BY <1>0, <1>2, <2>1, <2>2, SaveStep DEF Shape
<1>3. ASSUME request.op = "delete"
      PROVE  /\ s = "oldGroup" /\ request.to = request.from /\ request.todo # {s}
             /\ request.old.proxy = "NGINX" /\ HasGroupFile(request.from, request.old)
    <2>1. s = "oldGroup" /\ request.to = request.from /\ request.todo # {s}
        BY <1>0, <1>3, DeleteStep
    <2> QED BY <1>0, <1>3, <2>1 DEF Shape
<1> QED BY <1>1, <1>2, <1>3

\* A group's file is rewritten with its members: those in work have their new rows by then.
LEMMA ReconciliationKeeps ==
    ASSUME Inv, NEW s \in {"oldGroup", "newGroup"}, Proceed(s), UNCHANGED <<row, rooted>>,
           NEW x \in {request.from, request.to}, NEW excluded \in SUBSET {request.from},
           files' = Reconciled(Anchor[x], excluded), Readopt(Anchor[x]), FallbackKnown(Anchor[x], excluded),
           GroupMembers(Anchor[x], excluded) = {} => Anchor[x] = Anchor[request.from],
           \A n \in {request.from, request.to} \cap GroupMembers(Anchor[x], excluded) :
               n = request.to /\ row[n] = request.new,
           request.todo = {s} => \A n \in {request.from, request.to} :
               IsSharedNginxConfig(row[n]) => n \in GroupMembers(Anchor[x], excluded),
           s \in Removers => OldGone
    PROVE  Inv'
<1>0. TypeOK /\ Shape /\ Routes /\ Whole /\ RootsKnown /\ AdriftKnown /\ files \in FileMap /\ s \in Steps
    BY FilesAre DEF Inv, Steps
<1>1. request.from \in Names /\ request.to \in Names /\ "NGINX" \in Proxies
    BY <1>0, GroupStep, DomainAssumption
<1> DEFINE a == Anchor[x]
           members == GroupMembers(a, excluded)
           content == GroupFile(a, excluded)
<1>2. a \in Names
    BY <1>1, AnchorIs
<1>3. /\ Touches(files', "NGINX", {a} \cup {n \in {request.from} : members = {}} \cup members, a, content)
      /\ files'["NGINX"][a] = content
    BY <1>0, <1>2, ReconciledIs
<1>4. /\ \A n, t : <<n, t>> \in content => n \in members /\ (IF Bound(row[n]) THEN t = row[n].target ELSE Adrift(n, row[n]))
      /\ \A n \in members : Bound(row[n]) => <<n, row[n].target>> \in content
      /\ \A n \in members : n \in Names /\ Anchor[n] = a /\ RouteOf(n, row[n], "NGINX", a, row[n].target)
      /\ \A n \in Names \ excluded : IsSharedNginxConfig(row[n]) /\ Anchor[n] = a => n \in members
    <2>1. FallbackKnown(a, excluded)
        OBVIOUS
    <2> QED BY <1>0, <1>2, <2>1, GroupIs, MembersAre
<1>12. /\ orphaned' \subseteq orphaned
       /\ \A n \in Names : n \in orphaned /\ n \notin orphaned' => Anchor[n] = a /\ ~Adrift(n, row[n])
    <2>1. orphaned' = {n \in orphaned : Anchor[n] # a \/ (n \in GroupMembers(a, {}) /\ ~Bound(row[n]))}
        BY DEF Readopt
    <2>2. \A n \in Names : Adrift(n, row[n]) <=> n \in GroupMembers(Anchor[n], {}) /\ ~Bound(row[n])
        BY AdriftIs
    <2> HIDE DEF a
    <2> QED BY <2>1, <2>2
<1>13. AdriftKnown'
    BY <1>0, <1>12 DEF AdriftKnown
<1>5. /\ members = {} => a = Anchor[request.from]
      /\ \A n \in {request.from, request.to} \cap members : n = request.to /\ row[n] = request.new
      /\ request.todo = {s} => \A n \in {request.from, request.to} : IsSharedNginxConfig(row[n]) => n \in members
    OBVIOUS
<1> HIDE DEF a, members, content
<1>6. TypeOK' /\ Shape'
    <2>1. files' \in FileMap
        BY <1>3 DEF Touches
    <2>2. row \in Rows /\ (\A n \in Foreign : row[n] = None) /\ rooted \subseteq Names /\ orphaned' \subseteq Names
        BY <1>0, <1>12 DEF TypeOK, Rows
    <2> QED BY <1>0, <2>1, <2>2, ProceedTypes, ProceedShape
<1>7. NewRight
    <2> SUFFICES ASSUME NEW p \in Proxies, NEW k \in Names, NEW n \in Names, NEW t \in Targets,
                        <<n, t>> \in files'[p][k], ~LeftAfter(n, p, k)
                 PROVE  \/ <<n, t>> \in files[p][k] /\ ~Left(n, p, k)
                        \/ n \notin {request.from, request.to} /\ RouteOf(n, row[n], p, k, t)
                        \/ n = request.to /\ RouteOf(n, request.new, p, k, t)
        BY DEF NewRight
    <2>1. CASE p = "NGINX" /\ k = a
        <3>1. <<n, t>> \in content
            BY <1>3, <2>1
        <3>2. n \in members /\ (IF Bound(row[n]) THEN t = row[n].target ELSE Adrift(n, row[n])) /\ Anchor[n] = a
            BY <1>4, <3>1
        <3>3. ~Adrift(n, row[n])
            BY <1>13, <2>1, <3>2 DEF AdriftKnown, LeftAfter
        <3>4. RouteOf(n, row[n], p, k, t)
            BY <1>4, <2>1, <3>2, <3>3
        <3> QED BY <1>5, <3>2, <3>4
    <2>2. CASE ~(p = "NGINX" /\ k = a)
        <3>1. files'[p][k] = files[p][k] \/ files'[p][k] = {}
            BY <1>3, <2>2 DEF Touches
        <3>2. ~Left(n, p, k)
            BY <1>12, <2>2 DEF Left, LeftAfter
        <3> QED BY <3>1, <3>2
    <2> QED BY <2>1, <2>2
<1>8. Routes'
    <2>1. request.todo = {s} => row'[request.to] = request.new \/ request.new = None
        <3>1. CASE Saving
            BY <1>0, <3>1, GroupStep
        <3>2. CASE request.op = "delete"
            BY <1>0, <3>2, GroupStep
        <3> QED BY <1>0, <3>1, <3>2, GroupStep
    <2> QED BY <1>0, <1>7, <2>1, ProceedRoutes
<1>9. OthersKept
    <2> SUFFICES ASSUME NEW n \in Names \ {request.from, request.to}, IsSharedNginxConfig(row[n]), Bound(row[n]),
                        <<n, row[n].target>> \in files["NGINX"][Anchor[n]]
                 PROVE  <<n, row[n].target>> \in files'["NGINX"][Anchor[n]]
        BY DEF OthersKept
    <2>1. Anchor[n] \in Names /\ Anchor[Anchor[n]] = Anchor[n]
        BY AnchorIs
    <2>2. CASE Anchor[n] = a
        BY <1>3, <1>4, <2>2
    <2>3. CASE Anchor[n] # a
        <3>1. Anchor[n] \notin {a} \cup {m \in {request.from} : members = {}} \cup members
            BY <1>4, <1>5, <2>1, <2>3
        <3> QED BY <1>1, <1>3, <2>1, <3>1 DEF Touches
    <2> QED BY <2>2, <2>3
<1>10. Whole'
    <2>1. ASSUME request.todo = {s}, NEW n \in {request.from, request.to}, IsSharedNginxConfig(row[n]), Bound(row[n])
          PROVE  <<n, row[n].target>> \in files'["NGINX"][Anchor[n]]
        BY <1>3, <1>4, <1>5, <2>1
    <2>2. s # "write"
        OBVIOUS
    <2> QED BY <1>0, <1>9, <2>1, <2>2, ProceedWhole
<1>11. RootsKnown'
    BY <1>0 DEF RootsKnown
<1> QED BY <1>6, <1>8, <1>10, <1>11, <1>13 DEF Inv

\* The group the domain leaves is reconciled.
LEMMA OldGroupKeeps == Inv /\ ReconcileOldGroup => Inv'
<1> SUFFICES ASSUME Inv, ReconcileOldGroup PROVE Inv'
    OBVIOUS
<1>0. TypeOK /\ Shape /\ files \in FileMap
    BY FilesAre DEF Inv
<1> DEFINE excluded == {n \in {request.from} : request.op = "delete"}
           a == Anchor[request.from]
<1>1. /\ Proceed("oldGroup") /\ UNCHANGED <<row, rooted>> /\ files' = Reconciled(a, excluded)
      /\ Readopt(a) /\ FallbackKnown(a, excluded)
    BY <1>0, OldTarget DEF ReconcileOldGroup, Proceed
<1>2. /\ request.from \in Names /\ request.to \in Names /\ request.old \in Domains \cup {None}
      /\ a \in Names
    BY <1>0, <1>1, GroupStep, RequestIs, AnchorIs DEF TypeOK
<1>3. /\ \A n, t : <<n, t>> \in GroupFile(a, excluded) =>
             n \in GroupMembers(a, excluded) /\ (Bound(row[n]) => t = row[n].target)
      /\ \A n \in GroupMembers(a, excluded) :
             n \notin excluded /\ Proxied(row[n]) /\ RouteOf(n, row[n], "NGINX", a, row[n].target)
    BY <1>0, <1>1, <1>2, GroupIs, MembersAre
<1>4. files'["NGINX"][a] = GroupFile(a, excluded)
    BY <1>0, <1>1, <1>2, ReconciledIs
<1>5. ASSUME NEW n \in {request.from, request.to} \cap GroupMembers(a, excluded)
      PROVE  Saving /\ n = request.to /\ row[n] = request.new
    <2>1. Saving
        BY <1>0, <1>1, <1>3, GroupStep
    <2>2. row[request.to] = request.new /\ (Renamed => row[request.from] = None)
        BY <1>0, <1>1, <2>1, GroupStep
    <2> QED BY <1>3, <2>1, <2>2, NoneIs DEF Renamed
<1>6. ASSUME request.todo = {"oldGroup"}, NEW n \in {request.from, request.to}
      PROVE  ~IsSharedNginxConfig(row[n])
    <2>1. Saving
        BY <1>0, <1>1, <1>6, GroupStep
    <2>2. ~IsSharedNginxConfig(request.new) /\ row[request.to] = request.new /\ (Renamed => row[request.from] = None)
        BY <1>0, <1>1, <1>6, <2>1, GroupStep
    <2> QED BY <2>2, NoneIs DEF Renamed
<1>7. OldGone
    <2> SUFFICES ASSUME NEW p \in Proxies, NEW k \in Names, NEW t \in Targets,
                        <<request.from, t>> \in files'[p][k], ~LeftAfter(request.from, p, k),
                        RouteOf(request.from, request.old, p, k, t)
                 PROVE  request.from = request.to /\ RouteOf(request.to, request.new, p, k, t)
        BY DEF OldGone
    <2>1. p = "NGINX" /\ k = a
        <3>1. CASE request.op = "delete"
            <4>1. request.old.proxy = "NGINX" /\ HasGroupFile(request.from, request.old)
                BY <1>0, <1>1, <3>1, GroupStep
            <4> QED BY <4>1 DEF RouteOf, Home, HasGroupFile
        <3>2. CASE Saving
            <4>1. IsSharedNginxConfig(request.old)
                BY <1>0, <1>1, <3>2, GroupStep
            <4> QED BY <1>2, <4>1, RowIs DEF RouteOf, Home
        <3> QED BY <1>0, <1>1, <3>1, <3>2, GroupStep
    <2>2. <<request.from, t>> \in GroupFile(a, excluded)
        BY <1>4, <2>1
    <2>3. request.from \in GroupMembers(a, excluded) /\ (Bound(row[request.from]) => t = row[request.from].target)
        BY <1>3, <2>2
    <2>4. Saving /\ request.from = request.to /\ row[request.from] = request.new
        BY <1>5, <2>3
    <2>5. Bound(request.new)
        <3>1. Proxied(row[request.from])
            BY <1>3, <2>3
        <3> QED BY <1>0, <2>4, <3>1, RequestIs, InputIs
    <2> QED BY <1>3, <2>1, <2>3, <2>4, <2>5
<1> HIDE DEF excluded
<1>8. excluded \in SUBSET {request.from}
    BY DEF excluded
<1> QED BY <1>1, <1>5, <1>6, <1>7, <1>8, ReconciliationKeeps

\* The group the domain joins is reconciled.
LEMMA NewGroupKeeps == Inv /\ ReconcileNewGroup => Inv'
<1> SUFFICES ASSUME Inv, ReconcileNewGroup PROVE Inv'
    OBVIOUS
<1>0. TypeOK /\ Shape /\ files \in FileMap
    BY FilesAre DEF Inv
<1> DEFINE a == Anchor[request.to]
           members == GroupMembers(a, {})
<1>1. /\ Proceed("newGroup") /\ UNCHANGED <<row, rooted>> /\ files' = Reconciled(a, {})
      /\ Readopt(a) /\ FallbackKnown(a, {})
    BY <1>0, NewTarget DEF ReconcileNewGroup, Proceed
<1>2. /\ Saving /\ IsSharedNginxConfig(request.new) /\ request.new \in Inputs
      /\ request.from \in Names /\ request.to \in Names
      /\ row[request.to] = request.new /\ (Renamed => row[request.from] = None)
    <2>1. Saving /\ IsSharedNginxConfig(request.new)
        BY <1>0, <1>1, LastStep DEF Steps
    <2> QED BY <1>0, <1>1, <2>1, GroupStep
<1>3. a \in Names
    BY <1>2, AnchorIs
<1>4. /\ \A n, t : <<n, t>> \in GroupFile(a, {}) => n \in members /\ (Bound(row[n]) => t = row[n].target)
      /\ \A n \in members : Proxied(row[n]) /\ RouteOf(n, row[n], "NGINX", a, row[n].target)
      /\ request.to \in members /\ Bound(row[request.to])
    <2>1. request.to \in members
        BY <1>0, <1>2, <1>3, MembersAre
    <2>2. Bound(row[request.to])
        BY <1>2, InputIs
    <2> QED BY <1>0, <1>1, <1>3, <2>1, <2>2, GroupIs, MembersAre
<1>5. files'["NGINX"][a] = GroupFile(a, {}) /\ \A k \in members \ {a} : files'["NGINX"][k] = {}
    BY <1>0, <1>1, <1>3, ReconciledIs
<1> HIDE DEF members
<1>6. ASSUME NEW n \in {request.from, request.to}, Proxied(row[n])
      PROVE  n = request.to
    BY <1>2, <1>6, NoneIs DEF Renamed
<1>7. "newGroup" \in Removers => OldGone
    <2> SUFFICES ASSUME "newGroup" \in Removers, NEW p \in Proxies, NEW k \in Names, NEW t \in Targets,
                        <<request.from, t>> \in files'[p][k], ~LeftAfter(request.from, p, k),
                        RouteOf(request.from, request.old, p, k, t)
                 PROVE  request.from = request.to /\ RouteOf(request.to, request.new, p, k, t)
        BY DEF OldGone
    <2>1. ~IsSharedNginxConfig(request.old) /\ ~ShouldCleanupOldProvision(request.old, request.new, Renamed)
        <3>1. request.op # "delete"
            BY <1>2 DEF Saving
        <3> QED BY <3>1 DEF Removers
    <2>2. request.from = request.to /\ request.old.proxy = request.new.proxy
        BY <2>1 DEF RouteOf, ShouldCleanupOldProvision, Renamed
    <2>3. p = "NGINX" /\ k = request.from
        BY <1>2, <2>1, <2>2, InputIs DEF RouteOf, Home
    <2>4. CASE k = a
        <3>1. <<request.to, t>> \in GroupFile(a, {})
            BY <1>5, <2>2, <2>3, <2>4
        <3>2. t = row[request.to].target /\ RouteOf(request.to, row[request.to], "NGINX", a, row[request.to].target)
            BY <1>4, <3>1
        <3> QED BY <1>2, <2>2, <2>3, <2>4, <3>2
    <2>5. CASE k # a
        BY <1>4, <1>5, <2>2, <2>3, <2>5
    <2> QED BY <2>4, <2>5
<1>8. /\ members = {} => a = Anchor[request.from]
      /\ \A n \in {request.from, request.to} \cap members : n = request.to /\ row[n] = request.new
      /\ \A n \in {request.from, request.to} : IsSharedNginxConfig(row[n]) => n \in members
    <2>1. ASSUME NEW n \in {request.from, request.to}, IsSharedNginxConfig(row[n])
          PROVE  n \in members
        BY <1>4, <1>6, <2>1 DEF IsSharedNginxConfig
    <2> QED BY <1>2, <1>4, <1>6, <2>1
<1> QED BY <1>1, <1>7, <1>8, ReconciliationKeeps DEF members

-----------------------------------------------------------------------------
(* The theorems *)

\* No domain, no file.
LEMMA InitInv == Init => Inv
<1> SUFFICES ASSUME Init PROVE Inv
    OBVIOUS
<1>1. /\ request = NoRequest /\ disturbed = {} /\ rooted = {} /\ orphaned = {} /\ faults = 0
      /\ row \in Rows /\ \A n \in Names : row[n] = None
      /\ files \in FileMap /\ \A p \in Proxies, k \in Names : files[p][k] = {}
    BY DEF Init, Rows, FileMap, Contents
<1>2. request.op = None /\ request.todo = {} /\ Idle
    BY <1>1 DEF NoRequest, Idle
<1>3. TypeOK
    <2>1. request \in [op : Ops \cup {None}, from : Names \cup {None}, to : Names \cup {None},
                       old : Domains \cup {None}, new : Inputs \cup {None}, todo : SUBSET Steps]
        BY <1>1 DEF NoRequest
    <2> QED BY <1>1, <2>1, DomainAssumption DEF TypeOK, Rows, FileMap, Contents
<1>4. Shape
    BY <1>2, NoneAssumption DEF Shape, Saving, Ops
<1>5. Routes
    BY <1>1 DEF Routes
<1>6. RootsKnown /\ Whole /\ AdriftKnown
    BY <1>1, NoneIs DEF RootsKnown, Whole, AdriftKnown, Adrift
<1> QED BY <1>3, <1>4, <1>5, <1>6 DEF Inv

\* A request begins.
LEMMA BeginKeeps ==
    ASSUME Inv,
           \/ \E n \in Names, new \in Inputs : BeginCreate(n, new)
           \/ \E n, m \in Names, new \in Inputs : BeginUpdate(n, m, new)
           \/ \E n \in Names : BeginDelete(n)
    PROVE  Inv'
<1>1. ASSUME NEW n \in Names, NEW new \in Inputs, BeginCreate(n, new) PROVE Inv'
    <2>1. row[n] = None /\ Begin("create", n, n, new, SaveSteps(row[n], new, FALSE))
        BY <1>1 DEF BeginCreate
    <2>2. (n # n) = FALSE
        OBVIOUS
    <2>3. Begin("create", n, n, new, SaveSteps(row[n], new, n # n))
        BY <2>1, <2>2
    <2> QED BY <2>1, <2>3, BeginSave
<1>2. ASSUME NEW n \in Names, NEW m \in Names, NEW new \in Inputs, BeginUpdate(n, m, new) PROVE Inv'
    BY <1>2, BeginSave DEF BeginUpdate
<1>3. ASSUME NEW n \in Names, BeginDelete(n) PROVE Inv'
    BY <1>3, BeginDeletion
<1> QED BY <1>1, <1>2, <1>3

\* A stutter.
LEMMA StutterKeeps == Inv /\ UNCHANGED vars => Inv'
<1> SUFFICES ASSUME Inv, UNCHANGED vars PROVE Inv'
    OBVIOUS
<1>1. UNCHANGED <<row, files, request, faults, disturbed, rooted, orphaned>>
    BY DEF vars
<1>2. TypeOK' /\ RootsKnown' /\ Whole' /\ AdriftKnown'
    BY <1>1 DEF Inv, TypeOK, RootsKnown, Whole, AdriftKnown, Rooting
<1>3. Routes'
    BY <1>1 DEF Inv, Routes, Removers, Renamed, Left
<1>4. Shape'
    <2>1. \A n : NoneBound(n)' <=> NoneBound(n)
        BY <1>1 DEF NoneBound, GroupMembers
    <2> QED BY <1>1, <2>1 DEF Inv, Shape, Idle, Saving, Renamed
<1> QED BY <1>2, <1>3, <1>4 DEF Inv

\* The container of some domains is deleted: their rows keep all but the container, and the
\* members of groups among them are known from then on.
LEMMA ContainerDeletionKeeps == ASSUME Inv, NEW c \in {t.container : t \in Targets}, DeleteContainer(c) PROVE Inv'
<1> DEFINE targeting == {n \in Names : Proxied(row[n]) /\ row[n].target.container = c}
<1>0. TypeOK /\ Shape /\ Routes /\ Whole /\ RootsKnown /\ AdriftKnown /\ c # None
    BY NoneAssumption DEF Inv
<1>1. /\ Idle /\ Fault /\ UNCHANGED <<files, request, disturbed, rooted>>
      /\ row' = [n \in Names |-> IF n \in targeting THEN SetNull(row[n]) ELSE row[n]]
      /\ orphaned' = orphaned \cup {n \in targeting : n \in GroupMembers(Anchor[n], {})}
    BY DEF DeleteContainer
<1>2. ASSUME NEW n \in targeting
      PROVE  /\ n \in Names /\ Proxied(row[n]) /\ row[n] \in Inputs /\ row[n].target \in Targets
             /\ row'[n] = SetNull(row[n])
    <2>1. n \in Names /\ Proxied(row[n]) /\ row[n].target.container = c /\ row[n] \in Domains \cup {None}
        BY <1>0 DEF TypeOK
    <2>2. Bound(row[n])
        BY <1>0, <2>1 DEF Bound
    <2>3. row[n] \in Inputs
        BY <2>1, <2>2, NoneIs, SetNullIs DEF Domains
    <2> QED BY <1>1, <2>1, <2>3, InputIs
<1>3. \A n \in Names : n \notin targeting => row'[n] = row[n]
    BY <1>1
<1> HIDE DEF targeting
<1>4. TypeOK'
    <2>1. row' \in [Names -> Domains \cup {None}]
        <3>1. \A n \in Names : row'[n] \in Domains \cup {None}
            BY <1>0, <1>2, <1>3 DEF TypeOK, Domains
        <3> QED BY <1>1, <3>1
    <2>2. \A n \in Foreign : row'[n] = None
        BY <1>0, <1>2, <1>3, NoneIs, DomainAssumption DEF TypeOK
    <2>3. faults' \in 0..MaxFaults
        BY <1>0, <1>1, DomainAssumption DEF TypeOK, Fault
    <2>4. orphaned' \subseteq Names
        BY <1>0, <1>1, <1>2 DEF TypeOK
    <2> QED BY <1>0, <1>1, <2>1, <2>2, <2>3, <2>4 DEF TypeOK
<1>5. request.op = None /\ {request.from, request.to} \cap Names = {} /\ request.todo = {}
    BY <1>0, <1>1, RequestIs
<1>6. Shape'
    BY <1>1, <1>5, NoneAssumption DEF Shape, Saving, Ops, Idle
<1>7. ASSUME NEW n \in targeting
      PROVE  /\ Proxied(row'[n]) /\ ~Bound(row'[n]) /\ row'[n].proxy = row[n].proxy /\ row'[n].mode = row[n].mode
             /\ IsSharedNginxConfig(row'[n]) <=> IsSharedNginxConfig(row[n])
             /\ Isolates(row'[n]) => Isolates(row[n])
             /\ \A t \in Targets : row[n].target = t => Says(row'[n].target, t)
    <2>1. /\ Proxied(row'[n]) /\ ~Bound(row'[n]) /\ row'[n].proxy = row[n].proxy /\ row'[n].mode = row[n].mode
          /\ row'[n].target = [container |-> None, port |-> row[n].target.port] /\ Proxied(row[n])
        BY <1>2, SetNullIs
    <2>2. IsSharedNginxConfig(row'[n]) <=> IsSharedNginxConfig(row[n])
        BY <2>1 DEF IsSharedNginxConfig
    <2>3. Isolates(row'[n]) => Isolates(row[n])
        BY <2>1 DEF Isolates
    <2> QED BY <2>1, <2>2, <2>3 DEF Says
<1>8. Routes'
    <2> SUFFICES ASSUME NEW n \in Names \ disturbed, NEW p \in Proxies, NEW k \in Names, NEW t \in Targets,
                        <<n, t>> \in files[p][k], ~LeftAfter(n, p, k)
                 PROVE  RouteOf(n, row'[n], p, k, t)
        BY <1>1, <1>5 DEF Routes, Left, LeftAfter
    <2>1. RouteOf(n, row[n], p, k, t)
        BY <1>0, <1>1, <1>5 DEF Routes, Left, LeftAfter
    <2>2. CASE n \in targeting
        <3>1. row[n].target.container # None
            BY <1>2, <2>2, NoneAssumption
        <3>2. row[n].target = t
            BY <2>1, <3>1 DEF RouteOf, Says
        <3> QED BY <1>7, <2>1, <2>2, <3>2 DEF RouteOf, Home
    <2> QED BY <1>3, <2>1, <2>2
<1>9. RootsKnown'
    BY <1>0, <1>1, <1>3, <1>7 DEF RootsKnown
<1>10. Whole'
    <2> SUFFICES ASSUME NEW n \in Names, IsSharedNginxConfig(row'[n]), Bound(row'[n]), Anchor[n] \notin rooted,
                        \A m \in disturbed : Anchor[m] # Anchor[n]
                 PROVE  <<n, row'[n].target>> \in files["NGINX"][Anchor[n]]
        BY <1>1 DEF Whole
    <2>1. row'[n] = row[n]
        BY <1>3, <1>7
    <2>2. ~Rooting(Anchor[n])
        BY <1>5 DEF Rooting
    <2> QED BY <1>0, <1>5, <2>1, <2>2 DEF Whole
<1>11. AdriftKnown'
    <2> SUFFICES ASSUME NEW n \in Names, Adrift(n, row'[n]) PROVE n \in orphaned'
        BY DEF AdriftKnown
    <2>1. CASE n \in targeting
        <3>1. n \in GroupMembers(Anchor[n], {})
            BY <1>2, <1>7, <2>1 DEF Adrift, GroupMembers
        <3> QED BY <1>1, <2>1, <3>1
    <2>2. CASE n \notin targeting
        BY <1>0, <1>1, <1>3, <2>2 DEF AdriftKnown
    <2> QED BY <2>1, <2>2
<1> QED BY <1>4, <1>6, <1>8, <1>9, <1>10, <1>11 DEF Inv

\* Every step of a handler, every failure and every restart keeps the invariant.
LEMMA InvInductive == Inv /\ [Next]_vars => Inv'
<1> SUFFICES ASSUME Inv, [Next]_vars PROVE Inv'
    OBVIOUS
<1>1. CASE \/ \E n \in Names, new \in Inputs : BeginCreate(n, new)
           \/ \E n, m \in Names, new \in Inputs : BeginUpdate(n, m, new)
           \/ \E n \in Names : BeginDelete(n)
    BY <1>1, BeginKeeps
<1>2. CASE ProvisionProxyForDomain
    BY <1>2, ProvisioningKeeps
<1>3. CASE ProvisionProxyFails
    BY <1>3, ProvisionFailureKeeps
<1>4. CASE RemoveManagedDomainProxyConfig
    BY <1>4, CleanupKeeps
<1>5. CASE RemoveProxyFails
    BY <1>5, RemovalFailureKeeps
<1>6. CASE WriteRow
    BY <1>6, WriteKeeps
<1>7. CASE NameTaken \/ Restart
    BY <1>7, RestartKeeps
<1>8. CASE ReconcileOldGroup
    BY <1>8, OldGroupKeeps
<1>9. CASE ReconcileNewGroup
    BY <1>9, NewGroupKeeps
<1>10. CASE ReconcileOldGroupFails \/ ReconcileNewGroupFails
    BY <1>10, ReconciliationFailureKeeps
<1>11. CASE EraseRow
    BY <1>11, ErasureKeeps
<1>12. CASE UNCHANGED vars
    BY <1>12, StutterKeeps
<1>13. CASE \E t \in Targets : DeleteContainer(t.container)
    BY <1>13, ContainerDeletionKeeps
<1> QED BY <1>1, <1>2, <1>3, <1>4, <1>5, <1>6, <1>7, <1>8, <1>9, <1>10, <1>11, <1>12, <1>13 DEF Next

\* The invariant in every behaviour.
LEMMA AlwaysInv == Spec => []Inv
<1>1. Init => Inv
    BY InitInv
<1>2. Inv /\ [Next]_vars => Inv'
    BY InvInductive
<1> QED BY <1>1, <1>2, PTL DEF Spec

\* Rows, files and requests are of their types throughout, and no row has a name that another
\* organization has registered: the unique index on the name stops the write.
THEOREM DomainsTypeCorrect == Spec => []TypeOK
<1>1. Inv => TypeOK
    BY DEF Inv
<1> QED BY <1>1, AlwaysInv, PTL

\* A route that is served is in some file.
LEMMA ServedIs ==
    ASSUME NEW n, NEW s \in Served(n)
    PROVE  \E p \in Proxies, k \in Names, t \in Targets : s = <<p, k, t>> /\ <<n, t>> \in files[p][k]
BY DEF Served

\* Whatever creates, updates, renames and deletions there have been, with failures, restarts and
\* deletions of containers among them: between requests a proxy serves a name only as its row
\* says, if the requests about that name completed; but a group's file may have any route of a
\* member that was without its container when the file was last written, or has lost it since.
THEOREM OnlyRecordedServed == Spec => []ServesOnlyRecorded
<1>1. Inv => ServesOnlyRecorded
    <2> SUFFICES ASSUME Inv, Idle, NEW n \in Names \ disturbed, NEW s \in Served(n)
                 PROVE  Orphan(n, s) \/ (Proxied(row[n]) /\ row[n].proxy = s[1] /\ Says(row[n].target, s[3]))
        BY DEF ServesOnlyRecorded
    <2>1. n \notin {request.from, request.to}
        BY RequestIs DEF Inv
    <2>2. PICK p \in Proxies, k \in Names, t \in Targets : s = <<p, k, t>> /\ <<n, t>> \in files[p][k]
        BY ServedIs
    <2>3. Left(n, p, k) \/ RouteOf(n, row[n], p, k, t)
        BY <2>1, <2>2 DEF Inv, Routes
    <2> QED BY <2>2, <2>3 DEF RouteOf, Left, Orphan
<1> QED BY <1>1, AlwaysInv, PTL

\* And it is served from one file of one proxy: its group's or its own, never both, with the
\* same exception.
THEOREM NamesAreServedOnce == Spec => []ServedOnce
<1>1. Inv => ServedOnce
    <2> SUFFICES ASSUME Inv, Idle, NEW n \in Names \ disturbed, NEW s \in Served(n), NEW r \in Served(n)
                 PROVE  Orphan(n, s) \/ Orphan(n, r) \/ (s[1] = r[1] /\ s[2] = r[2])
        BY DEF ServedOnce
    <2>1. n \notin {request.from, request.to}
        BY RequestIs DEF Inv
    <2>2. PICK p \in Proxies, k \in Names, t \in Targets : s = <<p, k, t>> /\ <<n, t>> \in files[p][k]
        BY ServedIs
    <2>3. PICK q \in Proxies, j \in Names, u \in Targets : r = <<q, j, u>> /\ <<n, u>> \in files[q][j]
        BY ServedIs
    <2>4. /\ Left(n, p, k) \/ RouteOf(n, row[n], p, k, t)
          /\ Left(n, q, j) \/ RouteOf(n, row[n], q, j, u)
        BY <2>1, <2>2, <2>3 DEF Inv, Routes
    <2> QED BY <2>2, <2>3, <2>4 DEF RouteOf, Left, Orphan
<1> QED BY <1>1, AlwaysInv, PTL

\* The members of a group that have a target keep their routes when other members come, go,
\* change and lose their containers, as long as no request about a member failed and no isolated domain has had the name of the group's
\* file (reconcileSharedNginxGroup, services/domain-provisioning).
THEOREM GroupsAreServed == Spec => []GroupServed
<1>1. Inv => GroupServed
    <2> SUFFICES ASSUME Inv, Idle, NEW n \in Names, IsSharedNginxConfig(row[n]), Anchor[n] \notin rooted,
                        Bound(row[n]), \A m \in disturbed : Anchor[m] # Anchor[n]
                 PROVE  <<n, row[n].target>> \in files["NGINX"][Anchor[n]]
        BY DEF GroupServed
    <2>1. n \notin {request.from, request.to} /\ request.todo = {}
        BY RequestIs DEF Inv
    <2>2. ~Rooting(Anchor[n])
        BY <2>1 DEF Rooting
    <2> QED BY <2>1, <2>2 DEF Inv, Whole
<1> QED BY <1>1, AlwaysInv, PTL

\* The files a step changes: those of the names in work, those of groups and those that are
\* left over of members.
TouchesFew ==
    \A p \in Proxies, k \in Names : files'[p][k] # files[p][k] =>
        k \in {request.from, request.to} \/ (p = "NGINX" /\ (k = Anchor[k] \/ IsSharedNginxConfig(row[k])))

\* A reconciliation, complete or not, touches the files of one group.
LEMMA ReconciliationTouchesFew ==
    ASSUME TypeOK, Shape, ~Idle, NEW x \in {request.from, request.to}, NEW excluded,
           FallbackKnown(Anchor[x], excluded),
           \/ files' = Reconciled(Anchor[x], excluded)
           \/ files' \in FailedReconciliation(Anchor[x], excluded)
    PROVE  TouchesFew
<1>1. Anchor[x] \in Names /\ Anchor[Anchor[x]] = Anchor[x] /\ files \in FileMap
    BY RequestIs, AnchorIs, FilesAre
<1>2. Touches(files', "NGINX", {Anchor[x], request.from} \cup GroupMembers(Anchor[x], excluded), Anchor[x],
              GroupFile(Anchor[x], excluded))
    <2>1. CASE files' = Reconciled(Anchor[x], excluded)
        <3>1. Touches(files', "NGINX", {Anchor[x]} \cup {n \in {request.from} : GroupMembers(Anchor[x], excluded) = {}}
                                           \cup GroupMembers(Anchor[x], excluded), Anchor[x],
                      GroupFile(Anchor[x], excluded))
            BY <1>1, <2>1, ReconciledIs
        <3> QED BY <3>1 DEF Touches
    <2>2. CASE files' \in FailedReconciliation(Anchor[x], excluded)
        BY <1>1, <2>2, FailedReconciliationIs
    <2> QED BY <2>1, <2>2
<1>3. \A n \in GroupMembers(Anchor[x], excluded) : IsSharedNginxConfig(row[n]) \/ n = Anchor[x]
    BY <1>1, MembersAre
<1> QED BY <1>1, <1>2, <1>3 DEF Touches, TouchesFew

\* Every step touches the files of the names in work and of shared groups only.
LEMMA StepTouchesFew == Inv /\ [Next]_vars => TouchesFew
<1> SUFFICES ASSUME Inv, [Next]_vars PROVE TouchesFew
    OBVIOUS
<1>0. TypeOK /\ Shape /\ files \in FileMap
    BY FilesAre DEF Inv
<1>1. CASE UNCHANGED files
    BY <1>1 DEF TouchesFew
<1>2. CASE ProvisionProxyForDomain \/ ProvisionProxyFails
    <2>1. At("provision")
        BY <1>2 DEF ProvisionProxyForDomain, ProvisionProxyFails, Proceed
    <2>2. request.new.proxy \in Proxies /\ {<<request.to, request.new.target>>} \in Contents
        BY <1>0, <2>1, ProvisionIs
    <2>3. Touches(files', request.new.proxy, {request.to} \cup {}, request.to, {<<request.to, request.new.target>>})
        <3>1. CASE ProvisionProxyForDomain
            BY <1>0, <2>2, <3>1, WrittenTouches DEF ProvisionProxyForDomain
        <3>2. CASE ProvisionProxyFails
            BY <1>0, <2>2, <3>2, FailedProvisioningIs DEF ProvisionProxyFails
        <3> QED BY <1>2, <3>1, <3>2
    <2> QED BY <2>3 DEF Touches, TouchesFew
<1>3. CASE RemoveManagedDomainProxyConfig
    <2>1. request.old.proxy \in Proxies
        BY <1>0, <1>3, CleanupIs DEF RemoveManagedDomainProxyConfig, Proceed
    <2>2. files' = Without(files, request.old.proxy, {request.from})
        BY <1>3 DEF RemoveManagedDomainProxyConfig
    <2>3. \A p \in Proxies, k \in Names :
              files'[p][k] = IF p = request.old.proxy /\ k \in {request.from} THEN {} ELSE files[p][k]
        BY <1>0, <2>1, <2>2, WithoutIs
    <2> QED BY <2>3 DEF TouchesFew
<1>4. CASE RemoveProxyFails
    BY <1>4, RemovalFailureFiles DEF TouchesFew
<1>5. CASE ReconcileOldGroup \/ ReconcileOldGroupFails \/ ReconcileNewGroup \/ ReconcileNewGroupFails
    <2>1. request.todo # {}
        BY <1>5 DEF ReconcileOldGroup, ReconcileOldGroupFails, ReconcileNewGroup, ReconcileNewGroupFails, Proceed, At
    <2>2. ~Idle
        BY <1>0, <2>1, RequestIs
    <2>3. PICK x \in {request.from, request.to}, excluded \in SUBSET {request.from} :
               /\ FallbackKnown(Anchor[x], excluded)
               /\ \/ files' = Reconciled(Anchor[x], excluded)
                  \/ files' \in FailedReconciliation(Anchor[x], excluded)
        <3>1. CASE ReconcileOldGroup \/ ReconcileOldGroupFails
            BY <1>0, <3>1, OldTarget DEF ReconcileOldGroup, ReconcileOldGroupFails, Proceed
        <3>2. CASE ReconcileNewGroup \/ ReconcileNewGroupFails
            BY <1>0, <3>2, NewTarget DEF ReconcileNewGroup, ReconcileNewGroupFails, Proceed
        <3> QED BY <1>5, <3>1, <3>2
    <2> QED BY <1>0, <2>2, <2>3, ReconciliationTouchesFew
<1>6. Next => \/ UNCHANGED files
              \/ ProvisionProxyForDomain \/ ProvisionProxyFails \/ RemoveManagedDomainProxyConfig \/ RemoveProxyFails
              \/ ReconcileOldGroup \/ ReconcileOldGroupFails \/ ReconcileNewGroup \/ ReconcileNewGroupFails
    BY DEF Next, BeginCreate, BeginUpdate, BeginDelete, Begin, WriteRow, NameTaken, EraseRow, Restart, DeleteContainer
<1> QED BY <1>1, <1>2, <1>3, <1>4, <1>5, <1>6 DEF vars

\* No step of a request, done or failed, touches the file of another domain that has one of
\* its own, unless that is a group's file: a reconciliation drops the files of group members
\* only, a cleanup and a rollback those of the request's own names.
THEOREM OthersAreUndisturbed == Spec => OthersUndisturbed
<1> DEFINE Kept ==
        \A n \in Names \ {request.from, request.to} :
            /\ Proxied(row[n]) /\ ~IsSharedNginxConfig(row[n])
            /\ row[n].proxy # "NGINX" \/ n # Anchor[n]
            => files'[row[n].proxy][n] = files[row[n].proxy][n]
<1>1. Inv /\ [Next]_vars => Kept
    <2> SUFFICES ASSUME Inv, [Next]_vars, NEW n \in Names \ {request.from, request.to},
                        Proxied(row[n]), ~IsSharedNginxConfig(row[n]), row[n].proxy # "NGINX" \/ n # Anchor[n]
                 PROVE  files'[row[n].proxy][n] = files[row[n].proxy][n]
        OBVIOUS
    <2>1. TouchesFew
        BY StepTouchesFew
    <2>2. row[n] \in Domains \cup {None}
        BY DEF Inv, TypeOK
    <2>3. row[n].proxy \in Proxies
        BY <2>2, RowIs
    <2> QED BY <2>1, <2>3 DEF TouchesFew
<1>2. Inv /\ [Next]_vars => [Kept]_vars
    BY <1>1
<1> QED BY <1>2, AlwaysInv, PTL DEF Spec, OthersUndisturbed
=============================================================================
