------------------------- MODULE ResidentSnapshots -------------------------
(***************************************************************************)
(* One process that runs workflows against snapshots on disk, or sends     *)
(* them to a coordinator (api.run_workflow, api.invoke_workflow,           *)
(* api.resident, boot.boot).  A snapshot is booted once and kept, under a  *)
(* key made of its manifest's file status and of what acceptance is judged *)
(* against; threads that ask at the same time take turns at a lock.  A     *)
(* snapshot may be rebuilt in place meanwhile, file by file and in any     *)
(* order.  A manifest is overwritten, never absent, which changes its file *)
(* status.                                                                 *)
(*                                                                         *)
(* A domain has a table (dispatch, handlers) and a record of its hash      *)
(* (metadata, attestation); its vocabulary, read after both, is left out.  *)
(* What a version seals for a domain stands for its table and its hash;    *)
(* versions may share a domain.  The canonical records, of which two are   *)
(* read beside the boot (the placement of execution, once for the life of  *)
(* the process, and the classification of evidence, for every run), are    *)
(* one file, which no two versions share.                                  *)
(***************************************************************************)
EXTENDS Naturals, Sequences

CONSTANTS
    Threads, Roots, Versions, Domains,
    Seal,        \* what each version seals for each domain
    Signed,      \* the versions whose signature the trust anchor verifies
    Federated,   \* the versions that place execution on FEDERATED_NODE
    None,
    Limit,       \* api._RESIDENT_LIMIT
    MaxRebuilds  \* bound on rebuilds in place

Tables == {Seal[v][d] : v \in Versions, d \in Domains}

ASSUME ResidentAssumption ==
    /\ Seal \in [Versions -> [Domains -> Tables]]
    /\ Signed \subseteq Versions
    /\ Federated \subseteq Versions
    /\ Limit \in Nat \ {0}
    /\ MaxRebuilds \in Nat
    /\ None \notin Versions \cup Tables \cup Threads
    /\ "canonical" \notin Domains

VARIABLES
    manifest,  \* manifest.json of each root: the version it names, its file status
    table,     \* the tables of each root
    recorded,  \* the hashes recorded of them
    canonical, \* the version whose canonical records are there
    pending,   \* the files a rebuild in progress has still to write
    target,    \* the version it writes
    rebuilds,  \* how many rebuilds there were
    anchor,    \* whether the environment names a trust anchor
    resident,  \* _RESIDENT, the oldest first
    lock,      \* _RESIDENT_LOCK
    placement, \* _placement of each root, once it was asked
    pc, key,   \* where each thread stands, and the key it asks for
    via,       \* what it does: run_workflow, or invoke_workflow once placed
    boot,      \* what a boot in progress has read
    current,   \* history: the versions its manifest named since a call began
    given,     \* what resident returned to a thread, if it did
    header,    \* the version whose classification is in the header of its trace
    moved      \* history: whether a root was written to since its placement was read

disk == <<manifest, table, recorded, canonical, pending, target, rebuilds>>
placed == <<placement, moved>>
act == <<via, header>>
call == <<pc, key, boot, given>>
vars == <<disk, anchor, resident, lock, call, current, placed, act>>

Keys == [root : Roots, stamp : Nat, anchor : {"none", "held"}]
Loaded == [Domains -> Tables \cup {None}]
\* When its root was written to: during the boot, or since then (history).
Snapshots == [id : Versions, tables : Loaded, disturbed : {"no", "since", "during"}]
Constituents == Domains \cup {"canonical"}
Boots == [version : Versions,            \* the version named by the manifest it boots through
          claimed : Versions,            \* by the one acceptance read
          todo : SUBSET Constituents,    \* what is still to be verified, or to be loaded
          loaded : Loaded,
          disturbed : {"no", "during"}]  \* history: a file was written meanwhile
\* What is not there is told from everything that may be.
ASSUME RecordAssumption == None \notin Boots \cup Snapshots

Files == {<<"manifest">>, <<"canonical">>} \cup ({"table", "recorded"} \X Domains)

TypeOK ==
    /\ manifest \in [Roots -> [version : Versions, stamp : Nat]]
    /\ table \in [Roots -> [Domains -> Tables]]
    /\ recorded \in [Roots -> [Domains -> Tables]]
    /\ canonical \in [Roots -> Versions]
    /\ pending \in [Roots -> SUBSET Files]
    /\ target \in [Roots -> Versions]
    /\ rebuilds \in 0..MaxRebuilds
    /\ anchor \in {"none", "held"}
    /\ resident \in Seq([key : Keys, snapshot : Snapshots])
    /\ lock \in Threads \cup {None}
    /\ placement \in [Roots -> {"unread", "here", "away"}]
    /\ moved \in [Roots -> BOOLEAN]
    /\ pc \in [Threads -> {"idle", "placed", "keyed", "locked", "accept", "verify", "load",
                           "given", "acting"}]
    /\ via \in [Threads -> {"run", "here", "away"}]
    /\ header \in [Threads -> Versions \cup {None}]
    /\ key \in [Threads -> Keys]
    /\ boot \in [Threads -> Boots \cup {None}]
    /\ current \in [Threads -> SUBSET Versions]
    /\ given \in [Threads -> Snapshots \cup {None}]

Init ==
    /\ target \in [Roots -> Versions]
    /\ manifest = [r \in Roots |-> [version |-> target[r], stamp |-> 0]]
    /\ table = [r \in Roots |-> Seal[target[r]]]
    /\ recorded = table
    /\ canonical = target
    /\ pending = [r \in Roots |-> {}]
    /\ rebuilds = 0
    /\ anchor \in {"none", "held"}
    /\ resident = <<>>
    /\ lock = None
    /\ placement = [r \in Roots |-> "unread"]
    /\ moved = [r \in Roots |-> FALSE]
    /\ via = [t \in Threads |-> "run"]
    /\ header = [t \in Threads |-> None]
    /\ pc = [t \in Threads |-> "idle"]
    /\ key \in [Threads -> {[root |-> r, stamp |-> 0, anchor |-> "none"] : r \in Roots}]
    /\ boot = [t \in Threads |-> None]
    /\ current = [t \in Threads |-> {}]
    /\ given = [t \in Threads |-> None]

-----------------------------------------------------------------------------
(***************************************************************************)
(* invoke_workflow, which runs here or submits, and run_workflow.          *)
(***************************************************************************)
\* The placement of a root is read from its canonical records when it is first
\* asked, and is not asked of them again.  A record that is being written may
\* be passed over, which leaves no placement, and that is here.  (The cache has
\* room for eight roots.)
Place(t, r, mode) ==
    /\ pc[t] = "idle"
    /\ pc' = [pc EXCEPT ![t] = "placed"]
    /\ placement' = [placement EXCEPT ![r] = mode]
    /\ via' = [via EXCEPT ![t] = mode]
    /\ key' = [key EXCEPT ![t] = [root |-> r, stamp |-> 0, anchor |-> "none"]]
    /\ UNCHANGED <<disk, anchor, resident, lock, boot, current, given, header>>

ReadPlacement(t) ==
    \E r \in Roots :
        /\ placement[r] = "unread"
        /\ Place(t, r, IF canonical[r] \in Federated THEN "away" ELSE "here")
        /\ UNCHANGED moved

PassOverPlacement(t) ==
    \E r \in Roots :
        /\ placement[r] = "unread"
        /\ <<"canonical">> \in pending[r]
        /\ Place(t, r, "here")
        /\ moved' = [moved EXCEPT ![r] = TRUE]

KnowPlacement(t) ==
    \E r \in Roots :
        /\ placement[r] # "unread"
        /\ Place(t, r, placement[r])
        /\ UNCHANGED moved

\* Back to the caller, or ready to be called again.
Over(t) ==
    /\ pc' = [pc EXCEPT ![t] = "idle"]
    /\ key' = [key EXCEPT ![t] = [root |-> @.root, stamp |-> 0, anchor |-> "none"]]
    /\ via' = [via EXCEPT ![t] = "run"]
    /\ given' = [given EXCEPT ![t] = None]
    /\ header' = [header EXCEPT ![t] = None]
    /\ current' = [current EXCEPT ![t] = {}]
    /\ UNCHANGED <<disk, anchor, placed>>

Ends(t) == Over(t) /\ UNCHANGED <<resident, lock, boot>>

\* PGC_COORDINATOR_URL is not set.
NoCoordinator(t) == pc[t] = "placed" /\ via[t] = "away" /\ Ends(t)

\* A run opens its trace, with the classification of the records that are at
\* the root now as its first line; they may not be readable.
OpenTrace(t) ==
    /\ pc[t] = "given"
    /\ via[t] # "away"
    /\ pc' = [pc EXCEPT ![t] = "acting"]
    /\ header' = [header EXCEPT ![t] = canonical[key[t].root]]
    /\ UNCHANGED <<disk, anchor, resident, lock, key, boot, given, current, placed, via>>

NoClassification(t) ==
    /\ pc[t] = "given"
    /\ via[t] # "away"
    /\ <<"canonical">> \in pending[key[t].root]
    /\ Ends(t)

Submit(t) ==
    /\ pc[t] = "given"
    /\ via[t] = "away"
    /\ pc' = [pc EXCEPT ![t] = "acting"]
    /\ UNCHANGED <<disk, anchor, resident, lock, key, boot, given, current, placed, act>>

Return(t) == pc[t] = "acting" /\ Ends(t)

-----------------------------------------------------------------------------
(***************************************************************************)
(* resident.                                                               *)
(***************************************************************************)
\* The key: the root, the status of its manifest, and the environment.
Ask(t, k) ==
    /\ pc[t] = "idle" \/ (pc[t] = "placed" /\ key[t].root = k.root)
    /\ key' = [key EXCEPT ![t] = k]
    /\ pc' = [pc EXCEPT ![t] = "keyed"]
    /\ current' = [current EXCEPT ![t] = {manifest[k.root].version}]
    /\ UNCHANGED <<disk, anchor, resident, lock, boot, given, placed, act>>

\* Variant: a snapshot is known by its path.
StatPath(t) == \E r \in Roots : Ask(t, [root |-> r, stamp |-> 0, anchor |-> anchor])

\* Variant: what acceptance is judged against is not part of the key.
StatManifest(t) ==
    \E r \in Roots : Ask(t, [root |-> r, stamp |-> manifest[r].stamp, anchor |-> "none"])

Stat(t) ==
    \E r \in Roots : Ask(t, [root |-> r, stamp |-> manifest[r].stamp, anchor |-> anchor])

Acquire(t) ==
    /\ pc[t] = "keyed"
    /\ lock = None
    /\ lock' = t
    /\ pc' = [pc EXCEPT ![t] = "locked"]
    /\ UNCHANGED <<disk, anchor, resident, key, boot, current, given, placed, act>>

\* The call of resident returns, and gives the lock back.
Give(t, snapshot) ==
    /\ lock' = None
    /\ pc' = [pc EXCEPT ![t] = "given"]
    /\ boot' = [boot EXCEPT ![t] = None]
    /\ given' = [given EXCEPT ![t] = snapshot]
    /\ UNCHANGED <<disk, anchor, key, current, placed, act>>

Holds(k) == \E i \in DOMAIN resident : resident[i].key = k

Hit(t) ==
    /\ pc[t] = "locked"
    /\ \E i \in DOMAIN resident :
          resident[i].key = key[t] /\ Give(t, resident[i].snapshot)
    /\ UNCHANGED resident

BootBegun(t, todo) ==
    /\ pc[t] = "locked"
    /\ pc' = [pc EXCEPT ![t] = "accept"]
    /\ boot' = [boot EXCEPT ![t] =
            [version |-> manifest[key[t].root].version, claimed |-> manifest[key[t].root].version,
             todo |-> todo, loaded |-> [d \in Domains |-> None], disturbed |-> "no"]]
    /\ UNCHANGED <<disk, anchor, resident, lock, key, current, given, placed, act>>

\* Variant: the store of booted snapshots was consulted before the lock was had.
MissBefore(t) == BootBegun(t, Constituents)

\* boot begins by reading the manifest.
Miss(t) == ~Holds(key[t]) /\ BootBegun(t, Constituents)

\* What was booted is kept under the key, in the place of the oldest if there
\* are too many, and returned.
Keep(t) ==
    /\ pc[t] = "load"
    /\ boot[t].todo = {}
    /\ LET snapshot == [id |-> boot[t].version, tables |-> boot[t].loaded,
                        disturbed |-> boot[t].disturbed]
           kept == IF Len(resident) >= Limit THEN Tail(resident) ELSE resident
       IN  /\ resident' = Append(kept, [key |-> key[t], snapshot |-> snapshot])
           /\ Give(t, snapshot)

-----------------------------------------------------------------------------
(***************************************************************************)
(* boot.                                                                   *)
(***************************************************************************)
Goes(t, place, what) ==
    /\ pc' = [pc EXCEPT ![t] = place]
    /\ boot' = [boot EXCEPT ![t] = what]
    /\ UNCHANGED <<disk, anchor, resident, lock, key, current, given, placed, act>>

\* verify_snapshot reads the manifest itself,
Accept(t) ==
    /\ pc[t] = "accept"
    /\ Goes(t, "verify", [boot[t] EXCEPT !.claimed = manifest[key[t].root].version])

\* Variant: the canonical records are not among what acceptance recomputes.
TablesAsClaimed(t, d) ==
    LET r == key[t].root
        sealed == Seal[boot[t].claimed][d]
    IN  d \in Domains => table[r][d] = sealed /\ recorded[r][d] = sealed

\* and recomputes every constituent from its bytes.
AsClaimed(t, d) ==
    LET r == key[t].root
        sealed == Seal[boot[t].claimed][d]
    IN  IF d = "canonical" THEN canonical[r] = boot[t].claimed
        ELSE table[r][d] = sealed /\ recorded[r][d] = sealed

\* Variant: acceptance compares what is recorded, and no bytes.
VerifyRecorded(t) ==
    /\ pc[t] = "verify"
    /\ \E d \in boot[t].todo :
          /\ d \in Domains => recorded[key[t].root][d] = Seal[boot[t].claimed][d]
          /\ Goes(t, "verify", [boot[t] EXCEPT !.todo = @ \ {d}])

Verify(t) ==
    /\ pc[t] = "verify"
    /\ \E d \in boot[t].todo :
          /\ AsClaimed(t, d)
          /\ Goes(t, "verify", [boot[t] EXCEPT !.todo = @ \ {d}])

\* A node that holds an anchor requires a signature of the manifest's identity.
Authentic(t) == anchor = "held" => boot[t].version \in Signed

Authenticate(t) ==
    /\ pc[t] = "verify"
    /\ boot[t].todo = {}
    /\ Authentic(t)
    /\ Goes(t, "load", [boot[t] EXCEPT !.todo = Domains])

\* load_domain, a domain after the other: the tables are read first,
HalfLoaded(t) == {d \in boot[t].todo : boot[t].loaded[d] # None}

LoadTables(t) ==
    /\ pc[t] = "load"
    /\ HalfLoaded(t) = {}
    /\ \E d \in boot[t].todo :
          Goes(t, "load", [boot[t] EXCEPT !.loaded[d] = table[key[t].root][d]])

\* and the hash recorded of them must be the one in the manifest.
Anchored(t, d) == recorded[key[t].root][d] = Seal[boot[t].version][d]

LoadRecord(t) ==
    /\ pc[t] = "load"
    /\ \E d \in HalfLoaded(t) :
          /\ Anchored(t, d)
          /\ Goes(t, "load", [boot[t] EXCEPT !.todo = @ \ {d}])

\* A file that is being written may not be read as one at all.
Refused(t) ==
    \/ pc[t] \in {"accept", "verify", "load"} /\ pending[key[t].root] # {}
    \/ pc[t] = "verify" /\ \E d \in boot[t].todo : ~AsClaimed(t, d)
    \/ pc[t] = "verify" /\ boot[t].todo = {} /\ ~Authentic(t)
    \/ pc[t] = "load" /\ \E d \in HalfLoaded(t) : ~Anchored(t, d)

\* Variant: a refusal is remembered like a snapshot.
RefuseForGood(t) ==
    /\ Refused(t)
    /\ Over(t)
    /\ boot' = [boot EXCEPT ![t] = None]
    /\ lock' = None
    /\ resident' = Append(resident, [key |-> key[t], snapshot |-> None])

\* boot raises: nothing is kept, the with statement gives the lock back, and the
\* exception ends the whole invocation.
Refuse(t) ==
    /\ Refused(t)
    /\ Over(t)
    /\ boot' = [boot EXCEPT ![t] = None]
    /\ lock' = None
    /\ UNCHANGED resident

-----------------------------------------------------------------------------
(***************************************************************************)
(* What happens around the process.                                        *)
(***************************************************************************)
BeginRebuild(r) ==
    /\ pending[r] = {}
    /\ rebuilds < MaxRebuilds
    /\ rebuilds' = rebuilds + 1
    /\ \E v \in Versions : target' = [target EXCEPT ![r] = v]
    /\ pending' = [pending EXCEPT ![r] = Files]
    /\ UNCHANGED <<manifest, table, recorded, canonical, anchor, resident, lock, call, current, placed, act>>

\* A write is noticed by whoever has read something at the root, and by the
\* calls under way there.
Since(snapshot) ==
    IF snapshot.disturbed = "no" THEN [snapshot EXCEPT !.disturbed = "since"] ELSE snapshot

Noticed(r) ==
    /\ boot' = [t \in Threads |->
            IF boot[t] # None /\ key[t].root = r THEN [boot[t] EXCEPT !.disturbed = "during"]
            ELSE boot[t]]
    /\ given' = [t \in Threads |->
            IF given[t] # None /\ key[t].root = r THEN Since(given[t]) ELSE given[t]]
    /\ resident' = [i \in DOMAIN resident |->
            IF resident[i].key.root = r THEN [resident[i] EXCEPT !.snapshot = Since(@)]
            ELSE resident[i]]
    /\ current' = [t \in Threads |->
            IF pc[t] \notin {"idle", "placed"} /\ key[t].root = r
            THEN current[t] \cup {manifest'[r].version}
            ELSE current[t]]
    /\ moved' = [moved EXCEPT ![r] = @ \/ placement[r] # "unread"]
    /\ UNCHANGED <<target, rebuilds, anchor, lock, pc, key, placement, act>>

\* Rewriting the manifest changes its file status.
WriteManifest(r) ==
    /\ <<"manifest">> \in pending[r]
    /\ pending' = [pending EXCEPT ![r] = @ \ {<<"manifest">>}]
    /\ manifest' = [manifest EXCEPT ![r] = [version |-> target[r], stamp |-> rebuilds]]
    /\ UNCHANGED <<table, recorded, canonical>>
    /\ Noticed(r)

WriteCanonical(r) ==
    /\ <<"canonical">> \in pending[r]
    /\ pending' = [pending EXCEPT ![r] = @ \ {<<"canonical">>}]
    /\ canonical' = [canonical EXCEPT ![r] = target[r]]
    /\ UNCHANGED <<manifest, table, recorded>>
    /\ Noticed(r)

WriteDomain(r, d) ==
    /\ \/ /\ <<"table", d>> \in pending[r]
          /\ pending' = [pending EXCEPT ![r] = @ \ {<<"table", d>>}]
          /\ table' = [table EXCEPT ![r][d] = Seal[target[r]][d]]
          /\ UNCHANGED recorded
       \/ /\ <<"recorded", d>> \in pending[r]
          /\ pending' = [pending EXCEPT ![r] = @ \ {<<"recorded", d>>}]
          /\ recorded' = [recorded EXCEPT ![r][d] = Seal[target[r]][d]]
          /\ UNCHANGED table
    /\ UNCHANGED <<manifest, canonical>>
    /\ Noticed(r)

\* A rebuild that is cut short leaves what it had written beside what was there.
AbandonRebuild(r) ==
    /\ pending[r] # {}
    /\ pending' = [pending EXCEPT ![r] = {}]
    /\ UNCHANGED <<manifest, table, recorded, canonical, target, rebuilds, anchor, resident, lock,
                   call, current, placed, act>>

\* The environment comes to name a trust anchor, or ceases to, between calls.
ChangeAnchor ==
    /\ \A t \in Threads : pc[t] = "idle"
    /\ anchor' \in {"none", "held"} \ {anchor}
    /\ UNCHANGED <<disk, resident, lock, call, current, placed, act>>

-----------------------------------------------------------------------------
\* What a thread that has the lock does with it.
Holding(t) ==
    \/ Hit(t) \/ Miss(t) \/ Accept(t) \/ Verify(t) \/ Authenticate(t)
    \/ LoadTables(t) \/ LoadRecord(t) \/ Keep(t) \/ Refuse(t)

Rebuild(r) ==
    \/ BeginRebuild(r) \/ WriteManifest(r) \/ WriteCanonical(r) \/ AbandonRebuild(r)
    \/ \E d \in Domains : WriteDomain(r, d)

\* What a thread does around its call of resident.
Invoking(t) ==
    \/ ReadPlacement(t) \/ PassOverPlacement(t) \/ KnowPlacement(t) \/ NoCoordinator(t)
    \/ OpenTrace(t) \/ NoClassification(t) \/ Submit(t) \/ Return(t)

Next ==
    \/ \E t \in Threads : Invoking(t) \/ Stat(t) \/ Acquire(t) \/ Holding(t)
    \/ \E r \in Roots : Rebuild(r)
    \/ ChangeAnchor

Spec == Init /\ [][Next]_vars

-----------------------------------------------------------------------------
\* "verified once per process and per manifest" (api.resident): boots take
\* turns, a call that has returned or raised has given the lock back, and while
\* a snapshot is resident under a key nobody boots it again under that key,
\* though several threads asked before it was there.
BootedOnce ==
    /\ \A t \in Threads : lock = t <=> pc[t] \in {"locked", "accept", "verify", "load"}
    /\ \A t \in Threads : boot[t] # None => ~Holds(key[t])
    /\ \A i, j \in DOMAIN resident : resident[i].key = resident[j].key => i = j

\* "A rebuild in place rewrites the manifest, so it is verified afresh": what a
\* call is given is a snapshot its root's manifest has named since the call
\* began, even when the key was taken before a rebuild and the boot came after.
NeverOutdated ==
    \A t \in Threads : given[t] # None => given[t].id \in current[t]

\* A node that holds an anchor is given only what is signed, though it may have
\* booted the same snapshot, and kept it, before it held one.
AuthenticUnderAnchor ==
    [][\A t \in Threads : given[t] = None /\ given'[t] # None /\ anchor = "held" =>
        given'[t].id \in Signed]_vars

\* A snapshot that was booted while nobody wrote to its root is the one its
\* identity names, in every domain, also where a rebuild was cut short before.
WholeUnlessDisturbed ==
    \A i \in DOMAIN resident :
        LET snapshot == resident[i].snapshot
        IN  snapshot.disturbed # "during" => snapshot.tables = Seal[snapshot.id]

\* What is read beside the boot belongs to the snapshot that was booted: a unit
\* is sent away if that snapshot places execution on a node group and is run
\* here if not, and the header of its trace has the classification the snapshot
\* declares.  This holds unless the root was written to since the snapshot was
\* booted or, for the placement, since it was first asked: nothing compares
\* either with what was verified.
ReadBesideTheBoot ==
    \A t \in Threads : pc[t] = "acting" /\ given[t].disturbed = "no" =>
        /\ header[t] # None => header[t] = given[t].id
        /\ via[t] # "run" /\ ~moved[key[t].root] =>
              (via[t] = "away" <=> given[t].id \in Federated)

-----------------------------------------------------------------------------
(***************************************************************************)
(* What the documentation says and the code does not do.                   *)
(***************************************************************************)
\* boot.py:15: "The returned RuntimePackage is ready for dispatch — all manifest
\* domains resident + hash-verified": what is kept of a boot is what was sealed.
ResidentIsVerified ==
    \A i \in DOMAIN resident : resident[i].snapshot.tables = Seal[resident[i].snapshot.id]

\* api._placement_mode: "The snapshot is immutable, so what it was permitted
\* cannot change under a running process": a unit goes where the snapshot it was
\* given places it.
PlacementOfTheBooted ==
    \A t \in Threads : pc[t] = "acting" /\ via[t] # "run" =>
        (via[t] = "away" <=> given[t].id \in Federated)

\* api.resident: "nothing reads the snapshot again after it": the evidence of a
\* run is classified as the snapshot it ran under says.
HeaderOfTheBooted ==
    \A t \in Threads : header[t] # None => header[t] = given[t].id
=============================================================================
