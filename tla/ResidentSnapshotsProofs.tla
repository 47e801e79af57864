----------------------- MODULE ResidentSnapshotsProofs -----------------------
(***************************************************************************)
(* Proofs about ResidentSnapshots, for any threads, roots, versions and    *)
(* domains, a store of any size and any number of rebuilds in place.       *)
(*                                                                         *)
(* A snapshot may be kept under a key taken before a rebuild and booted    *)
(* after it, so what a key stands for depends on when it is asked: IInv    *)
(* relates every key that is held, by a thread or in the store, to the     *)
(* manifest as it is now, and says of a boot that was not disturbed how    *)
(* much of what is on disk it has already compared.                        *)
(***************************************************************************)
EXTENDS ResidentSnapshots, SequenceTheorems, TLAPS

Booting == {"accept", "verify", "load"}
Served == {"given", "acting"}
InCall(t) == pc[t] \notin {"idle", "placed"}
RootOf(t) == key[t].root

\* Who has the lock, and what a thread has in hand, by where it stands.
StandInv ==
    \A t \in Threads :
        /\ lock = t <=> pc[t] = "locked" \/ pc[t] \in Booting
        /\ IF pc[t] \in Booting THEN boot[t] \in Boots ELSE boot[t] = None
        /\ pc[t] = "load" => boot[t].todo \subseteq Domains
        /\ IF pc[t] \in Served THEN given[t] \in Snapshots ELSE given[t] = None
        /\ pc[t] # "acting" => header[t] = None
        /\ pc[t] = "idle" => via[t] = "run"
        /\ InCall(t) => key[t].anchor = anchor

\* A key is in the store once, and not while a boot under it is in progress.
OnceInv ==
    /\ \A t \in Threads : pc[t] \in Booting => ~Holds(key[t])
    /\ \A i, j \in DOMAIN resident : resident[i].key = resident[j].key => i = j

\* Rewriting a manifest gives it a file status nobody has asked for yet.
StampInv ==
    \A r \in Roots :
        /\ manifest[r].stamp <= rebuilds
        /\ <<"manifest">> \in pending[r] => manifest[r].stamp < rebuilds

\* A version may stand for a key: it is the one the manifest names, if the key
\* has the manifest's present status, and one that every call which asks for
\* that key has seen the manifest name.
StandsFor(v, k) ==
    /\ k.stamp <= manifest[k.root].stamp
    /\ k.stamp = manifest[k.root].stamp => v = manifest[k.root].version
    /\ \A t \in Threads : InCall(t) /\ key[t] = k => v \in current[t]

NamedInv ==
    /\ \A t \in Threads : InCall(t) =>
          /\ manifest[RootOf(t)].version \in current[t]
          /\ key[t].stamp <= manifest[RootOf(t)].stamp
    /\ \A i \in DOMAIN resident : StandsFor(resident[i].snapshot.id, resident[i].key)
    /\ \A t \in Threads : pc[t] \in Booting => StandsFor(boot[t].version, key[t])
    /\ \A t \in Threads : pc[t] \in Served => given[t].id \in current[t]

\* What is kept under an anchor is signed.
SignedInv ==
    /\ \A i \in DOMAIN resident :
          resident[i].key.anchor = "held" => resident[i].snapshot.id \in Signed
    /\ \A t \in Threads : pc[t] = "load" /\ anchor = "held" => boot[t].version \in Signed

\* A boot that nobody disturbed has read one manifest, and what it has verified
\* or loaded of it is what is there.
BootOK(t) ==
    /\ boot[t].version = manifest[RootOf(t)].version
    /\ pc[t] = "accept" => boot[t].todo = Constituents
    /\ pc[t] \in {"accept", "verify"} => \A d \in Domains : boot[t].loaded[d] = None
    /\ pc[t] # "accept" => boot[t].claimed = boot[t].version
    /\ pc[t] = "verify" => \A d \in Constituents \ boot[t].todo : AsClaimed(t, d)
    /\ pc[t] = "load" =>
          /\ \A d \in Constituents : AsClaimed(t, d)
          /\ \A d \in Domains :
                d \notin boot[t].todo \/ boot[t].loaded[d] # None =>
                    boot[t].loaded[d] = Seal[boot[t].version][d]

\* And a snapshot that was booted so is whole, and has the records at its root
\* as long as nobody writes there.
SnapshotOK(snapshot, r) ==
    /\ snapshot.disturbed # "during" => snapshot.tables = Seal[snapshot.id]
    /\ snapshot.disturbed = "no" => canonical[r] = snapshot.id

WholeInv ==
    /\ \A t \in Threads : pc[t] \in Booting /\ boot[t].disturbed = "no" => BootOK(t)
    /\ \A i \in DOMAIN resident : SnapshotOK(resident[i].snapshot, resident[i].key.root)
    /\ \A t \in Threads : pc[t] \in Served =>
          /\ SnapshotOK(given[t], RootOf(t))
          /\ given[t].disturbed = "no" /\ header[t] # None => header[t] = given[t].id

\* A placement that is known is the one of the records that were read, which
\* are still there unless the root was written to.
PlacedInv ==
    /\ \A t \in Threads : via[t] # "run" => placement[RootOf(t)] = via[t]
    /\ \A r \in Roots : placement[r] # "unread" /\ ~moved[r] =>
          (placement[r] = "away" <=> canonical[r] \in Federated)

IInv ==
    /\ TypeOK /\ StandInv /\ OnceInv /\ StampInv /\ NamedInv
    /\ SignedInv /\ WholeInv /\ PlacedInv

Entries == [key : Keys, snapshot : Snapshots]

\* What a thread does, and what a rebuild writes.
ThreadStep(t) == Invoking(t) \/ Stat(t) \/ Acquire(t) \/ Holding(t)
Write(r) == WriteManifest(r) \/ WriteCanonical(r) \/ \E d \in Domains : WriteDomain(r, d)

-----------------------------------------------------------------------------
(***************************************************************************)
(* What happens to the store.                                              *)
(***************************************************************************)
\* Keeping a snapshot adds it last, and at most drops the first.
LEMMA KeptStore ==
  ASSUME NEW S, NEW store \in Seq(S), NEW e \in S
  PROVE  LET new == Append(IF Len(store) >= Limit THEN Tail(store) ELSE store, e)
         IN  /\ new \in Seq(S)
             /\ \E dropped \in {0, 1} : \A i \in DOMAIN new :
                   IF i = Len(new) THEN new[i] = e
                   ELSE i + dropped \in DOMAIN store /\ new[i] = store[i + dropped]
<1> DEFINE new == Append(IF Len(store) >= Limit THEN Tail(store) ELSE store, e)
<1>1. DOMAIN store = 1..Len(store) /\ Len(store) \in Nat
  BY LenProperties
<1>2. CASE Len(store) >= Limit
  <2>1. store # <<>>
    BY <1>2, ResidentAssumption
  <2>2. /\ Tail(store) \in Seq(S) /\ Len(Tail(store)) = Len(store) - 1
        /\ \A i \in 1..Len(Tail(store)) : Tail(store)[i] = store[i + 1]
    BY <2>1, HeadTailProperties
  <2>3. /\ new \in Seq(S) /\ Len(new) = Len(store)
        /\ \A i \in 1..(Len(store) - 1) : new[i] = store[i + 1]
        /\ new[Len(store)] = e
    BY <1>1, <1>2, <2>2, AppendProperties
  <2>4. DOMAIN new = 1..Len(store)
    BY <2>3, LenProperties
  <2> HIDE DEF new
  <2>5. ASSUME NEW i \in DOMAIN new
        PROVE  IF i = Len(new) THEN new[i] = e
               ELSE i + 1 \in DOMAIN store /\ new[i] = store[i + 1]
    <3>1. i \in 1..Len(store)
      BY <2>4
    <3>2. CASE i = Len(store)
      BY <2>3, <3>2
    <3>3. CASE i # Len(store)
      <4>1. i \in 1..(Len(store) - 1) /\ i + 1 \in 1..Len(store)
        BY <1>1, <3>1, <3>3
      <4> QED
        BY <1>1, <2>3, <3>3, <4>1
    <3> QED
      BY <3>2, <3>3
  <2>6. \E dropped \in {0, 1} : \A i \in DOMAIN new :
           IF i = Len(new) THEN new[i] = e
           ELSE i + dropped \in DOMAIN store /\ new[i] = store[i + dropped]
    BY <2>5
  <2> QED
    BY <2>3, <2>6 DEF new
<1>3. CASE ~(Len(store) >= Limit)
  <2>1. /\ new \in Seq(S) /\ Len(new) = Len(store) + 1
        /\ \A i \in 1..Len(store) : new[i] = store[i]
        /\ new[Len(store) + 1] = e
    BY <1>3, AppendProperties
  <2>2. DOMAIN new = 1..(Len(store) + 1)
    BY <2>1, LenProperties
  <2> HIDE DEF new
  <2>3. ASSUME NEW i \in DOMAIN new
        PROVE  IF i = Len(new) THEN new[i] = e
               ELSE i + 0 \in DOMAIN store /\ new[i] = store[i + 0]
    <3>1. i \in 1..(Len(store) + 1)
      BY <2>2
    <3>2. CASE i = Len(store) + 1
      BY <2>1, <3>2
    <3>3. CASE i # Len(store) + 1
      <4>1. i \in 1..Len(store) /\ i + 0 = i
        BY <1>1, <3>1, <3>3
      <4> QED
        BY <1>1, <2>1, <3>3, <4>1
    <3> QED
      BY <3>2, <3>3
  <2>4. \E dropped \in {0, 1} : \A i \in DOMAIN new :
           IF i = Len(new) THEN new[i] = e
           ELSE i + dropped \in DOMAIN store /\ new[i] = store[i + dropped]
    BY <2>3
  <2> QED
    BY <2>1, <2>4 DEF new
<1> QED
  BY <1>2, <1>3

LEMMA SinceType ==
  ASSUME NEW s \in Snapshots
  PROVE  /\ Since(s) \in Snapshots /\ Since(s) # None
         /\ Since(s).id = s.id /\ Since(s).tables = s.tables
         /\ Since(s).disturbed # "no"
         /\ Since(s).disturbed = "during" <=> s.disturbed = "during"
<1>1. Since(s) \in Snapshots
  BY DEF Since, Snapshots
<1> QED
  BY <1>1, RecordAssumption DEF Since, Snapshots

\* A write leaves every snapshot where it is, and marks those of its root.
LEMMA NoticedStore ==
  ASSUME TypeOK, NEW r \in Roots, Noticed(r)
  PROVE  /\ resident' \in Seq(Entries)
         /\ DOMAIN resident' = DOMAIN resident
         /\ \A i \in DOMAIN resident :
               /\ resident[i] \in Entries
               /\ resident'[i].key = resident[i].key
               /\ resident'[i].snapshot =
                     IF resident[i].key.root = r THEN Since(resident[i].snapshot)
                     ELSE resident[i].snapshot
<1> DEFINE n(i) == IF resident[i].key.root = r THEN [resident[i] EXCEPT !.snapshot = Since(@)]
                   ELSE resident[i]
<1>1. resident \in Seq(Entries) /\ resident' = [i \in DOMAIN resident |-> n(i)]
  BY DEF TypeOK, Entries, Noticed
<1>2. DOMAIN resident = 1..Len(resident) /\ Len(resident) \in Nat
  BY <1>1, LenProperties
<1>3. \A i \in DOMAIN resident : resident[i] \in Entries
  BY <1>1, <1>2, ElementOfSeq
<1>4. \A i \in DOMAIN resident :
         /\ n(i) \in Entries /\ n(i).key = resident[i].key
         /\ n(i).snapshot = IF resident[i].key.root = r THEN Since(resident[i].snapshot)
                            ELSE resident[i].snapshot
  BY <1>3, SinceType DEF Entries
<1>5. resident' \in Seq(Entries)
  BY <1>1, <1>2, <1>4
<1> QED
  BY <1>1, <1>3, <1>4, <1>5
-----------------------------------------------------------------------------
(***************************************************************************)
(* Types.                                                                  *)
(***************************************************************************)
LEMMA InitType == Init => TypeOK
<1> SUFFICES ASSUME Init PROVE TypeOK
  OBVIOUS
<1>1. table \in [Roots -> [Domains -> Tables]] /\ recorded = table
  BY ResidentAssumption DEF Init
<1>2. key \in [Threads -> Keys]
  BY DEF Init, Keys
<1>3. resident \in Seq([key : Keys, snapshot : Snapshots])
  BY EmptySeq DEF Init
<1>4. pending \in [Roots -> SUBSET Files] /\ rebuilds \in 0..MaxRebuilds
  BY ResidentAssumption DEF Init
<1> QED
  BY <1>1, <1>2, <1>3, <1>4 DEF Init, TypeOK

\* Around a call: nothing on disk changes, and the store does not either.
LEMMA InvokingType ==
  ASSUME TypeOK, NEW t \in Threads, Invoking(t)
  PROVE  TypeOK'
<1> USE DEF TypeOK, disk, Place, Ends, Over
<1>1. CASE ReadPlacement(t) \/ PassOverPlacement(t) \/ KnowPlacement(t)
  <2>1. PICK r \in Roots, mode \in {"here", "away"} : /\ Place(t, r, mode)
                                                     /\ moved' \in {moved, [moved EXCEPT ![r] = TRUE]}
    BY <1>1 DEF ReadPlacement, PassOverPlacement, KnowPlacement
  <2>2. [root |-> r, stamp |-> 0, anchor |-> "none"] \in Keys
    BY DEF Keys
  <2> QED
    BY <2>1, <2>2
<1>2. CASE NoCoordinator(t) \/ NoClassification(t) \/ Return(t)
  <2>1. Ends(t)
    BY <1>2 DEF NoCoordinator, NoClassification, Return
  <2>2. [root |-> key[t].root, stamp |-> 0, anchor |-> "none"] \in Keys
    BY DEF Keys
  <2>3. key' \in [Threads -> Keys]
    BY <2>1, <2>2
  <2> QED
    BY <2>1, <2>3 DEF placed
<1>3. CASE OpenTrace(t)
  <2>1. canonical[key[t].root] \in Versions
    BY DEF Keys
  <2> QED
    BY <1>3, <2>1 DEF OpenTrace, placed
<1>4. CASE Submit(t)
  BY <1>4 DEF Submit, placed, act
<1> QED
  BY <1>1, <1>2, <1>3, <1>4 DEF Invoking

LEMMA AskType ==
  ASSUME TypeOK, NEW t \in Threads, Stat(t) \/ Acquire(t)
  PROVE  TypeOK'
<1> USE DEF TypeOK, disk, placed, act
<1>1. CASE Stat(t)
  <2>1. PICK r \in Roots : Ask(t, [root |-> r, stamp |-> manifest[r].stamp, anchor |-> anchor])
    BY <1>1 DEF Stat
  <2>2. [root |-> r, stamp |-> manifest[r].stamp, anchor |-> anchor] \in Keys
    BY DEF Keys
  <2> QED
    BY <2>1, <2>2 DEF Ask
<1>2. CASE Acquire(t)
  BY <1>2 DEF Acquire
<1> QED
  BY <1>1, <1>2

\* What a boot in progress becomes by one step of it.
LEMMA BootType ==
  ASSUME TypeOK, StandInv, NEW t \in Threads, pc[t] \in Booting
  PROVE  /\ boot[t] \in Boots
         /\ RootOf(t) \in Roots
         /\ [boot[t] EXCEPT !.claimed = manifest[RootOf(t)].version] \in Boots
         /\ \A d : [boot[t] EXCEPT !.todo = @ \ {d}] \in Boots
         /\ [boot[t] EXCEPT !.todo = Domains] \in Boots
         /\ \A d \in Domains : [boot[t] EXCEPT !.loaded[d] = table[RootOf(t)][d]] \in Boots
         /\ [id |-> boot[t].version, tables |-> boot[t].loaded, disturbed |-> boot[t].disturbed]
               \in Snapshots
<1>1. boot[t] \in Boots
  BY DEF StandInv
<1>2. RootOf(t) \in Roots
  BY DEF TypeOK, Keys, RootOf
<1>3. manifest[RootOf(t)].version \in Versions /\ table[RootOf(t)] \in [Domains -> Tables]
  BY <1>2 DEF TypeOK
<1>4. ASSUME NEW d \in Domains
      PROVE  [boot[t] EXCEPT !.loaded[d] = table[RootOf(t)][d]] \in Boots
  <2>1. [boot[t].loaded EXCEPT ![d] = table[RootOf(t)][d]] \in Loaded
    BY <1>1, <1>3 DEF Boots, Loaded
  <2> QED
    BY <1>1, <2>1 DEF Boots
<1>5. [boot[t] EXCEPT !.todo = Domains] \in Boots
  BY <1>1 DEF Boots, Constituents
<1>6. [boot[t] EXCEPT !.claimed = manifest[RootOf(t)].version] \in Boots
  BY <1>1, <1>3 DEF Boots
<1>7. \A d : [boot[t] EXCEPT !.todo = @ \ {d}] \in Boots
  BY <1>1 DEF Boots
<1>8. [id |-> boot[t].version, tables |-> boot[t].loaded, disturbed |-> boot[t].disturbed]
        \in Snapshots
  BY <1>1 DEF Boots, Snapshots
<1> QED
  BY <1>1, <1>2, <1>4, <1>5, <1>6, <1>7, <1>8

LEMMA HoldingType ==
  ASSUME TypeOK, StandInv, NEW t \in Threads, Holding(t)
  PROVE  TypeOK'
<1> USE DEF placed, act, disk
<1>1. CASE Hit(t)
  <2>1. PICK i \in DOMAIN resident : Give(t, resident[i].snapshot)
    BY <1>1 DEF Hit
  <2>2. resident[i] \in Entries
    <3>1. resident \in Seq(Entries)
      BY DEF TypeOK, Entries
    <3> QED
      BY <3>1, LenProperties, ElementOfSeq
  <2>3. resident[i].snapshot \in Snapshots
    BY <2>2 DEF Entries
  <2> QED
    BY <1>1, <2>1, <2>3 DEF Hit, Give, TypeOK
<1>2. CASE Miss(t)
  <2>1. [version |-> manifest[key[t].root].version, claimed |-> manifest[key[t].root].version,
         todo |-> Constituents, loaded |-> [d \in Domains |-> None], disturbed |-> "no"] \in Boots
    BY DEF TypeOK, Keys, Boots, Loaded
  <2> QED
    BY <1>2, <2>1 DEF Miss, BootBegun, TypeOK
<1>3. CASE Accept(t) \/ Verify(t) \/ Authenticate(t) \/ LoadTables(t) \/ LoadRecord(t)
  <2>1. pc[t] \in Booting
    BY <1>3 DEF Accept, Verify, Authenticate, LoadTables, LoadRecord, Booting
  <2>2. PICK b \in Boots, place \in {"verify", "load"} : Goes(t, place, b)
    <3>1. CASE Accept(t)
      BY <2>1, <3>1, BootType DEF Accept, RootOf
    <3>2. CASE Verify(t)
      BY <2>1, <3>2, BootType DEF Verify
    <3>3. CASE Authenticate(t)
      BY <2>1, <3>3, BootType DEF Authenticate
    <3>4. CASE LoadTables(t)
      <4>1. PICK d \in boot[t].todo : Goes(t, "load", [boot[t] EXCEPT !.loaded[d] = table[key[t].root][d]])
        BY <3>4 DEF LoadTables
      <4>2. d \in Domains
        BY <3>4, <4>1 DEF LoadTables, StandInv
      <4> QED
        BY <2>1, <4>1, <4>2, BootType DEF RootOf
    <3>5. CASE LoadRecord(t)
      BY <2>1, <3>5, BootType DEF LoadRecord
    <3> QED
      BY <1>3, <3>1, <3>2, <3>3, <3>4, <3>5
  <2> QED
    BY <2>2 DEF Goes, TypeOK
<1>4. CASE Keep(t)
  <2>1. pc[t] \in Booting
    BY <1>4 DEF Keep, Booting
  <2> DEFINE snapshot == [id |-> boot[t].version, tables |-> boot[t].loaded,
                          disturbed |-> boot[t].disturbed]
  <2>2. snapshot \in Snapshots /\ [key |-> key[t], snapshot |-> snapshot] \in Entries
    BY <2>1, BootType DEF Entries, TypeOK
  <2>3. resident \in Seq(Entries)
    BY DEF TypeOK, Entries
  <2>4. resident' \in Seq(Entries)
    BY <1>4, <2>2, <2>3, KeptStore DEF Keep
  <2>5. Give(t, snapshot)
    BY <1>4 DEF Keep
  <2> HIDE DEF snapshot
  <2> QED
    BY <2>2, <2>4, <2>5 DEF Give, TypeOK, Entries
<1>5. CASE Refuse(t)
  <2>1. [root |-> key[t].root, stamp |-> 0, anchor |-> "none"] \in Keys
    BY DEF Keys, TypeOK
  <2> QED
    BY <1>5, <2>1 DEF Refuse, Over, TypeOK
<1> QED
  BY <1>1, <1>2, <1>3, <1>4, <1>5 DEF Holding

LEMMA WriteType ==
  ASSUME TypeOK, StandInv, NEW r \in Roots, Write(r)
  PROVE  TypeOK'
<1>1. Noticed(r) /\ pending' \in [Roots -> SUBSET Files]
  <2>1. /\ Noticed(r)
        /\ \E x : pending' = [pending EXCEPT ![r] = @ \ {x}]
    BY DEF Write, WriteManifest, WriteCanonical, WriteDomain
  <2>2. PICK x : pending' = [pending EXCEPT ![r] = @ \ {x}]
    BY <2>1
  <2>3. pending[r] \ {x} \in SUBSET Files
    BY DEF TypeOK
  <2> QED
    BY <2>1, <2>2, <2>3 DEF TypeOK
<1> DEFINE DiskOK == /\ manifest' \in [Roots -> [version : Versions, stamp : Nat]]
                     /\ table' \in [Roots -> [Domains -> Tables]]
                     /\ recorded' \in [Roots -> [Domains -> Tables]]
                     /\ canonical' \in [Roots -> Versions]
<1>2. DiskOK
  <2>1. CASE WriteManifest(r)
    <3>1. rebuilds \in Nat
      BY ResidentAssumption DEF TypeOK
    <3> QED
      BY <2>1, <3>1 DEF WriteManifest, TypeOK
  <2>2. CASE WriteCanonical(r)
    BY <2>2 DEF WriteCanonical, TypeOK
  <2>3. ASSUME NEW d \in Domains, WriteDomain(r, d)
        PROVE  DiskOK
    <3>1. Seal[target[r]][d] \in Tables
      BY ResidentAssumption DEF TypeOK
    <3>2. [table EXCEPT ![r][d] = Seal[target[r]][d]] \in [Roots -> [Domains -> Tables]]
      BY <3>1 DEF TypeOK
    <3>3. [recorded EXCEPT ![r][d] = Seal[target[r]][d]] \in [Roots -> [Domains -> Tables]]
      BY <3>1 DEF TypeOK
    <3> QED
      BY <2>3, <3>2, <3>3 DEF WriteDomain, TypeOK
  <2> QED
    BY <2>1, <2>2, <2>3 DEF Write
<1>3. resident' \in Seq([key : Keys, snapshot : Snapshots])
  BY <1>1, NoticedStore DEF Entries
<1>4. boot' \in [Threads -> Boots \cup {None}]
  <2>1. ASSUME NEW t \in Threads, boot[t] # None
        PROVE  [boot[t] EXCEPT !.disturbed = "during"] \in Boots
    <3>1. boot[t] \in Boots
      BY <2>1 DEF TypeOK
    <3> QED
      BY <3>1 DEF Boots
  <2>2. \A t \in Threads : boot[t] \in Boots \cup {None}
    BY DEF TypeOK
  <2> QED
    BY <1>1, <2>1, <2>2 DEF Noticed
<1>5. given' \in [Threads -> Snapshots \cup {None}]
  BY <1>1, SinceType DEF Noticed, TypeOK
<1>6. current' \in [Threads -> SUBSET Versions]
  <2>1. manifest'[r].version \in Versions
    BY <1>2
  <2>2. \A t \in Threads : current[t] \in SUBSET Versions
    BY DEF TypeOK
  <2> QED
    BY <1>1, <2>1, <2>2 DEF Noticed
<1>7. moved' \in [Roots -> BOOLEAN]
  BY <1>1 DEF Noticed, TypeOK
<1> QED
  BY <1>1, <1>2, <1>3, <1>4, <1>5, <1>6, <1>7 DEF Noticed, TypeOK, act

LEMMA AroundType ==
  ASSUME TypeOK, ChangeAnchor \/ \E r \in Roots : BeginRebuild(r) \/ AbandonRebuild(r)
  PROVE  TypeOK'
<1> USE DEF TypeOK, disk, call, placed, act
<1>1. CASE ChangeAnchor
  BY <1>1 DEF ChangeAnchor
<1>2. ASSUME NEW r \in Roots, BeginRebuild(r)
      PROVE  TypeOK'
  <2>1. rebuilds' \in 0..MaxRebuilds
    BY <1>2, ResidentAssumption DEF BeginRebuild
  <2> QED
    BY <1>2, <2>1 DEF BeginRebuild
<1>3. ASSUME NEW r \in Roots, AbandonRebuild(r)
      PROVE  TypeOK'
  BY <1>3 DEF AbandonRebuild
<1> QED
  BY <1>1, <1>2, <1>3
LEMMA StutterType == TypeOK /\ UNCHANGED vars => TypeOK'
  BY DEF TypeOK, vars, disk, placed, act, call

\* Every step is one of these.
LEMMA NextSteps ==
  Next <=> \/ \E t \in Threads : Invoking(t) \/ Stat(t) \/ Acquire(t) \/ Holding(t)
           \/ \E r \in Roots : Write(r) \/ BeginRebuild(r) \/ AbandonRebuild(r)
           \/ ChangeAnchor
  BY DEF Next, Rebuild, Write

LEMMA NextType == TypeOK /\ StandInv /\ [Next]_vars => TypeOK'
  BY NextSteps, InvokingType, AskType, HoldingType, WriteType, AroundType, StutterType

-----------------------------------------------------------------------------
(***************************************************************************)
(* Where threads stand.                                                    *)
(***************************************************************************)
LEMMA InvokingStand ==
  ASSUME TypeOK, StandInv, NEW s \in Threads, Invoking(s) \/ Stat(s) \/ Acquire(s)
  PROVE  StandInv'
<1> USE DEF TypeOK, StandInv, Booting, Served, InCall, placed, act
<1>1. CASE ReadPlacement(s) \/ PassOverPlacement(s) \/ KnowPlacement(s)
  BY <1>1 DEF ReadPlacement, PassOverPlacement, KnowPlacement, Place
<1>2. CASE NoCoordinator(s) \/ NoClassification(s) \/ Return(s)
  BY <1>2 DEF NoCoordinator, NoClassification, Return, Ends, Over
<1>3. CASE OpenTrace(s)
  BY <1>3 DEF OpenTrace
<1>4. CASE Submit(s)
  BY <1>4 DEF Submit
<1>5. CASE Stat(s)
  BY <1>5 DEF Stat, Ask
<1>6. CASE Acquire(s)
  BY <1>6, ResidentAssumption DEF Acquire
<1> QED
  BY <1>1, <1>2, <1>3, <1>4, <1>5, <1>6 DEF Invoking

LEMMA HoldingStand ==
  ASSUME TypeOK, StandInv, NEW s \in Threads, Holding(s)
  PROVE  StandInv'
<1> USE DEF Booting, Served, InCall, placed, act
<1>1. None \notin Threads
  BY ResidentAssumption
<1>2. CASE Hit(s)
  <2>1. PICK i \in DOMAIN resident : Give(s, resident[i].snapshot)
    BY <1>2 DEF Hit
  <2>2. resident[i].snapshot \in Snapshots
    <3>1. resident \in Seq(Entries)
      BY DEF TypeOK, Entries
    <3>2. resident[i] \in Entries
      BY <3>1, LenProperties, ElementOfSeq
    <3> QED
      BY <3>2 DEF Entries
  <2> QED
    BY <1>1, <1>2, <2>1, <2>2 DEF Hit, Give, TypeOK, StandInv
<1>3. CASE Miss(s)
  <2>1. [version |-> manifest[key[s].root].version, claimed |-> manifest[key[s].root].version,
         todo |-> Constituents, loaded |-> [d \in Domains |-> None], disturbed |-> "no"] \in Boots
    BY DEF TypeOK, Keys, Boots, Loaded
  <2> QED
    BY <1>3, <2>1 DEF Miss, BootBegun, TypeOK, StandInv
<1>4. CASE Accept(s)
  BY <1>4, BootType DEF Accept, Goes, TypeOK, StandInv, RootOf
<1>5. CASE Verify(s)
  <2>1. PICK d : Goes(s, "verify", [boot[s] EXCEPT !.todo = @ \ {d}])
    BY <1>5 DEF Verify
  <2>2. pc[s] = "verify" /\ [boot[s] EXCEPT !.todo = @ \ {d}] \in Boots
    BY <1>5, BootType DEF Verify
  <2> QED
    BY <2>1, <2>2 DEF Goes, TypeOK, StandInv
<1>6. CASE Authenticate(s)
  <2>1. [boot[s] EXCEPT !.todo = Domains].todo = Domains
    BY <1>6 DEF Authenticate, StandInv, Boots
  <2> QED
    BY <1>6, <2>1, BootType DEF Authenticate, Goes, TypeOK, StandInv
<1>7. CASE LoadTables(s) \/ LoadRecord(s)
  <2>1. PICK d \in Domains :
           \/ Goes(s, "load", [boot[s] EXCEPT !.loaded[d] = table[RootOf(s)][d]])
           \/ Goes(s, "load", [boot[s] EXCEPT !.todo = @ \ {d}])
    BY <1>7 DEF LoadTables, LoadRecord, HalfLoaded, StandInv, RootOf
  <2>2. PICK b \in Boots : Goes(s, "load", b) /\ b.todo \subseteq Domains
    <3>1. pc[s] = "load" /\ boot[s] \in Boots /\ boot[s].todo \subseteq Domains
      BY <1>7 DEF LoadTables, LoadRecord, StandInv
    <3>2. [boot[s] EXCEPT !.loaded[d] = table[RootOf(s)][d]].todo = boot[s].todo
      BY <3>1 DEF Boots
    <3>3. [boot[s] EXCEPT !.todo = @ \ {d}].todo = boot[s].todo \ {d}
      BY <3>1 DEF Boots
    <3> QED
      BY <2>1, <3>1, <3>2, <3>3, BootType
  <2> QED
    BY <1>7, <2>2 DEF LoadTables, LoadRecord, Goes, TypeOK, StandInv
<1>8. CASE Keep(s)
  <2>1. [id |-> boot[s].version, tables |-> boot[s].loaded, disturbed |-> boot[s].disturbed]
          \in Snapshots
    BY <1>8, BootType DEF Keep
  <2> QED
    BY <1>1, <1>8, <2>1 DEF Keep, Give, TypeOK, StandInv
<1>9. CASE Refuse(s)
  <2>1. pc[s] \in Booting
    BY <1>9 DEF Refuse, Refused
  <2>2. key'[s].anchor = "none" /\ \A t \in Threads \ {s} : key'[t] = key[t]
    BY <1>9 DEF Refuse, Over, TypeOK
  <2> QED
    BY <1>1, <1>9, <2>1, <2>2 DEF Refuse, Over, TypeOK, StandInv
<1> QED
  BY <1>2, <1>3, <1>4, <1>5, <1>6, <1>7, <1>8, <1>9 DEF Holding

LEMMA AroundStand ==
  ASSUME TypeOK, StandInv,
         ChangeAnchor \/ (\E r \in Roots : Write(r) \/ BeginRebuild(r) \/ AbandonRebuild(r))
         \/ UNCHANGED vars
  PROVE  StandInv'
<1> USE DEF Booting, Served, InCall, placed, act, call
<1>1. CASE ChangeAnchor
  BY <1>1 DEF ChangeAnchor, StandInv
<1>2. ASSUME NEW r \in Roots, Write(r)
      PROVE  StandInv'
  <2>1. Noticed(r)
    BY <1>2 DEF Write, WriteManifest, WriteCanonical, WriteDomain
  <2>2. ASSUME NEW t \in Threads
        PROVE  /\ IF pc[t] \in Booting THEN boot'[t] \in Boots ELSE boot'[t] = None
               /\ pc[t] = "load" => boot'[t].todo \subseteq Domains
               /\ IF pc[t] \in Served THEN given'[t] \in Snapshots ELSE given'[t] = None
    <3>1. ASSUME boot[t] \in Boots
          PROVE  /\ [boot[t] EXCEPT !.disturbed = "during"] \in Boots
                 /\ [boot[t] EXCEPT !.disturbed = "during"].todo = boot[t].todo
      BY <3>1 DEF Boots
    <3> QED
      BY <2>1, <3>1, SinceType DEF Noticed, StandInv
  <2> QED
    BY <2>1, <2>2 DEF Noticed, StandInv
<1>3. ASSUME NEW r \in Roots, BeginRebuild(r) \/ AbandonRebuild(r)
      PROVE  StandInv'
  BY <1>3 DEF BeginRebuild, AbandonRebuild, StandInv
<1>4. CASE UNCHANGED vars
  BY <1>4 DEF vars, StandInv
<1> QED
  BY <1>1, <1>2, <1>3, <1>4

LEMMA NextStand == TypeOK /\ StandInv /\ [Next]_vars => StandInv'
  BY NextSteps, InvokingStand, HoldingStand, AroundStand
-----------------------------------------------------------------------------
(***************************************************************************)
(* Keys in the store, and the manifests they were taken from.              *)
(***************************************************************************)
\* A boot takes the lock, so two of them never overlap.
LEMMA OneBoots ==
  ASSUME StandInv, NEW s \in Threads, NEW t \in Threads,
         pc[s] = "locked" \/ pc[s] \in Booting, pc[t] = "locked" \/ pc[t] \in Booting
  PROVE  s = t
  BY DEF StandInv

\* A thread that is asking for a key or using the answer keeps its key; it may
\* take the first one, which is that of a manifest as it is.
LEMMA KeyKept ==
  ASSUME TypeOK, NEW s \in Threads, ThreadStep(s)
  PROVE  /\ \A t \in Threads \ {s} : pc'[t] = pc[t] /\ key'[t] = key[t] /\ current'[t] = current[t]
         /\ UNCHANGED <<disk, anchor>>
         /\ InCall(s)' =>
               \/ InCall(s) /\ key'[s] = key[s] /\ current'[s] = current[s]
               \/ /\ pc'[s] = "keyed"
                  /\ key'[s].root \in Roots
                  /\ key'[s].stamp = manifest[key'[s].root].stamp
                  /\ current'[s] = {manifest[key'[s].root].version}
<1> USE DEF TypeOK, InCall, placed, act
<1>1. CASE ReadPlacement(s) \/ PassOverPlacement(s) \/ KnowPlacement(s)
  BY <1>1 DEF ReadPlacement, PassOverPlacement, KnowPlacement, Place
<1>2. CASE NoCoordinator(s) \/ NoClassification(s) \/ Return(s) \/ Refuse(s)
  BY <1>2 DEF NoCoordinator, NoClassification, Return, Refuse, Ends, Over
<1>3. CASE OpenTrace(s)
  BY <1>3 DEF OpenTrace
<1>4. CASE Submit(s)
  BY <1>4 DEF Submit
<1>5. CASE Stat(s)
  <2>1. PICK r \in Roots : Ask(s, [root |-> r, stamp |-> manifest[r].stamp, anchor |-> anchor])
    BY <1>5 DEF Stat
  <2> QED
    BY <2>1 DEF Ask
<1>6. CASE Acquire(s)
  BY <1>6 DEF Acquire
<1>7. CASE Hit(s)
  <2>1. \E snapshot : Give(s, snapshot) /\ pc[s] = "locked"
    BY <1>7 DEF Hit
  <2> QED
    BY <2>1 DEF Give
<1>8. CASE Keep(s)
  <2>1. \E snapshot : Give(s, snapshot) /\ pc[s] = "load"
    BY <1>8 DEF Keep
  <2> QED
    BY <2>1 DEF Give
<1>9. CASE Miss(s)
  BY <1>9 DEF Miss, BootBegun
<1>10. CASE Accept(s) \/ Verify(s) \/ Authenticate(s) \/ LoadTables(s) \/ LoadRecord(s)
  <2>1. \E place \in {"verify", "load"} : \E b : Goes(s, place, b)
    BY <1>10 DEF Accept, Verify, Authenticate, LoadTables, LoadRecord
  <2>2. pc[s] \in {"accept", "verify", "load"}
    BY <1>10 DEF Accept, Verify, Authenticate, LoadTables, LoadRecord
  <2> QED
    BY <2>1, <2>2 DEF Goes
<1> QED
  BY <1>1, <1>2, <1>3, <1>4, <1>5, <1>6, <1>7, <1>8, <1>9, <1>10 DEF ThreadStep, Invoking, Holding

\* The store and a boot: what a thread does to them, and when it begins a boot
\* or is given a snapshot.
LEMMA StoreKept ==
  ASSUME TypeOK, StandInv, NEW s \in Threads, ThreadStep(s), ~Hit(s), ~Keep(s), ~Miss(s)
  PROVE  /\ resident' = resident
         /\ \A t \in Threads \ {s} : boot'[t] = boot[t] /\ given'[t] = given[t]
         /\ pc'[s] \in Booting =>
               /\ pc[s] \in Booting /\ boot'[s].version = boot[s].version
               /\ boot'[s].disturbed = boot[s].disturbed
         /\ pc'[s] \in Served => pc[s] \in Served /\ given'[s] = given[s]
<1> USE DEF TypeOK, Booting, Served, placed, act, call
<1>1. CASE ReadPlacement(s) \/ PassOverPlacement(s) \/ KnowPlacement(s)
  BY <1>1 DEF ReadPlacement, PassOverPlacement, KnowPlacement, Place
<1>2. CASE NoCoordinator(s) \/ NoClassification(s) \/ Return(s) \/ Refuse(s)
  BY <1>2 DEF NoCoordinator, NoClassification, Return, Refuse, Ends, Over
<1>3. CASE OpenTrace(s)
  BY <1>3 DEF OpenTrace
<1>4. CASE Submit(s)
  BY <1>4 DEF Submit
<1>5. CASE Stat(s)
  BY <1>5 DEF Stat, Ask
<1>6. CASE Acquire(s)
  BY <1>6 DEF Acquire
<1>7. CASE Accept(s) \/ Verify(s) \/ Authenticate(s) \/ LoadTables(s) \/ LoadRecord(s)
  <2>1. pc[s] \in Booting
    BY <1>7 DEF Accept, Verify, Authenticate, LoadTables, LoadRecord
  <2>2. boot[s] \in Boots
    BY <2>1 DEF StandInv
  <2>3. /\ UNCHANGED <<resident, given>>
        /\ pc'[s] \in {"verify", "load"}
        /\ \A t \in Threads \ {s} : boot'[t] = boot[t]
        /\ boot'[s].version = boot[s].version /\ boot'[s].disturbed = boot[s].disturbed
    <3>1. CASE Accept(s)
      BY <2>2, <3>1 DEF Accept, Goes, Boots
    <3>2. CASE Verify(s)
      BY <2>2, <3>2 DEF Verify, Goes, Boots
    <3>3. CASE Authenticate(s)
      BY <2>2, <3>3 DEF Authenticate, Goes, Boots
    <3>4. CASE LoadTables(s)
      BY <2>2, <3>4 DEF LoadTables, Goes, Boots
    <3>5. CASE LoadRecord(s)
      BY <2>2, <3>5 DEF LoadRecord, Goes, Boots
    <3> QED
      BY <1>7, <3>1, <3>2, <3>3, <3>4, <3>5
  <2> QED
    BY <2>1, <2>3
<1> QED
  BY <1>1, <1>2, <1>3, <1>4, <1>5, <1>6, <1>7 DEF ThreadStep, Invoking, Holding

LEMMA HitGives ==
  ASSUME TypeOK, NEW s \in Threads, Hit(s)
  PROVE  /\ pc[s] = "locked" /\ resident' = resident /\ boot' = [boot EXCEPT ![s] = None]
         /\ pc' = [pc EXCEPT ![s] = "given"]
         /\ \E i \in DOMAIN resident :
               resident[i].key = key[s] /\ given' = [given EXCEPT ![s] = resident[i].snapshot]
         /\ UNCHANGED <<disk, key, current, anchor, via, header, placement, moved>>
  BY DEF Hit, Give, placed, act

LEMMA KeepGives ==
  ASSUME TypeOK, StandInv, NEW s \in Threads, Keep(s)
  PROVE  \E e \in Entries :
            /\ e.key = key[s] /\ e.snapshot.id = boot[s].version
            /\ e.snapshot.tables = boot[s].loaded /\ e.snapshot.disturbed = boot[s].disturbed
            /\ pc[s] = "load" /\ boot[s].todo = {}
            /\ pc' = [pc EXCEPT ![s] = "given"]
            /\ given' = [given EXCEPT ![s] = e.snapshot]
            /\ boot' = [boot EXCEPT ![s] = None]
            /\ resident' \in Seq(Entries)
            /\ \E dropped \in {0, 1} : \A i \in DOMAIN resident' :
                  IF i = Len(resident') THEN resident'[i] = e
                  ELSE i + dropped \in DOMAIN resident /\ resident'[i] = resident[i + dropped]
            /\ UNCHANGED <<disk, key, current, anchor, via, header, placement, moved>>
<1> DEFINE snapshot == [id |-> boot[s].version, tables |-> boot[s].loaded,
                        disturbed |-> boot[s].disturbed]
           e == [key |-> key[s], snapshot |-> snapshot]
<1>1. pc[s] = "load" /\ pc[s] \in Booting
  BY DEF Keep, Booting
<1>2. snapshot \in Snapshots /\ e \in Entries
  BY <1>1, BootType DEF Entries, TypeOK
<1>3. resident \in Seq(Entries)
  BY DEF TypeOK, Entries
<1>4. resident' = Append(IF Len(resident) >= Limit THEN Tail(resident) ELSE resident, e)
  BY DEF Keep
<1>5. /\ resident' \in Seq(Entries)
      /\ \E dropped \in {0, 1} : \A i \in DOMAIN resident' :
            IF i = Len(resident') THEN resident'[i] = e
            ELSE i + dropped \in DOMAIN resident /\ resident'[i] = resident[i + dropped]
  BY <1>2, <1>3, <1>4, KeptStore
<1>6. Give(s, snapshot) /\ boot[s].todo = {}
  BY DEF Keep
<1>7. /\ e.key = key[s] /\ e.snapshot = snapshot /\ e.snapshot.id = boot[s].version
      /\ e.snapshot.tables = boot[s].loaded /\ e.snapshot.disturbed = boot[s].disturbed
  OBVIOUS
<1> HIDE DEF snapshot, e
<1> QED
  BY <1>1, <1>2, <1>5, <1>6, <1>7 DEF Give, placed, act

LEMMA MissBegins ==
  ASSUME TypeOK, NEW s \in Threads, Miss(s)
  PROVE  /\ pc[s] = "locked" /\ ~Holds(key[s]) /\ resident' = resident
         /\ pc' = [pc EXCEPT ![s] = "accept"]
         /\ boot' = [boot EXCEPT ![s] = boot'[s]]
         /\ boot'[s].version = manifest[RootOf(s)].version
         /\ boot'[s].disturbed = "no"
         /\ UNCHANGED <<disk, key, current, given, anchor, via, header, placement, moved>>
  BY DEF Miss, BootBegun, RootOf, TypeOK, placed, act
LEMMA WriteKeeps ==
  ASSUME TypeOK, StandInv, NEW r \in Roots, Write(r)
  PROVE  /\ Noticed(r)
         /\ UNCHANGED <<pc, key, anchor, via, header, placement, rebuilds, target>>
         /\ \A t \in Threads : pc[t] \in Booting =>
               /\ boot[t] \in Boots
               /\ boot'[t] = IF RootOf(t) = r THEN [boot[t] EXCEPT !.disturbed = "during"] ELSE boot[t]
         /\ \A t \in Threads : pc[t] \in Served =>
               given'[t] = IF RootOf(t) = r THEN Since(given[t]) ELSE given[t]
<1>1. Noticed(r)
  BY DEF Write, WriteManifest, WriteCanonical, WriteDomain
<1>2. ASSUME NEW t \in Threads
      PROVE  /\ pc[t] \in Booting => boot[t] \in Boots /\ boot[t] # None
             /\ pc[t] \in Served => given[t] # None
  BY RecordAssumption DEF StandInv
<1> QED
  BY <1>1, <1>2 DEF Noticed, RootOf, act

\* What else the steps around the calls leave alone.
LEMMA AroundKeeps ==
  ASSUME ChangeAnchor \/ (\E r \in Roots : BeginRebuild(r) \/ AbandonRebuild(r)) \/ UNCHANGED vars
  PROVE  UNCHANGED <<manifest, table, recorded, canonical, resident, pc, key, boot, current, given,
                     placement, moved, via, header>>
  BY DEF ChangeAnchor, BeginRebuild, AbandonRebuild, vars, disk, call, placed, act

LEMMA NextOnce ==
  ASSUME TypeOK, StandInv, OnceInv, [Next]_vars
  PROVE  OnceInv'
<1> DEFINE Same == /\ DOMAIN resident' = DOMAIN resident
                   /\ \A i \in DOMAIN resident : resident'[i].key = resident[i].key
<1>1. ASSUME Same, \A t \in Threads : pc'[t] \in Booting => pc[t] \in Booting /\ key'[t] = key[t]
      PROVE  OnceInv'
  BY <1>1 DEF OnceInv, Holds
<1>2. ASSUME NEW s \in Threads, ThreadStep(s)
      PROVE  OnceInv'
  <2>1. \A t \in Threads : pc'[t] \in Booting =>
           key'[t] = key[t] /\ (t # s => pc[t] \in Booting)
    BY <1>2, KeyKept DEF Booting, InCall
  <2>2. CASE Hit(s)
    <3>1. resident' = resident /\ pc'[s] \notin Booting
      BY <2>2, HitGives DEF TypeOK, Booting
    <3> QED
      BY <1>1, <2>1, <3>1
  <2>3. CASE Miss(s)
    <3>1. pc[s] = "locked" /\ ~Holds(key[s]) /\ resident' = resident
      BY <2>3, MissBegins
    <3>2. \A t \in Threads : pc'[t] \in Booting => t = s
      BY <2>1, <3>1, OneBoots
    <3> QED
      BY <2>1, <3>1, <3>2 DEF OnceInv, Holds
  <2>4. CASE Keep(s)
    <3>1. PICK e \in Entries, dropped \in {0, 1} :
             /\ e.key = key[s] /\ pc[s] = "load" /\ pc' = [pc EXCEPT ![s] = "given"]
             /\ resident' \in Seq(Entries)
             /\ \A i \in DOMAIN resident' :
                   IF i = Len(resident') THEN resident'[i] = e
                   ELSE i + dropped \in DOMAIN resident /\ resident'[i] = resident[i + dropped]
      BY <2>4, KeepGives
    <3>2. \A t \in Threads : pc'[t] \notin Booting
      BY <2>1, <3>1, OneBoots DEF TypeOK, Booting
    <3>3. ~Holds(key[s])
      BY <3>1 DEF OnceInv, Booting
    <3>4. ASSUME NEW i \in DOMAIN resident', NEW j \in DOMAIN resident',
                 resident'[i].key = resident'[j].key
          PROVE  i = j
      <4>1. DOMAIN resident' \subseteq Nat
        BY <3>1, LenProperties
      <4>2. CASE i = Len(resident') \/ j = Len(resident')
        BY <3>1, <3>3, <3>4, <4>2 DEF Holds
      <4>3. CASE i # Len(resident') /\ j # Len(resident')
        <5>1. i + dropped = j + dropped
          BY <3>1, <3>4, <4>3 DEF OnceInv
        <5> QED
          BY <4>1, <5>1
      <4> QED
        BY <4>2, <4>3
    <3> QED
      BY <3>2, <3>4 DEF OnceInv
  <2>5. CASE ~Hit(s) /\ ~Miss(s) /\ ~Keep(s)
    <3>1. resident' = resident /\ (pc'[s] \in Booting => pc[s] \in Booting)
      BY <1>2, <2>5, StoreKept
    <3> QED
      BY <1>1, <2>1, <3>1
  <2> QED
    BY <2>2, <2>3, <2>4, <2>5
<1>3. ASSUME NEW r \in Roots, Write(r)
      PROVE  OnceInv'
  <2>1. Same
    BY <1>3, WriteKeeps, NoticedStore
  <2> QED
    BY <1>1, <1>3, <2>1, WriteKeeps
<1>4. CASE ChangeAnchor \/ (\E r \in Roots : BeginRebuild(r) \/ AbandonRebuild(r)) \/ UNCHANGED vars
  BY <1>1, <1>4, AroundKeeps
<1> QED
  BY <1>2, <1>3, <1>4, NextSteps DEF ThreadStep

LEMMA NextStamp ==
  ASSUME TypeOK, StampInv, [Next]_vars
  PROVE  StampInv'
<1>1. ASSUME NEW s \in Threads, ThreadStep(s)
      PROVE  StampInv'
  BY <1>1, KeyKept DEF StampInv, disk
<1>2. rebuilds \in Nat /\ \A r \in Roots : manifest[r].stamp \in Nat /\ pending[r] \in SUBSET Files
  BY ResidentAssumption DEF TypeOK
<1>3. ASSUME NEW r \in Roots, WriteManifest(r)
      PROVE  StampInv'
  BY <1>2, <1>3 DEF WriteManifest, Noticed, StampInv, TypeOK
<1>4. ASSUME NEW r \in Roots, WriteCanonical(r) \/ \E d \in Domains : WriteDomain(r, d)
      PROVE  StampInv'
  <2>1. UNCHANGED <<manifest, rebuilds>>
    BY <1>4 DEF WriteCanonical, WriteDomain, Noticed
  <2>2. \E x : pending' = [pending EXCEPT ![r] = @ \ {x}]
    BY <1>4 DEF WriteCanonical, WriteDomain
  <2>3. \A q \in Roots : pending'[q] \subseteq pending[q]
    BY <2>2 DEF TypeOK
  <2> QED
    BY <2>1, <2>3 DEF StampInv
<1>5. ASSUME NEW r \in Roots, BeginRebuild(r)
      PROVE  StampInv'
  BY <1>2, <1>5 DEF BeginRebuild, StampInv, TypeOK
<1>6. ASSUME NEW r \in Roots, AbandonRebuild(r)
      PROVE  StampInv'
  BY <1>2, <1>6 DEF AbandonRebuild, StampInv, TypeOK
<1>7. CASE ChangeAnchor \/ UNCHANGED vars
  BY <1>7 DEF ChangeAnchor, vars, disk, StampInv
<1> QED
  BY <1>1, <1>3, <1>4, <1>5, <1>6, <1>7, NextSteps DEF ThreadStep, Write

-----------------------------------------------------------------------------
(***************************************************************************)
(* Versions and keys.                                                      *)
(***************************************************************************)
LEMMA EntryType ==
  ASSUME TypeOK, NEW i \in DOMAIN resident
  PROVE  resident[i] \in Entries /\ resident[i].key.root \in Roots
<1>1. resident \in Seq(Entries)
  BY DEF TypeOK, Entries
<1>2. resident[i] \in Entries
  BY <1>1, LenProperties, ElementOfSeq
<1> QED
  BY <1>2 DEF Entries, Keys

\* What a version stands for survives the steps of threads,
StandsForNext(v, k) ==
    /\ k.stamp <= manifest'[k.root].stamp
    /\ k.stamp = manifest'[k.root].stamp => v = manifest'[k.root].version
    /\ \A t \in Threads : pc'[t] \notin {"idle", "placed"} /\ key'[t] = k => v \in current'[t]

LEMMA StandsForThread ==
  ASSUME TypeOK, NEW s \in Threads, ThreadStep(s), NEW v, NEW k \in Keys, StandsFor(v, k)
  PROVE  StandsForNext(v, k)
<1>1. UNCHANGED manifest
  BY KeyKept DEF disk
<1>2. ASSUME NEW t \in Threads, pc'[t] \notin {"idle", "placed"}, key'[t] = k
      PROVE  v \in current'[t]
  <2>1. CASE InCall(t) /\ key'[t] = key[t] /\ current'[t] = current[t]
    BY <1>2, <2>1 DEF StandsFor
  <2>2. CASE /\ key'[t].stamp = manifest[key'[t].root].stamp
             /\ current'[t] = {manifest[key'[t].root].version}
    BY <1>2, <2>2 DEF StandsFor
  <2> QED
    BY <1>2, <2>1, <2>2, KeyKept DEF InCall
<1> QED
  BY <1>1, <1>2 DEF StandsFor, StandsForNext

\* and of rebuilds, which give a manifest they rewrite a new file status.
LEMMA StandsForWrite ==
  ASSUME TypeOK, StandInv, StampInv, NEW r \in Roots, Write(r), NEW v, NEW k \in Keys, StandsFor(v, k)
  PROVE  StandsForNext(v, k)
<1>1. \A t \in Threads : pc'[t] = pc[t] /\ key'[t] = key[t] /\ current[t] \subseteq current'[t]
  <2>1. UNCHANGED <<pc, key>> /\ Noticed(r)
    BY WriteKeeps
  <2> QED
    BY <2>1 DEF Noticed
<1>2. CASE WriteManifest(r)
  <2>1. manifest[r].stamp < rebuilds /\ manifest[r].stamp \in Nat /\ rebuilds \in Nat
    BY <1>2, ResidentAssumption DEF WriteManifest, StampInv, TypeOK
  <2>2. \A q \in Roots : manifest'[q] = IF q = r THEN [version |-> target[r], stamp |-> rebuilds]
                                        ELSE manifest[q]
    BY <1>2 DEF WriteManifest, TypeOK
  <2>3. k.root \in Roots /\ k.stamp \in Nat
    BY DEF Keys
  <2> QED
    BY <1>1, <2>1, <2>2, <2>3 DEF StandsFor, StandsForNext, InCall
<1>3. CASE WriteCanonical(r) \/ \E d \in Domains : WriteDomain(r, d)
  <2>1. UNCHANGED manifest
    BY <1>3 DEF WriteCanonical, WriteDomain
  <2> QED
    BY <1>1, <2>1 DEF StandsFor, StandsForNext, InCall
<1> QED
  BY <1>2, <1>3 DEF Write

LEMMA ThreadNamed ==
  ASSUME TypeOK, StandInv, NamedInv, NEW s \in Threads, ThreadStep(s)
  PROVE  NamedInv'
<1>1. UNCHANGED manifest
  BY KeyKept DEF disk
<1>2. ASSUME NEW t \in Threads, InCall(t)'
      PROVE  /\ manifest'[key'[t].root].version \in current'[t]
             /\ key'[t].stamp <= manifest'[key'[t].root].stamp
  <2>1. CASE InCall(t) /\ key'[t] = key[t] /\ current'[t] = current[t]
    BY <1>1, <2>1 DEF NamedInv, RootOf
  <2>2. CASE /\ key'[t].root \in Roots /\ key'[t].stamp = manifest[key'[t].root].stamp
             /\ current'[t] = {manifest[key'[t].root].version}
    BY <1>1, <2>2 DEF TypeOK
  <2> QED
    BY <1>2, <2>1, <2>2, KeyKept DEF InCall
<1>3. ASSUME NEW t \in Threads, pc'[t] \in Booting \cup Served
      PROVE  key'[t] = key[t] /\ current'[t] = current[t] /\ InCall(t) /\ (t # s => pc'[t] = pc[t])
  BY <1>3, KeyKept DEF InCall, Booting, Served
<1>4. ASSUME NEW i \in DOMAIN resident
      PROVE  StandsForNext(resident[i].snapshot.id, resident[i].key)
  <2>1. resident[i].key \in Keys
    BY EntryType DEF Entries
  <2>2. StandsFor(resident[i].snapshot.id, resident[i].key)
    BY DEF NamedInv
  <2> QED
    BY <2>1, <2>2, StandsForThread
<1>5. ASSUME NEW t \in Threads, pc[t] \in Booting
      PROVE  StandsForNext(boot[t].version, key[t])
  <2>1. key[t] \in Keys
    BY DEF TypeOK
  <2>2. StandsFor(boot[t].version, key[t])
    BY <1>5 DEF NamedInv
  <2> QED
    BY <2>1, <2>2, StandsForThread
<1> DEFINE Kept == \A i \in DOMAIN resident' : StandsForNext(resident'[i].snapshot.id, resident'[i].key)
           Booted == \A t \in Threads : pc'[t] \in Booting => StandsForNext(boot'[t].version, key'[t])
           Told == \A t \in Threads : pc'[t] \in Served => given'[t].id \in current'[t]
<1>6. ASSUME Kept, Booted, Told
      PROVE  NamedInv'
  BY <1>2, <1>6 DEF NamedInv, StandsFor, StandsForNext, InCall, RootOf
<1>7. CASE Hit(s)
  <2>1. PICK i \in DOMAIN resident :
           /\ pc[s] = "locked" /\ resident' = resident /\ boot' = [boot EXCEPT ![s] = None]
           /\ resident[i].key = key[s] /\ given' = [given EXCEPT ![s] = resident[i].snapshot]
           /\ pc' = [pc EXCEPT ![s] = "given"]
    BY <1>7, HitGives
  <2>2. resident[i].snapshot.id \in current[s]
    BY <2>1 DEF NamedInv, StandsFor, InCall
  <2>3. Kept
    BY <1>4, <2>1
  <2>4. Booted
    BY <1>3, <1>5, <2>1 DEF TypeOK, Booting
  <2>5. Told
    BY <1>3, <2>1, <2>2 DEF TypeOK, NamedInv
  <2> QED
    BY <1>6, <2>3, <2>4, <2>5
<1>8. CASE Miss(s)
  <2>1. /\ pc[s] = "locked" /\ resident' = resident /\ UNCHANGED <<given, key, current>>
        /\ pc' = [pc EXCEPT ![s] = "accept"]
        /\ boot' = [boot EXCEPT ![s] = boot'[s]]
        /\ boot'[s].version = manifest[RootOf(s)].version
    BY <1>8, MissBegins
  <2>2. StandsFor(manifest[RootOf(s)].version, key[s])
    BY <2>1 DEF NamedInv, StandsFor, InCall, RootOf
  <2>3. StandsForNext(manifest[RootOf(s)].version, key[s])
    BY <2>2, StandsForThread DEF TypeOK
  <2>4. Kept
    BY <1>4, <2>1
  <2>5. Booted
    BY <1>3, <1>5, <2>1, <2>3 DEF TypeOK
  <2>6. Told
    BY <1>3, <2>1 DEF TypeOK, NamedInv, Served
  <2> QED
    BY <1>6, <2>4, <2>5, <2>6
<1>9. CASE Keep(s)
  <2>1. PICK e \in Entries, dropped \in {0, 1} :
           /\ e.key = key[s] /\ e.snapshot.id = boot[s].version
           /\ pc[s] = "load" /\ pc' = [pc EXCEPT ![s] = "given"]
           /\ given' = [given EXCEPT ![s] = e.snapshot]
           /\ boot' = [boot EXCEPT ![s] = None]
           /\ resident' \in Seq(Entries)
           /\ \A i \in DOMAIN resident' :
                 IF i = Len(resident') THEN resident'[i] = e
                 ELSE i + dropped \in DOMAIN resident /\ resident'[i] = resident[i + dropped]
    BY <1>9, KeepGives
  <2>2. boot[s].version \in current[s] /\ StandsForNext(boot[s].version, key[s])
    <3>1. pc[s] \in Booting /\ InCall(s)
      BY <2>1 DEF Booting, InCall
    <3> QED
      BY <1>5, <3>1 DEF NamedInv, StandsFor
  <2>3. Kept
    BY <1>4, <2>1, <2>2
  <2>4. Booted
    BY <1>3, <1>5, <2>1 DEF TypeOK, Booting
  <2>5. Told
    BY <1>3, <2>1, <2>2 DEF TypeOK, NamedInv
  <2> QED
    BY <1>6, <2>3, <2>4, <2>5
<1>10. CASE ~Hit(s) /\ ~Miss(s) /\ ~Keep(s)
  <2>1. /\ resident' = resident
        /\ \A t \in Threads \ {s} : boot'[t] = boot[t] /\ given'[t] = given[t]
        /\ pc'[s] \in Booting => pc[s] \in Booting /\ boot'[s].version = boot[s].version
        /\ pc'[s] \in Served => pc[s] \in Served /\ given'[s] = given[s]
    BY <1>10, StoreKept
  <2>2. Kept
    BY <1>4, <2>1
  <2>3. Booted
    BY <1>3, <1>5, <2>1
  <2>4. Told
    BY <1>3, <2>1 DEF NamedInv
  <2> QED
    BY <1>6, <2>2, <2>3, <2>4
<1> QED
  BY <1>7, <1>8, <1>9, <1>10

LEMMA NextNamed ==
  ASSUME TypeOK, StandInv, StampInv, NamedInv, [Next]_vars
  PROVE  NamedInv'
<1>1. ASSUME NEW s \in Threads, ThreadStep(s)
      PROVE  NamedInv'
  BY <1>1, ThreadNamed
<1>2. ASSUME NEW r \in Roots, Write(r)
      PROVE  NamedInv'
  <2>1. /\ UNCHANGED <<pc, key>> /\ Noticed(r)
        /\ \A t \in Threads : pc[t] \in Booting => boot'[t].version = boot[t].version
        /\ \A t \in Threads : pc[t] \in Served => given'[t].id = given[t].id
    <3>1. \A t \in Threads : pc[t] \in Booting =>
             boot[t] \in Boots /\ [boot[t] EXCEPT !.disturbed = "during"].version = boot[t].version
      BY DEF StandInv, Boots
    <3>2. \A t \in Threads : pc[t] \in Served => given[t] \in Snapshots /\ Since(given[t]).id = given[t].id
      BY SinceType DEF StandInv
    <3> QED
      BY <1>2, <3>1, <3>2, WriteKeeps
  <2>2. /\ DOMAIN resident' = DOMAIN resident
        /\ \A i \in DOMAIN resident :
              resident'[i].key = resident[i].key /\ resident'[i].snapshot.id = resident[i].snapshot.id
    <3>1. \A i \in DOMAIN resident : resident[i].snapshot \in Snapshots
      BY EntryType DEF Entries
    <3> QED
      BY <1>2, <3>1, WriteKeeps, NoticedStore, SinceType
  <2>3. \A t \in Threads :
           current'[t] = IF InCall(t) /\ key[t].root = r
                         THEN current[t] \cup {manifest'[r].version} ELSE current[t]
    BY <2>1 DEF Noticed, InCall
  <2>4. \A q \in Roots \ {r} : manifest'[q] = manifest[q]
    BY <1>2 DEF Write, WriteManifest, WriteCanonical, WriteDomain, TypeOK
  <2>5. manifest[r].stamp <= manifest'[r].stamp
    <3>1. manifest[r].stamp \in Nat /\ rebuilds \in Nat
      BY ResidentAssumption DEF TypeOK
    <3>2. CASE WriteManifest(r)
      BY <3>1, <3>2 DEF WriteManifest, StampInv, TypeOK
    <3>3. CASE UNCHANGED manifest
      BY <3>1, <3>3
    <3> QED
      BY <1>2, <3>2, <3>3 DEF Write, WriteCanonical, WriteDomain
  <2>6. ASSUME NEW t \in Threads, InCall(t)
        PROVE  /\ manifest'[key[t].root].version \in current'[t]
               /\ key[t].stamp <= manifest'[key[t].root].stamp
    <3>1. key[t].root \in Roots /\ key[t].stamp \in Nat
      BY DEF TypeOK, Keys
    <3>2. /\ manifest[key[t].root].version \in current[t]
          /\ key[t].stamp <= manifest[key[t].root].stamp
      BY <2>6 DEF NamedInv, RootOf
    <3>3. manifest[r].stamp \in Nat /\ manifest'[r].stamp \in Nat
      BY NextType, <1>2, NextSteps DEF TypeOK
    <3>4. CASE key[t].root = r
      <4>1. manifest'[r].version \in current'[t]
        BY <2>3, <2>6, <3>4
      <4>2. key[t].stamp <= manifest[r].stamp
        BY <3>2, <3>4
      <4>3. key[t].stamp <= manifest'[r].stamp
        BY <2>5, <3>1, <3>3, <4>2
      <4> QED
        BY <3>4, <4>1, <4>3
    <3>5. CASE key[t].root # r
      BY <2>3, <2>4, <3>1, <3>2, <3>5
    <3> QED
      BY <3>4, <3>5
  <2>7. \A i \in DOMAIN resident : StandsForNext(resident[i].snapshot.id, resident[i].key)
    <3>1. \A i \in DOMAIN resident : /\ resident[i].key \in Keys
                                   /\ StandsFor(resident[i].snapshot.id, resident[i].key)
      BY EntryType DEF Entries, NamedInv
    <3> QED
      BY <1>2, <3>1, StandsForWrite
  <2>8. \A t \in Threads : pc[t] \in Booting => StandsForNext(boot[t].version, key[t])
    <3>1. \A t \in Threads : pc[t] \in Booting => key[t] \in Keys /\ StandsFor(boot[t].version, key[t])
      BY DEF TypeOK, NamedInv
    <3> QED
      BY <1>2, <3>1, StandsForWrite
  <2>9. \A i \in DOMAIN resident' : StandsForNext(resident'[i].snapshot.id, resident'[i].key)
    BY <2>2, <2>7
  <2>10. \A t \in Threads : pc'[t] \in Booting => StandsForNext(boot'[t].version, key'[t])
    BY <2>1, <2>8
  <2>11. \A t \in Threads : pc'[t] \in Served => given'[t].id \in current'[t]
    BY <2>1, <2>3 DEF NamedInv
  <2>12. \A t \in Threads : InCall(t)' => /\ manifest'[key'[t].root].version \in current'[t]
                                         /\ key'[t].stamp <= manifest'[key'[t].root].stamp
    BY <2>1, <2>6 DEF InCall
  <2> QED
    BY <2>9, <2>10, <2>11, <2>12 DEF NamedInv, StandsFor, StandsForNext, InCall, RootOf
<1>3. CASE ChangeAnchor \/ (\E r \in Roots : BeginRebuild(r) \/ AbandonRebuild(r)) \/ UNCHANGED vars
  BY <1>3, AroundKeeps DEF NamedInv, StandsFor, InCall, RootOf
<1> QED
  BY <1>1, <1>2, <1>3, NextSteps DEF ThreadStep
-----------------------------------------------------------------------------
(***************************************************************************)
(* What is signed.                                                         *)
(***************************************************************************)
LEMMA NextSigned ==
  ASSUME TypeOK, StandInv, SignedInv, [Next]_vars
  PROVE  SignedInv'
<1>1. ASSUME NEW s \in Threads, ThreadStep(s)
      PROVE  SignedInv'
  <2>1. UNCHANGED anchor /\ \A t \in Threads \ {s} : pc'[t] = pc[t]
    BY <1>1, KeyKept
  <2>2. CASE Hit(s)
    BY <2>2, HitGives DEF SignedInv, TypeOK
  <2>3. CASE Miss(s)
    BY <2>3, MissBegins DEF SignedInv, TypeOK
  <2>4. CASE Keep(s)
    <3>1. PICK e \in Entries, dropped \in {0, 1} :
             /\ e.key = key[s] /\ e.snapshot.id = boot[s].version
             /\ pc[s] = "load" /\ pc' = [pc EXCEPT ![s] = "given"]
             /\ boot' = [boot EXCEPT ![s] = None]
             /\ \A i \in DOMAIN resident' :
                   IF i = Len(resident') THEN resident'[i] = e
                   ELSE i + dropped \in DOMAIN resident /\ resident'[i] = resident[i + dropped]
      BY <2>4, KeepGives
    <3>2. e.key.anchor = "held" => e.snapshot.id \in Signed
      BY <3>1 DEF StandInv, SignedInv, InCall
    <3>3. ASSUME NEW i \in DOMAIN resident', resident'[i].key.anchor = "held"
          PROVE  resident'[i].snapshot.id \in Signed
      BY <3>1, <3>2, <3>3 DEF SignedInv
    <3>4. \A t \in Threads : pc'[t] = "load" => pc[t] = "load" /\ boot'[t] = boot[t]
      BY <2>1, <3>1 DEF TypeOK
    <3> QED
      BY <2>1, <3>3, <3>4 DEF SignedInv
  <2>5. CASE ~Hit(s) /\ ~Miss(s) /\ ~Keep(s)
    <3>1. /\ resident' = resident /\ \A t \in Threads \ {s} : boot'[t] = boot[t]
          /\ pc'[s] \in Booting => pc[s] \in Booting /\ boot'[s].version = boot[s].version
      BY <1>1, <2>5, StoreKept
    <3>2. CASE Authenticate(s)
      <4>1. anchor = "held" => boot[s].version \in Signed
        BY <3>2 DEF Authenticate, Authentic
      <4>2. pc'[s] \in Booting
        BY <3>2 DEF Authenticate, Goes, TypeOK, Booting
      <4> QED
        BY <2>1, <3>1, <4>1, <4>2 DEF SignedInv
    <3>3. CASE ~Authenticate(s)
      <4>1. pc'[s] = "load" => pc[s] = "load"
        BY <1>1, <2>5, <3>3
           DEF ThreadStep, Invoking, ReadPlacement, PassOverPlacement, KnowPlacement, Place,
               NoCoordinator, NoClassification, Return, Ends, Over, OpenTrace, Submit, Stat, Ask,
               Acquire, Holding, Accept, Verify, LoadTables, LoadRecord, Goes, Refuse, TypeOK
      <4>2. pc'[s] = "load" => boot'[s].version = boot[s].version
        BY <3>1 DEF Booting
      <4> QED
        BY <2>1, <3>1, <4>1, <4>2 DEF SignedInv
    <3> QED
      BY <3>2, <3>3
  <2> QED
    BY <2>2, <2>3, <2>4, <2>5
<1>2. ASSUME NEW r \in Roots, Write(r)
      PROVE  SignedInv'
  <2>1. \A t \in Threads : pc[t] = "load" => boot'[t].version = boot[t].version
    <3>1. \A t \in Threads : pc[t] = "load" =>
             /\ pc[t] \in Booting /\ boot[t] \in Boots
             /\ [boot[t] EXCEPT !.disturbed = "during"].version = boot[t].version
      BY DEF StandInv, Boots, Booting
    <3> QED
      BY <1>2, <3>1, WriteKeeps
  <2>2. /\ DOMAIN resident' = DOMAIN resident
        /\ \A i \in DOMAIN resident :
              resident'[i].key = resident[i].key /\ resident'[i].snapshot.id = resident[i].snapshot.id
    <3>1. \A i \in DOMAIN resident : resident[i].snapshot \in Snapshots
      BY EntryType DEF Entries
    <3> QED
      BY <1>2, <3>1, WriteKeeps, NoticedStore, SinceType
  <2> QED
    BY <1>2, <2>1, <2>2, WriteKeeps DEF SignedInv
<1>3. CASE ChangeAnchor
  BY <1>3, AroundKeeps DEF ChangeAnchor, SignedInv
<1>4. CASE (\E r \in Roots : BeginRebuild(r) \/ AbandonRebuild(r)) \/ UNCHANGED vars
  BY <1>4 DEF BeginRebuild, AbandonRebuild, vars, call, SignedInv
<1> QED
  BY <1>1, <1>2, <1>3, <1>4, NextSteps DEF ThreadStep

-----------------------------------------------------------------------------
(***************************************************************************)
(* What is whole.                                                          *)
(***************************************************************************)
\* What a thread's own boot, undisturbed, has compared after each step of it.
LEMMA OwnBoot ==
  ASSUME TypeOK, StandInv, NEW s \in Threads, ThreadStep(s), ~Hit(s), ~Miss(s), ~Keep(s),
         pc'[s] \in Booting, boot[s].disturbed = "no", BootOK(s)
  PROVE  BootOK(s)'
<1>1. pc[s] \in Booting /\ boot[s] \in Boots
  BY StoreKept DEF StandInv
<1>2. /\ UNCHANGED <<manifest, table, recorded, canonical>> /\ key'[s] = key[s]
  BY KeyKept DEF disk, InCall, Booting
<1>3. RootOf(s) \in Roots /\ boot[s].version \in Versions /\ boot[s].todo \subseteq Constituents
      /\ DOMAIN boot[s].loaded = Domains
  BY <1>1 DEF TypeOK, Keys, RootOf, Boots, Loaded
<1>4. CASE Accept(s)
  <2>1. pc[s] = "accept" /\ pc'[s] = "verify" /\ boot'[s] = [boot[s] EXCEPT !.claimed = manifest[RootOf(s)].version]
    BY <1>4 DEF Accept, Goes, TypeOK, RootOf
  <2>2. /\ boot'[s].version = boot[s].version /\ boot'[s].claimed = manifest[RootOf(s)].version
        /\ boot'[s].todo = boot[s].todo
    BY <1>1, <2>1 DEF Boots
  <2>3. boot[s].todo = Constituents
    BY <2>1 DEF BootOK
  <2> QED
    BY <1>2, <2>1, <2>2, <2>3 DEF BootOK, RootOf
<1>5. CASE Verify(s)
  <2>1. PICK d \in boot[s].todo : AsClaimed(s, d) /\ boot'[s] = [boot[s] EXCEPT !.todo = @ \ {d}]
    BY <1>5 DEF Verify, Goes, TypeOK
  <2>2. pc[s] = "verify" /\ pc'[s] = "verify"
    BY <1>5 DEF Verify, Goes, TypeOK
  <2>3. /\ boot'[s].version = boot[s].version /\ boot'[s].claimed = boot[s].claimed
        /\ boot'[s].todo = boot[s].todo \ {d}
    BY <1>1, <2>1 DEF Boots
  <2>4. \A x \in Constituents \ boot'[s].todo : AsClaimed(s, x)
    BY <2>1, <2>2, <2>3 DEF BootOK
  <2>5. \A x \in Constituents \ boot'[s].todo : AsClaimed(s, x)'
    BY <1>2, <2>3, <2>4 DEF AsClaimed
  <2>6. boot'[s].loaded = boot[s].loaded
    BY <1>1, <2>1 DEF Boots
  <2> QED
    BY <1>2, <2>2, <2>3, <2>5, <2>6 DEF BootOK, RootOf
<1>6. CASE Authenticate(s)
  <2>1. pc[s] = "verify" /\ boot[s].todo = {} /\ pc'[s] = "load" /\ boot'[s] = [boot[s] EXCEPT !.todo = Domains]
    BY <1>6 DEF Authenticate, Goes, TypeOK
  <2>2. /\ boot'[s].version = boot[s].version /\ boot'[s].claimed = boot[s].claimed
        /\ boot'[s].todo = Domains /\ boot'[s].loaded = boot[s].loaded
    BY <1>1, <2>1 DEF Boots
  <2>3. \A d \in Domains : boot[s].loaded[d] = None
    BY <2>1 DEF BootOK
  <2>4. \A x \in Constituents : AsClaimed(s, x)
    BY <2>1 DEF BootOK
  <2> QED
    BY <1>2, <2>1, <2>2, <2>3, <2>4 DEF BootOK, RootOf, AsClaimed
<1>7. CASE LoadTables(s)
  <2>1. PICK d \in boot[s].todo : boot'[s] = [boot[s] EXCEPT !.loaded[d] = table[RootOf(s)][d]]
    BY <1>7 DEF LoadTables, Goes, TypeOK, RootOf
  <2>2. pc[s] = "load" /\ pc'[s] = "load" /\ d \in Domains
    BY <1>7 DEF LoadTables, Goes, TypeOK, StandInv
  <2>3. /\ boot'[s].version = boot[s].version /\ boot'[s].claimed = boot[s].claimed
        /\ boot'[s].todo = boot[s].todo
        /\ boot'[s].loaded = [boot[s].loaded EXCEPT ![d] = table[RootOf(s)][d]]
    BY <1>1, <2>1 DEF Boots
  <2>4. \A x \in Constituents : AsClaimed(s, x)
    BY <2>2 DEF BootOK
  <2>5. table[RootOf(s)][d] = Seal[boot[s].version][d]
    <3>1. AsClaimed(s, d) /\ d # "canonical" /\ boot[s].claimed = boot[s].version
      BY <2>2, <2>4, ResidentAssumption DEF BootOK, Constituents
    <3> QED
      BY <3>1 DEF AsClaimed, RootOf
  <2>6. ASSUME NEW x \in Domains, x \notin boot'[s].todo \/ boot'[s].loaded[x] # None
        PROVE  boot'[s].loaded[x] = Seal[boot'[s].version][x]
    <3>1. CASE x = d
      BY <1>3, <2>2, <2>3, <2>5, <3>1
    <3>2. CASE x # d
      BY <1>3, <2>2, <2>3, <2>6, <3>2 DEF BootOK
    <3> QED
      BY <3>1, <3>2
  <2>7. boot[s].version = manifest[RootOf(s)].version /\ boot[s].claimed = boot[s].version
    BY <2>2 DEF BootOK
  <2>8. \A x \in Constituents : AsClaimed(s, x)'
    BY <1>2, <2>3, <2>4 DEF AsClaimed, RootOf
  <2> QED
    BY <1>2, <2>2, <2>3, <2>6, <2>7, <2>8 DEF BootOK, RootOf
<1>8. CASE LoadRecord(s)
  <2>1. PICK d \in HalfLoaded(s) : boot'[s] = [boot[s] EXCEPT !.todo = @ \ {d}]
    BY <1>8 DEF LoadRecord, Goes, TypeOK
  <2>2. pc[s] = "load" /\ pc'[s] = "load"
    BY <1>8 DEF LoadRecord, Goes, TypeOK
  <2>3. /\ boot'[s].version = boot[s].version /\ boot'[s].claimed = boot[s].claimed
        /\ boot'[s].todo = boot[s].todo \ {d} /\ boot'[s].loaded = boot[s].loaded
    BY <1>1, <2>1 DEF Boots
  <2>4. \A x \in Constituents : AsClaimed(s, x)'
    BY <1>2, <2>2, <2>3 DEF BootOK, AsClaimed, RootOf
  <2>5. boot[s].loaded[d] # None
    BY <2>1 DEF HalfLoaded
  <2>6. ASSUME NEW x \in Domains, x \notin boot'[s].todo \/ boot'[s].loaded[x] # None
        PROVE  boot'[s].loaded[x] = Seal[boot'[s].version][x]
    BY <2>2, <2>3, <2>5, <2>6 DEF BootOK
  <2>7. boot[s].version = manifest[RootOf(s)].version /\ boot[s].claimed = boot[s].version
    BY <2>2 DEF BootOK
  <2> QED
    BY <1>2, <2>2, <2>3, <2>4, <2>6, <2>7 DEF BootOK, RootOf
<1> QED
  BY <1>1, <1>4, <1>5, <1>6, <1>7, <1>8
     DEF ThreadStep, Invoking, ReadPlacement, PassOverPlacement, KnowPlacement, Place, NoCoordinator,
         NoClassification, Return, Ends, Over, OpenTrace, Submit, Stat, Ask, Acquire, Holding, Refuse,
         TypeOK, Booting
\* Acceptance and loading, undisturbed, leave a whole snapshot and its records.
LEMMA BootedWhole ==
  ASSUME TypeOK, StandInv, WholeInv, NEW s \in Threads, Keep(s), NEW e \in Entries,
         e.key = key[s], e.snapshot.id = boot[s].version, e.snapshot.tables = boot[s].loaded,
         e.snapshot.disturbed = boot[s].disturbed
  PROVE  SnapshotOK(e.snapshot, RootOf(s))
<1>1. pc[s] = "load" /\ boot[s].todo = {} /\ boot[s] \in Boots
  BY DEF Keep, StandInv, Booting
<1>2. CASE boot[s].disturbed = "during"
  BY <1>2 DEF SnapshotOK
<1>3. CASE boot[s].disturbed = "no"
  <2>1. BootOK(s)
    BY <1>1, <1>3 DEF WholeInv, Booting
  <2>2. AsClaimed(s, "canonical") /\ boot[s].claimed = boot[s].version
    BY <1>1, <2>1 DEF BootOK, Constituents
  <2>3. canonical[RootOf(s)] = boot[s].version
    BY <2>2 DEF AsClaimed, RootOf
  <2>4. \A d \in Domains : boot[s].loaded[d] = Seal[boot[s].version][d]
    BY <1>1, <2>1 DEF BootOK
  <2>5. boot[s].loaded \in [Domains -> Tables \cup {None}] /\ Seal[boot[s].version] \in [Domains -> Tables]
    BY <1>1, ResidentAssumption DEF Boots, Loaded
  <2>6. boot[s].loaded = Seal[boot[s].version]
    BY <2>4, <2>5
  <2> QED
    BY <2>3, <2>6 DEF SnapshotOK
<1> QED
  BY <1>1, <1>2, <1>3 DEF Boots

LEMMA ThreadWhole ==
  ASSUME TypeOK, StandInv, WholeInv, NEW s \in Threads, ThreadStep(s)
  PROVE  WholeInv'
<1>1. UNCHANGED <<manifest, table, recorded, canonical>>
  BY KeyKept DEF disk
<1>2. ASSUME NEW t \in Threads, pc'[t] \in Booting \cup Served
      PROVE  key'[t] = key[t] /\ (t # s => pc'[t] = pc[t])
  BY <1>2, KeyKept DEF InCall, Booting, Served
<1>3. ASSUME NEW t \in Threads \ {s}, pc[t] \in Booting, boot'[t] = boot[t],
             boot'[t].disturbed = "no"
      PROVE  BootOK(t)'
  <2>1. BootOK(t)
    BY <1>3 DEF WholeInv
  <2>2. pc'[t] = pc[t] /\ key'[t] = key[t]
    BY KeyKept
  <2> QED
    BY <1>1, <1>3, <2>1, <2>2 DEF BootOK, AsClaimed, RootOf
<1>4. ASSUME NEW snapshot, NEW r, SnapshotOK(snapshot, r)
      PROVE  /\ snapshot.disturbed # "during" => snapshot.tables = Seal[snapshot.id]
             /\ snapshot.disturbed = "no" => canonical'[r] = snapshot.id
  BY <1>1, <1>4 DEF SnapshotOK
<1> DEFINE Whole(snapshot, r) ==
             /\ snapshot.disturbed # "during" => snapshot.tables = Seal[snapshot.id]
             /\ snapshot.disturbed = "no" => canonical'[r] = snapshot.id
           Booted == \A t \in Threads : pc'[t] \in Booting /\ boot'[t].disturbed = "no" => BootOK(t)'
           Kept == \A i \in DOMAIN resident' : Whole(resident'[i].snapshot, resident'[i].key.root)
           Told == \A t \in Threads : pc'[t] \in Served =>
                      /\ Whole(given'[t], key'[t].root)
                      /\ given'[t].disturbed = "no" /\ header'[t] # None => header'[t] = given'[t].id
<1>5. ASSUME Booted, Kept, Told
      PROVE  WholeInv'
  BY <1>5 DEF WholeInv, SnapshotOK, RootOf
<1>6. \A i \in DOMAIN resident : Whole(resident[i].snapshot, resident[i].key.root)
  BY <1>4 DEF WholeInv
<1>7. ASSUME NEW t \in Threads \ {s}, pc'[t] \in Served, given'[t] = given[t], header'[t] = header[t]
      PROVE  /\ Whole(given'[t], key'[t].root)
             /\ given'[t].disturbed = "no" /\ header'[t] # None => header'[t] = given'[t].id
  <2>1. pc[t] \in Served /\ key'[t] = key[t]
    BY <1>2, <1>7
  <2> QED
    BY <1>4, <1>7, <2>1 DEF WholeInv, RootOf
<1> HIDE DEF Whole
<1>8. CASE Hit(s)
  <2>1. PICK i \in DOMAIN resident :
           /\ pc[s] = "locked" /\ resident' = resident /\ boot' = [boot EXCEPT ![s] = None]
           /\ resident[i].key = key[s] /\ given' = [given EXCEPT ![s] = resident[i].snapshot]
           /\ pc' = [pc EXCEPT ![s] = "given"]
           /\ UNCHANGED <<key, header>>
    BY <1>8, HitGives
  <2>2. Booted
    BY <1>2, <1>3, <2>1 DEF TypeOK, Booting
  <2>3. Kept
    BY <1>6, <2>1
  <2>4. header[s] = None
    BY <2>1 DEF StandInv
  <2>5. given'[s] = resident[i].snapshot /\ Whole(given'[s], key'[s].root)
    BY <1>6, <2>1 DEF TypeOK
  <2>6. Told
    BY <1>7, <2>1, <2>4, <2>5 DEF TypeOK
  <2> QED
    BY <1>5, <2>2, <2>3, <2>6
<1>9. CASE Keep(s)
  <2>1. PICK e \in Entries, dropped \in {0, 1} :
           /\ e.key = key[s] /\ e.snapshot.id = boot[s].version
           /\ e.snapshot.tables = boot[s].loaded /\ e.snapshot.disturbed = boot[s].disturbed
           /\ pc[s] = "load" /\ pc' = [pc EXCEPT ![s] = "given"]
           /\ given' = [given EXCEPT ![s] = e.snapshot]
           /\ boot' = [boot EXCEPT ![s] = None]
           /\ \A i \in DOMAIN resident' :
                 IF i = Len(resident') THEN resident'[i] = e
                 ELSE i + dropped \in DOMAIN resident /\ resident'[i] = resident[i + dropped]
           /\ UNCHANGED <<key, header>>
    BY <1>9, KeepGives
  <2>2. Whole(e.snapshot, key[s].root)
    BY <1>4, <1>9, <2>1, BootedWhole DEF RootOf, Whole
  <2>3. Booted
    BY <1>2, <1>3, <2>1 DEF TypeOK, Booting
  <2>4. Kept
    BY <1>6, <2>1, <2>2
  <2>5. header[s] = None
    BY <2>1 DEF StandInv
  <2>6. Told
    BY <1>7, <2>1, <2>2, <2>5 DEF TypeOK
  <2> QED
    BY <1>5, <2>3, <2>4, <2>6
<1>10. CASE Miss(s)
  <2>1. /\ pc[s] = "locked" /\ resident' = resident /\ UNCHANGED <<given, header>>
        /\ pc' = [pc EXCEPT ![s] = "accept"]
        /\ boot' = [boot EXCEPT ![s] = boot'[s]]
    BY <1>10, MissBegins
  <2>2. BootOK(s)'
    <3>1. /\ boot'[s].version = manifest[key[s].root].version
          /\ boot'[s].todo = Constituents /\ boot'[s].loaded = [d \in Domains |-> None]
          /\ pc'[s] = "accept" /\ UNCHANGED key
      BY <1>10 DEF Miss, BootBegun, TypeOK
    <3> QED
      BY <1>1, <3>1 DEF BootOK, RootOf
  <2>3. Booted
    BY <1>2, <1>3, <2>1, <2>2 DEF TypeOK
  <2>4. Kept
    BY <1>6, <2>1
  <2>5. Told
    BY <1>7, <2>1 DEF TypeOK, Served
  <2> QED
    BY <1>5, <2>3, <2>4, <2>5
<1>11. CASE ~Hit(s) /\ ~Miss(s) /\ ~Keep(s)
  <2>1. /\ resident' = resident
        /\ \A t \in Threads \ {s} : boot'[t] = boot[t] /\ given'[t] = given[t]
        /\ pc'[s] \in Booting =>
              pc[s] \in Booting /\ boot'[s].version = boot[s].version /\ boot'[s].disturbed = boot[s].disturbed
        /\ pc'[s] \in Served => pc[s] \in Served /\ given'[s] = given[s]
    BY <1>11, StoreKept
  <2>2. ASSUME pc'[s] \in Booting, boot'[s].disturbed = "no"
        PROVE  BootOK(s)'
    BY <1>11, <2>1, <2>2, OwnBoot DEF WholeInv
  <2>3. Booted
    BY <1>2, <1>3, <2>1, <2>2
  <2>4. Kept
    BY <1>6, <2>1
  <2>5. /\ \A t \in Threads \ {s} : header'[t] = header[t]
        /\ pc'[s] \in Served => header'[s] \in {header[s], canonical[key[s].root]}
    BY <1>11 DEF ThreadStep, Invoking, ReadPlacement, PassOverPlacement, KnowPlacement, Place,
                 NoCoordinator, NoClassification, Return, Ends, Over, OpenTrace, Submit, Stat, Ask,
                 Acquire, Holding, Accept, Verify, Authenticate, LoadTables, LoadRecord, Goes,
                 Refuse, TypeOK, Served, act
  <2>6. Told
    <3>1. ASSUME pc'[s] \in Served
          PROVE  /\ Whole(given'[s], key'[s].root)
                 /\ given'[s].disturbed = "no" /\ header'[s] # None => header'[s] = given'[s].id
      <4>1. pc[s] \in Served /\ given'[s] = given[s] /\ key'[s] = key[s]
        BY <1>2, <2>1, <3>1
      <4>2. Whole(given[s], key[s].root)
        BY <1>4, <4>1 DEF WholeInv, RootOf, Whole
      <4>3. /\ given[s].disturbed = "no" /\ header[s] # None => header[s] = given[s].id
            /\ given[s].disturbed = "no" => canonical[key[s].root] = given[s].id
        BY <4>1 DEF WholeInv, SnapshotOK, RootOf
      <4> QED
        BY <2>5, <3>1, <4>1, <4>2, <4>3
    <3> QED
      BY <1>7, <2>1, <2>5, <3>1
  <2> QED
    BY <1>5, <2>3, <2>4, <2>6
<1> QED
  BY <1>8, <1>9, <1>10, <1>11

LEMMA NextWhole ==
  ASSUME TypeOK, StandInv, WholeInv, [Next]_vars
  PROVE  WholeInv'
<1>1. ASSUME NEW s \in Threads, ThreadStep(s)
      PROVE  WholeInv'
  BY <1>1, ThreadWhole
<1>2. ASSUME NEW r \in Roots, Write(r)
      PROVE  WholeInv'
  <2>1. \A q \in Roots \ {r} :
           /\ manifest'[q] = manifest[q] /\ canonical'[q] = canonical[q]
           /\ table'[q] = table[q] /\ recorded'[q] = recorded[q]
    BY <1>2 DEF Write, WriteManifest, WriteCanonical, WriteDomain, TypeOK
  <2>2. UNCHANGED <<pc, key, header>>
    BY <1>2, WriteKeeps
  <2>3. ASSUME NEW t \in Threads, pc[t] \in Booting, boot'[t].disturbed = "no"
        PROVE  BootOK(t)'
    <3>1. RootOf(t) # r /\ boot'[t] = boot[t]
      <4>1. boot[t] \in Boots => [boot[t] EXCEPT !.disturbed = "during"].disturbed = "during"
        BY DEF Boots
      <4> QED
        BY <1>2, <2>3, <4>1, WriteKeeps
    <3>2. BootOK(t)
      BY <2>3, <3>1 DEF WholeInv
    <3>3. RootOf(t) \in Roots \ {r}
      BY <3>1 DEF TypeOK, Keys, RootOf
    <3> QED
      BY <2>1, <2>2, <3>1, <3>2, <3>3 DEF BootOK, AsClaimed, RootOf
  <2>4. ASSUME NEW i \in DOMAIN resident'
        PROVE  SnapshotOK(resident[i].snapshot, resident[i].key.root)'
    <3>1. /\ i \in DOMAIN resident
          /\ resident'[i].key.root = resident[i].key.root
          /\ resident'[i].snapshot = IF resident[i].key.root = r THEN Since(resident[i].snapshot)
                                     ELSE resident[i].snapshot
      BY <1>2, WriteKeeps, NoticedStore
    <3>2. resident[i].snapshot \in Snapshots /\ resident[i].key.root \in Roots
      BY <3>1, EntryType DEF Entries
    <3>3. SnapshotOK(resident[i].snapshot, resident[i].key.root)
      BY <3>1 DEF WholeInv
    <3> QED
      BY <2>1, <3>1, <3>2, <3>3, SinceType DEF SnapshotOK
  <2>5. ASSUME NEW t \in Threads, pc[t] \in Served
        PROVE  /\ SnapshotOK(given[t], RootOf(t))'
               /\ given'[t].disturbed = "no" /\ header'[t] # None => header'[t] = given'[t].id
    <3>1. /\ given'[t] = IF RootOf(t) = r THEN Since(given[t]) ELSE given[t]
          /\ given[t] \in Snapshots /\ RootOf(t) \in Roots
      BY <1>2, <2>5, WriteKeeps DEF StandInv, TypeOK, Keys, RootOf
    <3>2. /\ SnapshotOK(given[t], RootOf(t))
          /\ given[t].disturbed = "no" /\ header[t] # None => header[t] = given[t].id
      BY <2>5 DEF WholeInv
    <3> QED
      BY <2>1, <2>2, <3>1, <3>2, SinceType DEF SnapshotOK, RootOf
  <2> QED
    BY <2>2, <2>3, <2>4, <2>5 DEF WholeInv
<1>3. CASE ChangeAnchor \/ (\E r \in Roots : BeginRebuild(r) \/ AbandonRebuild(r)) \/ UNCHANGED vars
  BY <1>3, AroundKeeps DEF WholeInv, BootOK, SnapshotOK, AsClaimed, RootOf
<1> QED
  BY <1>1, <1>2, <1>3, NextSteps DEF ThreadStep
-----------------------------------------------------------------------------
(***************************************************************************)
(* What is known of placements.                                            *)
(***************************************************************************)
LEMMA NextPlaced ==
  ASSUME TypeOK, StandInv, PlacedInv, [Next]_vars
  PROVE  PlacedInv'
<1> USE DEF TypeOK, Keys, RootOf
<1>1. ASSUME NEW s \in Threads, ReadPlacement(s)
      PROVE  PlacedInv'
  <2>1. PICK r \in Roots :
           /\ placement[r] = "unread"
           /\ Place(s, r, IF canonical[r] \in Federated THEN "away" ELSE "here")
           /\ UNCHANGED moved
    BY <1>1 DEF ReadPlacement
  <2> QED
    BY <2>1 DEF Place, PlacedInv, disk
<1>2. ASSUME NEW s \in Threads, PassOverPlacement(s)
      PROVE  PlacedInv'
  BY <1>2 DEF PassOverPlacement, Place, PlacedInv, disk
<1>3. ASSUME NEW s \in Threads, KnowPlacement(s)
      PROVE  PlacedInv'
  BY <1>3 DEF KnowPlacement, Place, PlacedInv, disk
<1>4. ASSUME NEW s \in Threads, ThreadStep(s),
             ~ReadPlacement(s), ~PassOverPlacement(s), ~KnowPlacement(s)
      PROVE  PlacedInv'
  <2>1. UNCHANGED <<canonical, placement, moved>>
    BY <1>4 DEF ThreadStep, Invoking, NoCoordinator, NoClassification, Return, Ends, Over, OpenTrace,
                Submit, Stat, Ask, Acquire, Holding, Hit, Give, Miss, BootBegun, Accept, Verify,
                Authenticate, LoadTables, LoadRecord, Goes, Keep, Refuse, disk, placed
  <2>2. ASSUME NEW t \in Threads, via'[t] # "run"
        PROVE  via'[t] = via[t] /\ key'[t].root = key[t].root
    <3>1. CASE NoCoordinator(s) \/ NoClassification(s) \/ Return(s) \/ Refuse(s)
      BY <2>2, <3>1 DEF NoCoordinator, NoClassification, Return, Refuse, Ends, Over
    <3>2. CASE Stat(s)
      BY <2>2, <3>2 DEF Stat, Ask, StandInv, act
    <3>3. CASE OpenTrace(s) \/ Submit(s) \/ Acquire(s)
      BY <2>2, <3>3 DEF OpenTrace, Submit, Acquire, act
    <3>4. CASE Holding(s) /\ ~Refuse(s)
      BY <2>2, <3>4 DEF Holding, Hit, Give, Miss, BootBegun, Accept, Verify, Authenticate, LoadTables,
                        LoadRecord, Goes, Keep, act
    <3> QED
      BY <1>4, <3>1, <3>2, <3>3, <3>4 DEF ThreadStep, Invoking
  <2> QED
    BY <2>1, <2>2 DEF PlacedInv
<1>5. ASSUME NEW r \in Roots, Write(r)
      PROVE  PlacedInv'
  <2>1. UNCHANGED <<placement, via, key>> /\ Noticed(r)
    BY <1>5, WriteKeeps
  <2>2. \A q \in Roots \ {r} : canonical'[q] = canonical[q]
    BY <1>5 DEF Write, WriteManifest, WriteCanonical, WriteDomain
  <2>3. \A q \in Roots : moved'[q] = IF q = r THEN moved[r] \/ placement[r] # "unread" ELSE moved[q]
    BY <2>1 DEF Noticed
  <2> QED
    BY <2>1, <2>2, <2>3 DEF PlacedInv
<1>6. CASE ChangeAnchor \/ (\E r \in Roots : BeginRebuild(r) \/ AbandonRebuild(r)) \/ UNCHANGED vars
  BY <1>6, AroundKeeps DEF PlacedInv
<1> QED
  BY <1>1, <1>2, <1>3, <1>4, <1>5, <1>6, NextSteps DEF ThreadStep

-----------------------------------------------------------------------------
(***************************************************************************)
(* The theorems.                                                           *)
(***************************************************************************)
LEMMA InitIInv == Init => IInv
<1> SUFFICES ASSUME Init PROVE IInv
  OBVIOUS
<1>1. TypeOK
  BY InitType
<1>2. DOMAIN resident = {}
  BY DEF Init
<1>3. None \notin Threads
  BY ResidentAssumption
<1>4. StandInv
  BY <1>3 DEF Init, StandInv, Booting, Served, InCall
<1>5. OnceInv /\ SignedInv
  BY <1>2 DEF Init, OnceInv, SignedInv, Booting
<1>6. StampInv
  BY ResidentAssumption DEF Init, StampInv
<1>7. NamedInv /\ WholeInv
  BY <1>2 DEF Init, NamedInv, WholeInv, Booting, Served, InCall
<1>8. PlacedInv
  BY DEF Init, PlacedInv
<1> QED
  BY <1>1, <1>4, <1>5, <1>6, <1>7, <1>8 DEF IInv

\* The invariant holds of every state that can be reached.
THEOREM Invariance == Spec => []IInv
<1>1. IInv /\ [Next]_vars => IInv'
  BY NextType, NextStand, NextOnce, NextStamp, NextNamed, NextSigned, NextWhole, NextPlaced DEF IInv
<1> QED
  BY InitIInv, <1>1, PTL DEF Spec

\* Every variable keeps its type (api.resident, boot.boot, api.invoke_workflow).
THEOREM TypeCorrect == Spec => []TypeOK
<1>1. IInv => TypeOK
  BY DEF IInv
<1> QED
  BY Invariance, <1>1, PTL

\* "verified once per process and per manifest" (api.resident): however many
\* threads ask, boots take turns and no key is booted while it is resident.
THEOREM OneBootOfAKey == Spec => []BootedOnce
<1>1. IInv => BootedOnce
  BY DEF IInv, StandInv, OnceInv, BootedOnce, Booting
<1> QED
  BY Invariance, <1>1, PTL

\* What a call is given is a version its root's manifest has named since the call
\* began, also when it is a snapshot another call booted in between.
THEOREM GivenIsCurrent == Spec => []NeverOutdated
<1>1. IInv => NeverOutdated
  BY DEF IInv, StandInv, NamedInv, NeverOutdated
<1> QED
  BY Invariance, <1>1, PTL

\* A boot during which nobody wrote to its root leaves the snapshot its identity
\* names, whatever earlier rebuilds left there.
THEOREM UndisturbedIsWhole == Spec => []WholeUnlessDisturbed
<1>1. IInv => WholeUnlessDisturbed
  BY DEF IInv, WholeInv, SnapshotOK, WholeUnlessDisturbed
<1> QED
  BY Invariance, <1>1, PTL

\* The placement and the classification, read beside the boot (api._placement,
\* evidence.TraceWriter), belong to the snapshot booted unless the root was
\* written to.
THEOREM BesideTheBoot == Spec => []ReadBesideTheBoot
<1>1. ASSUME IInv, NEW t \in Threads, pc[t] = "acting", given[t].disturbed = "no"
      PROVE  /\ header[t] # None => header[t] = given[t].id
             /\ via[t] # "run" /\ ~moved[key[t].root] =>
                   (via[t] = "away" <=> given[t].id \in Federated)
  <2>1. /\ canonical[RootOf(t)] = given[t].id
        /\ header[t] # None => header[t] = given[t].id
    BY <1>1 DEF IInv, WholeInv, SnapshotOK, Served
  <2>2. ASSUME via[t] # "run", ~moved[key[t].root]
        PROVE  via[t] = "away" <=> canonical[RootOf(t)] \in Federated
    <3>1. RootOf(t) \in Roots /\ via[t] \in {"run", "here", "away"}
      BY <1>1 DEF IInv, TypeOK, Keys, RootOf
    <3>2. placement[RootOf(t)] = via[t]
      BY <1>1, <2>2 DEF IInv, PlacedInv
    <3> QED
      BY <1>1, <2>2, <3>1, <3>2 DEF IInv, PlacedInv, RootOf
  <2> QED
    BY <2>1, <2>2
<1>2. IInv => ReadBesideTheBoot
  BY <1>1 DEF ReadBesideTheBoot
<1> QED
  BY Invariance, <1>2, PTL

\* A node that holds an anchor is given only what is signed (boot.boot,
\* trust.authenticate): also from the store, which may have been filled before.
THEOREM SignedUnderAnchor == Spec => AuthenticUnderAnchor
<1> DEFINE Given(t) == given[t] = None /\ given'[t] # None /\ anchor = "held" =>
                          given'[t].id \in Signed
<1>1. ASSUME IInv, IInv', [Next]_vars, NEW t \in Threads
      PROVE  Given(t)
  <2> USE DEF IInv
  <2>1. ASSUME NEW s \in Threads, ThreadStep(s)
        PROVE  Given(t)
    <3>1. CASE Hit(s)
      <4>1. PICK i \in DOMAIN resident :
               /\ pc[s] = "locked" /\ resident[i].key = key[s]
               /\ given' = [given EXCEPT ![s] = resident[i].snapshot]
        BY <1>1, <3>1, HitGives
      <4>2. anchor = "held" => resident[i].snapshot.id \in Signed
        BY <1>1, <4>1 DEF StandInv, SignedInv, InCall
      <4> QED
        BY <1>1, <4>1, <4>2 DEF TypeOK
    <3>2. CASE Keep(s)
      <4>1. PICK e \in Entries :
               /\ e.snapshot.id = boot[s].version /\ pc[s] = "load"
               /\ given' = [given EXCEPT ![s] = e.snapshot]
        BY <1>1, <3>2, KeepGives
      <4>2. anchor = "held" => e.snapshot.id \in Signed
        BY <1>1, <4>1 DEF SignedInv
      <4> QED
        BY <1>1, <4>1, <4>2 DEF TypeOK
    <3>3. CASE Miss(s)
      BY <1>1, <3>3, MissBegins
    <3>4. CASE ~Hit(s) /\ ~Miss(s) /\ ~Keep(s)
      <4>1. /\ \A x \in Threads \ {s} : given'[x] = given[x]
            /\ pc'[s] \in Served => given'[s] = given[s]
        BY <1>1, <2>1, <3>4, StoreKept
      <4>2. pc'[s] \notin Served => given'[s] = None
        BY <1>1 DEF StandInv
      <4> QED
        BY <4>1, <4>2
    <3> QED
      BY <3>1, <3>2, <3>3, <3>4
  <2>2. ASSUME NEW r \in Roots, Write(r)
        PROVE  Given(t)
    BY <1>1, <2>2, WriteKeeps DEF Noticed
  <2>3. CASE ChangeAnchor \/ (\E r \in Roots : BeginRebuild(r) \/ AbandonRebuild(r)) \/ UNCHANGED vars
    BY <2>3, AroundKeeps
  <2> QED
    BY <1>1, <2>1, <2>2, <2>3, NextSteps DEF ThreadStep
<1>2. IInv /\ IInv' /\ [Next]_vars => [\A t \in Threads : Given(t)]_vars
  BY <1>1
<1> QED
  BY Invariance, <1>2, PTL DEF Spec, AuthenticUnderAnchor
=============================================================================
