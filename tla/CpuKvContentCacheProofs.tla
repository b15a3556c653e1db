------------------------ MODULE CpuKvContentCacheProofs ------------------------
(***************************************************************************)
(* Proofs about CpuKvContentCache, for any client, any number of slots,      *)
(* blocks and contents.                                                    *)
(***************************************************************************)
EXTENDS CpuKvContentCache, SequenceTheorems, TLAPS

(* What a transfer reads or publishes is in the index.                       *)
TransfersResident ==
  /\ ready \subseteq Resident
  /\ pending \subseteq Resident
  /\ D2hTargets \subseteq Resident

(* A deferred content is not resident, and no content is deferred twice: so   *)
(* its store takes a slot without hiding another slot of the same content.   *)
DeferredFresh ==
  /\ \A i \in DOMAIN deferred : slot_of[deferred[i].hash] = NoSlot
  /\ \A i, j \in DOMAIN deferred : deferred[i].hash = deferred[j].hash => i = j

(* Stores are resolved only in a step that loads nothing.                    *)
ResolvesWithoutLoads == draining /\ deferred # <<>> => load_slots = {}

TierInv ==
  /\ TierTypeOK
  /\ SlotsExact
  /\ OneRolePerSlot
  /\ TransfersResident
  /\ DeferredFresh
  /\ ResolvesWithoutLoads

-------------------------------------------------------------------------------
LEMMA TierInitInv == TierInit => TierInv
<1> SUFFICES ASSUME TierInit PROVE TierInv
  OBVIOUS
<1> USE CapacityAssumption DEF TierInit, CpuSlot, NoSlot
<1>1. Resident = {} /\ H2dSources = {} /\ D2hSources = {} /\ D2hTargets = {}
  BY DEF Resident, H2dSources, D2hSources, D2hTargets
<1>2. TierTypeOK
  <2>1. deferred \in Seq([block : GpuBlock, hash : ContentHash])
    BY EmptySeq
  <2>. QED
    BY <2>1 DEF TierTypeOK
<1>3. SlotsExact
  BY <1>1 DEF SlotsExact, MapsInverse, FreeIsTheRest, LruTotal
<1>4. OneRolePerSlot
  BY <1>1 DEF OneRolePerSlot, ClaimsPinned, LoadsClaimed, StoresApart, CommitsPass,
              InUseExplained, CommitOk, DeferredBlocks
<1>5. TransfersResident /\ DeferredFresh /\ ResolvesWithoutLoads
  BY <1>1 DEF TransfersResident, DeferredFresh, ResolvesWithoutLoads
<1>. QED
  BY <1>2, <1>3, <1>4, <1>5 DEF TierInv

(* Touching a slot that is or becomes resident keeps the order total.        *)
LEMMA TouchedTotal ==
  ASSUME TierTypeOK, LruTotal, NEW s \in CpuSlot,
         Resident' = Resident \cup {s}, lru' = Touched(s)
  PROVE  LruTotal' /\ lru' \subseteq CpuSlot \X CpuSlot
<1>1. Resident \subseteq CpuSlot
  BY DEF Resident
<1>2. lru' \subseteq Resident' \X Resident'
  BY DEF LruTotal, Touched
<1>3. \A r \in Resident' : <<r, r>> \notin lru'
  BY DEF LruTotal, Touched
<1>4. ASSUME NEW r \in Resident', NEW t \in Resident', r # t
      PROVE  <<r, t>> \in lru' <=> <<t, r>> \notin lru'
  <2>1. CASE r = s
    BY <2>1, <1>4 DEF Touched
  <2>2. CASE t = s
    BY <2>2, <1>4 DEF Touched
  <2>3. CASE r # s /\ t # s
    BY <2>3, <1>4 DEF Touched, LruTotal
  <2>. QED
    BY <2>1, <2>2, <2>3
<1>. QED
  BY <1>1, <1>2, <1>3, <1>4 DEF LruTotal

-------------------------------------------------------------------------------
(* _commit_store on a slot that nobody uses, for a content that is not        *)
(* resident: the index stays exact and the slot gets one role.              *)
LEMMA CommitKeeps ==
  ASSUME TierInv, NEW h \in ContentHash, NEW b \in GpuBlock, NEW s \in CpuSlot,
         slot_of[h] = NoSlot, b \notin D2hSources, s \notin in_use,
         Commit(h, b, s), UNCHANGED <<load_slots, h2d>>
  PROVE  /\ slot_of' \in [ContentHash -> CpuSlot \cup {NoSlot}]
         /\ hash_of' \in [CpuSlot -> ContentHash \cup {NoContent}]
         /\ d2h' \in [GpuBlock -> CpuSlot \cup {NoSlot}]
         /\ lru' \subseteq CpuSlot \X CpuSlot
         /\ Resident' = Resident \cup {s}
         /\ D2hSources' = D2hSources \cup {b}
         /\ D2hTargets' = D2hTargets \cup {s}
         /\ SlotsExact'
         /\ ClaimsPinned' /\ LoadsClaimed' /\ InUseExplained'
         /\ D2hTargets' \subseteq in_use' \ load_slots'
         /\ D2hTargets' \cap ready' = {}
         /\ \A a, c \in D2hSources' : d2h'[a] = d2h'[c] => a = c
         /\ ready' \subseteq Resident'
         /\ \A g \in ContentHash : slot_of[g] = NoSlot /\ g # h => slot_of'[g] = NoSlot
<1> USE DEF TierInv, TierTypeOK
<1>0. s # NoSlot
  BY DEF CpuSlot, NoSlot
<1>1. /\ slot_of' \in [ContentHash -> CpuSlot \cup {NoSlot}]
      /\ hash_of' \in [CpuSlot -> ContentHash \cup {NoContent}]
      /\ d2h' \in [GpuBlock -> CpuSlot \cup {NoSlot}]
  BY DEF Commit, Reindexed
<1>2. Resident' = Resident \cup {s}
  BY NoContentAssumption DEF Commit, Resident
<1>3. D2hSources' = D2hSources \cup {b}
  BY <1>0 DEF Commit, D2hSources
<1>4. D2hTargets' = D2hTargets \cup {s}
  BY <1>3 DEF Commit, D2hTargets, D2hSources
<1>5. LruTotal' /\ lru' \subseteq CpuSlot \X CpuSlot
  BY <1>2, TouchedTotal DEF SlotsExact, Commit
<1>6. FreeIsTheRest'
  BY <1>2 DEF SlotsExact, FreeIsTheRest, Commit
<1>7. MapsInverse'
  <2>1. ASSUME NEW g \in ContentHash, slot_of'[g] # NoSlot
        PROVE  hash_of'[slot_of'[g]] = g
    <3>1. CASE g = h
      BY <3>1 DEF Commit, Reindexed
    <3>2. CASE g # h
      <4>1. slot_of'[g] = slot_of[g] /\ g # hash_of[s] /\ slot_of[g] \in CpuSlot
        BY <3>2, <2>1 DEF Commit, Reindexed
      <4>2. hash_of[slot_of[g]] = g
        BY <4>1, <2>1 DEF SlotsExact, MapsInverse
      <4>. QED
        BY <4>1, <4>2 DEF Commit
    <3>. QED
      BY <3>1, <3>2
  <2>2. ASSUME NEW t \in Resident' PROVE slot_of'[hash_of'[t]] = t
    <3>1. CASE t = s
      BY <3>1 DEF Commit, Reindexed
    <3>2. CASE t # s
      <4>1. t \in Resident /\ hash_of'[t] = hash_of[t] /\ hash_of[t] \in ContentHash
        BY <3>2, <1>2 DEF Commit, Resident
      <4>2. slot_of[hash_of[t]] = t
        BY <4>1 DEF SlotsExact, MapsInverse
      <4>3. hash_of[t] # h
        BY <4>1, <4>2 DEF Resident, CpuSlot, NoSlot
      <4>4. hash_of[t] # hash_of[s]
        <5>1. CASE s \in Resident
          BY <5>1, <4>1, <4>2, <3>2 DEF SlotsExact, MapsInverse
        <5>2. CASE s \notin Resident
          BY <5>2, <4>1, NoContentAssumption DEF Resident
        <5>. QED
          BY <5>1, <5>2
      <4>. QED
        BY <4>1, <4>2, <4>3, <4>4 DEF Commit, Reindexed
    <3>. QED
      BY <3>1, <3>2
  <2>. QED
    BY <2>1, <2>2 DEF MapsInverse
<1>8. ClaimsPinned' /\ LoadsClaimed'
  BY DEF OneRolePerSlot, ClaimsPinned, LoadsClaimed, Commit, NotReady, H2dSources
<1>9. InUseExplained'
  BY <1>4 DEF OneRolePerSlot, InUseExplained, Commit
<1>10. /\ D2hTargets' \subseteq in_use' \ load_slots'
       /\ D2hTargets' \cap ready' = {}
  BY <1>4 DEF OneRolePerSlot, StoresApart, ClaimsPinned, Commit, NotReady
<1>11. \A a, c \in D2hSources' : d2h'[a] = d2h'[c] => a = c
  <2>1. \A a \in D2hSources : a \in GpuBlock /\ d2h'[a] = d2h[a] /\ d2h[a] \in D2hTargets
    BY DEF Commit, D2hSources, D2hTargets
  <2>2. s \notin D2hTargets
    BY DEF OneRolePerSlot, StoresApart
  <2>3. d2h'[b] = s
    BY DEF Commit
  <2>. QED
    BY <1>3, <2>1, <2>2, <2>3 DEF OneRolePerSlot, StoresApart
<1>12. ready' \subseteq Resident'
  BY <1>2 DEF TransfersResident, Commit, NotReady
<1>13. \A g \in ContentHash : slot_of[g] = NoSlot /\ g # h => slot_of'[g] = NoSlot
  BY DEF Commit, Reindexed
<1>. QED
  BY <1>1, <1>2, <1>3, <1>4, <1>5, <1>6, <1>7, <1>8, <1>9, <1>10, <1>11, <1>12, <1>13
     DEF SlotsExact

-------------------------------------------------------------------------------
(* The checks of _commit_store pass wherever the roles of the slots are kept  *)
(* apart and what is transferred is resident.                               *)
LEMMA CommitsPassAfter ==
  ASSUME TierTypeOK', FreeIsTheRest', ClaimsPinned', LoadsClaimed',
         D2hTargets' \subseteq in_use', TransfersResident'
  PROVE  CommitsPass'
BY DEF CommitsPass, CommitOk, TierTypeOK, FreeIsTheRest, ClaimsPinned, LoadsClaimed,
       TransfersResident, Evictable

LEMMA BeginStepKeeps == ASSUME TierInv, BeginStep PROVE TierInv'
<1> USE DEF TierInv, BeginStep, stepVars
<1>1. /\ Resident' = Resident /\ H2dSources' = H2dSources
      /\ D2hSources' = D2hSources /\ D2hTargets' = D2hTargets
  BY DEF Resident, H2dSources, D2hSources, D2hTargets
<1>2. D2hTargets = {}
  BY DEF BeginOk, D2hTargets
<1>3. TierTypeOK'
  BY DEF TierTypeOK
<1>4. SlotsExact'
  BY <1>1 DEF SlotsExact, MapsInverse, FreeIsTheRest, LruTotal
<1>5. TransfersResident'
  BY <1>1 DEF TransfersResident
<1>6. DeferredFresh' /\ ResolvesWithoutLoads'
  BY DEF DeferredFresh, ResolvesWithoutLoads
<1>7. ClaimsPinned' /\ LoadsClaimed' /\ InUseExplained'
  BY <1>1 DEF OneRolePerSlot, ClaimsPinned, LoadsClaimed, InUseExplained
<1>8. StoresApart'
  BY <1>1, <1>2 DEF OneRolePerSlot, StoresApart, DeferredBlocks
<1>9. CommitsPass'
  BY <1>1, <1>2, <1>3, <1>4, <1>5, <1>7, CommitsPassAfter DEF SlotsExact
<1>. QED
  BY <1>3, <1>4, <1>5, <1>6, <1>7, <1>8, <1>9 DEF OneRolePerSlot

LEMMA ClaimLoadKeeps ==
  ASSUME TierInv, ~draining, NEW h \in ContentHash, ClaimLoad(h)
  PROVE  TierInv'
<1> DEFINE s == slot_of[h]
<1> USE DEF TierInv, ClaimLoad, indexVars
<1>1. /\ Resident' = Resident /\ H2dSources' = H2dSources
      /\ D2hSources' = D2hSources /\ D2hTargets' = D2hTargets
  BY DEF Resident, H2dSources, D2hSources, D2hTargets
<1>2. s \in CpuSlot /\ s \in ready /\ s \in Resident /\ s \notin D2hTargets
  BY DEF Hits, TierTypeOK, TransfersResident, OneRolePerSlot, StoresApart
<1>3. LruTotal' /\ lru' \subseteq CpuSlot \X CpuSlot
  BY <1>1, <1>2, TouchedTotal DEF SlotsExact
<1>4. TierTypeOK'
  BY <1>2, <1>3 DEF TierTypeOK
<1>5. SlotsExact'
  BY <1>1, <1>3 DEF SlotsExact, MapsInverse, FreeIsTheRest
<1>6. TransfersResident'
  BY <1>1 DEF TransfersResident
<1>7. DeferredFresh' /\ ResolvesWithoutLoads'
  BY DEF DeferredFresh, ResolvesWithoutLoads
<1>8. ClaimsPinned' /\ LoadsClaimed' /\ InUseExplained'
  BY <1>1, <1>2 DEF OneRolePerSlot, ClaimsPinned, LoadsClaimed, InUseExplained
<1>9. StoresApart'
  BY <1>1, <1>2 DEF OneRolePerSlot, StoresApart, DeferredBlocks
<1>10. CommitsPass'
  BY <1>1, <1>4, <1>5, <1>6, <1>8, <1>9, CommitsPassAfter DEF SlotsExact, StoresApart
<1>. QED
  BY <1>4, <1>5, <1>6, <1>7, <1>8, <1>9, <1>10 DEF OneRolePerSlot

LEMMA CancelLoadKeeps ==
  ASSUME TierInv, ~draining, NEW h \in ContentHash, NEW s \in load_slots, CancelLoad(h, s)
  PROVE  TierInv'
<1> USE DEF TierInv, CancelLoad, indexVars
<1>1. /\ Resident' = Resident /\ H2dSources' = H2dSources
      /\ D2hSources' = D2hSources /\ D2hTargets' = D2hTargets
  BY DEF Resident, H2dSources, D2hSources, D2hTargets
<1>2. TierTypeOK'
  BY DEF TierTypeOK
<1>3. SlotsExact'
  BY <1>1 DEF SlotsExact, MapsInverse, FreeIsTheRest, LruTotal
<1>4. TransfersResident'
  BY <1>1 DEF TransfersResident
<1>5. DeferredFresh' /\ ResolvesWithoutLoads'
  BY DEF DeferredFresh, ResolvesWithoutLoads
<1>6. ClaimsPinned' /\ LoadsClaimed' /\ InUseExplained'
  BY <1>1 DEF OneRolePerSlot, ClaimsPinned, LoadsClaimed, InUseExplained, CancelOk
<1>7. StoresApart'
  BY <1>1 DEF OneRolePerSlot, StoresApart, DeferredBlocks
<1>8. CommitsPass'
  BY <1>2, <1>3, <1>4, <1>6, <1>7, CommitsPassAfter DEF SlotsExact, StoresApart
<1>. QED
  BY <1>2, <1>3, <1>4, <1>5, <1>6, <1>7, <1>8 DEF OneRolePerSlot

LEMMA StageLoadKeeps ==
  ASSUME TierInv, ~draining, NEW h \in ContentHash, NEW s \in load_slots,
         NEW b \in GpuBlock, StageLoad(h, s, b)
  PROVE  TierInv'
<1> USE DEF TierInv, StageLoad, indexVars
<1>1. /\ Resident' = Resident
      /\ D2hSources' = D2hSources /\ D2hTargets' = D2hTargets
  BY DEF Resident, D2hSources, D2hTargets
<1>2. H2dSources' \subseteq H2dSources \cup {s}
  BY DEF H2dSources, TierTypeOK
<1>3. TierTypeOK'
  BY DEF TierTypeOK
<1>4. SlotsExact'
  BY <1>1 DEF SlotsExact, MapsInverse, FreeIsTheRest, LruTotal
<1>5. TransfersResident'
  BY <1>1 DEF TransfersResident
<1>6. DeferredFresh' /\ ResolvesWithoutLoads'
  BY DEF DeferredFresh, ResolvesWithoutLoads
<1>7. ClaimsPinned' /\ LoadsClaimed' /\ InUseExplained'
  BY <1>1, <1>2 DEF OneRolePerSlot, ClaimsPinned, LoadsClaimed, InUseExplained
<1>8. StoresApart'
  BY <1>1 DEF OneRolePerSlot, StoresApart, DeferredBlocks
<1>9. CommitsPass'
  BY <1>3, <1>4, <1>5, <1>7, <1>8, CommitsPassAfter DEF SlotsExact, StoresApart
<1>. QED
  BY <1>3, <1>4, <1>5, <1>6, <1>7, <1>8, <1>9 DEF OneRolePerSlot

-------------------------------------------------------------------------------
LEMMA StageStoreKeeps ==
  ASSUME TierInv, ~draining, NEW h \in ContentHash, NEW b \in GpuBlock, StageStore(h, b)
  PROVE  TierInv'
<1> USE DEF TierInv, StageStore
<1>0. H2dSources' = H2dSources
  BY DEF H2dSources
<1>1. CASE StoreKnown(h)
  <2> USE <1>1 DEF StoreKnown, indexVars
  <2>1. /\ Resident' = Resident
        /\ D2hSources' = D2hSources /\ D2hTargets' = D2hTargets
    BY DEF Resident, D2hSources, D2hTargets
  <2>2. LruTotal' /\ lru' \subseteq CpuSlot \X CpuSlot
    <3>1. CASE slot_of[h] = NoSlot
      BY <3>1, <2>1 DEF SlotsExact, LruTotal, TierTypeOK
    <3>2. CASE slot_of[h] # NoSlot
      <4>1. slot_of[h] \in CpuSlot /\ slot_of[h] \in Resident
        BY <3>2, NoContentAssumption DEF TierTypeOK, SlotsExact, MapsInverse, Resident
      <4>. QED
        BY <3>2, <4>1, <2>1, TouchedTotal DEF SlotsExact
    <3>. QED
      BY <3>1, <3>2
  <2>3. TierTypeOK'
    BY <2>2 DEF TierTypeOK
  <2>4. SlotsExact'
    BY <2>1, <2>2 DEF SlotsExact, MapsInverse, FreeIsTheRest
  <2>5. TransfersResident'
    BY <2>1 DEF TransfersResident
  <2>6. DeferredFresh' /\ ResolvesWithoutLoads'
    BY DEF DeferredFresh, ResolvesWithoutLoads
  <2>7. ClaimsPinned' /\ LoadsClaimed' /\ InUseExplained'
    BY <1>0, <2>1 DEF OneRolePerSlot, ClaimsPinned, LoadsClaimed, InUseExplained
  <2>8. StoresApart'
    BY <2>1 DEF OneRolePerSlot, StoresApart, DeferredBlocks
  <2>9. CommitsPass'
    BY <2>3, <2>4, <2>5, <2>7, <2>8, CommitsPassAfter DEF SlotsExact, StoresApart
  <2>. QED
    BY <2>3, <2>4, <2>5, <2>6, <2>7, <2>8, <2>9 DEF OneRolePerSlot
<1>2. CASE StoreNow(h, b)
  <2>1. PICK s \in CpuSlot : SmallestFree(s) /\ Commit(h, b, s)
    BY <1>2 DEF StoreNow
  <2>2. /\ slot_of[h] = NoSlot /\ h \notin DeferredHashes
        /\ b \notin D2hSources /\ b \notin DeferredBlocks /\ deferred' = deferred
    BY <1>2 DEF StoreNow, Known, StoreOk
  <2>3. s \notin in_use
    BY <2>1 DEF SmallestFree, SlotsExact, FreeIsTheRest, OneRolePerSlot, InUseExplained,
                ClaimsPinned, TransfersResident
  <2>4. /\ slot_of' \in [ContentHash -> CpuSlot \cup {NoSlot}]
        /\ hash_of' \in [CpuSlot -> ContentHash \cup {NoContent}]
        /\ d2h' \in [GpuBlock -> CpuSlot \cup {NoSlot}]
        /\ lru' \subseteq CpuSlot \X CpuSlot
        /\ Resident' = Resident \cup {s}
        /\ D2hSources' = D2hSources \cup {b}
        /\ D2hTargets' = D2hTargets \cup {s}
        /\ SlotsExact'
        /\ ClaimsPinned' /\ LoadsClaimed' /\ InUseExplained'
        /\ D2hTargets' \subseteq in_use' \ load_slots'
        /\ D2hTargets' \cap ready' = {}
        /\ \A a, c \in D2hSources' : d2h'[a] = d2h'[c] => a = c
        /\ ready' \subseteq Resident'
        /\ \A g \in ContentHash : slot_of[g] = NoSlot /\ g # h => slot_of'[g] = NoSlot
    BY <2>1, <2>2, <2>3, CommitKeeps
  <2>5. TierTypeOK'
    BY <2>1, <2>2, <2>4 DEF TierTypeOK, Commit, NotReady
  <2>6. TransfersResident'
    BY <2>4 DEF TransfersResident
  <2>7. DeferredFresh'
    <3>0. \A i \in DOMAIN deferred : deferred[i] \in [block : GpuBlock, hash : ContentHash]
      <4>1. /\ DOMAIN deferred = 1 .. Len(deferred)
            /\ \A i \in 1 .. Len(deferred) :
                 deferred[i] \in [block : GpuBlock, hash : ContentHash]
        BY LenProperties, ElementOfSeq DEF TierTypeOK
      <4>. QED
        BY <4>1
    <3>1. \A i \in DOMAIN deferred : deferred[i].hash \in ContentHash /\ deferred[i].hash # h
      BY <2>2, <3>0 DEF DeferredHashes
    <3>. QED
      BY <2>2, <2>4, <3>1 DEF DeferredFresh
  <2>8. ResolvesWithoutLoads'
    BY DEF ResolvesWithoutLoads
  <2>9. StoresApart'
    BY <2>2, <2>4 DEF OneRolePerSlot, StoresApart, DeferredBlocks
  <2>10. CommitsPass'
    BY <2>4, <2>5, <2>6, CommitsPassAfter DEF SlotsExact
  <2>. QED
    BY <2>4, <2>5, <2>6, <2>7, <2>8, <2>9, <2>10 DEF OneRolePerSlot
<1>3. CASE StoreLater(h, b)
  <2> USE <1>3 DEF StoreLater, indexVars
  <2> DEFINE e == DeferredEntry(h, b)
  <2>1. /\ Resident' = Resident
        /\ D2hSources' = D2hSources /\ D2hTargets' = D2hTargets
    BY DEF Resident, D2hSources, D2hTargets
  <2>2. /\ slot_of[h] = NoSlot /\ h \notin DeferredHashes
        /\ b \notin D2hSources /\ b \notin DeferredBlocks
    BY DEF Known, StoreOk
  <2>3. e \in [block : GpuBlock, hash : ContentHash] /\ e.block = b /\ e.hash = h
    BY DEF DeferredEntry
  <2>4. /\ deferred' \in Seq([block : GpuBlock, hash : ContentHash])
        /\ Len(deferred) \in Nat /\ DOMAIN deferred = 1 .. Len(deferred)
        /\ DOMAIN deferred' = 1 .. Len(deferred) + 1
        /\ \A i \in 1 .. Len(deferred) : deferred'[i] = deferred[i]
        /\ deferred'[Len(deferred) + 1] = e
    BY <2>3, AppendProperties, LenProperties DEF TierTypeOK
  <2>5. TierTypeOK'
    BY <2>4 DEF TierTypeOK
  <2>6. SlotsExact'
    BY <2>1 DEF SlotsExact, MapsInverse, FreeIsTheRest, LruTotal
  <2>7. TransfersResident'
    BY <2>1 DEF TransfersResident
  <2>8. \A i \in 1 .. Len(deferred) : deferred[i].hash # h /\ deferred[i].block # b
    BY <2>2, <2>4 DEF DeferredHashes, DeferredBlocks
  <2>9. \A i \in DOMAIN deferred' : i \in DOMAIN deferred \/ i = Len(deferred) + 1
    BY <2>4
  <2>10. DeferredFresh'
    BY <2>2, <2>3, <2>4, <2>8, <2>9 DEF DeferredFresh
  <2>11. ResolvesWithoutLoads'
    BY DEF ResolvesWithoutLoads
  <2>12. ClaimsPinned' /\ LoadsClaimed' /\ InUseExplained'
    BY <1>0, <2>1 DEF OneRolePerSlot, ClaimsPinned, LoadsClaimed, InUseExplained
  <2>13. StoresApart'
    <3>1. DeferredBlocks' = DeferredBlocks \cup {b}
      BY <2>3, <2>4, <2>9 DEF DeferredBlocks
    <3>2. \A i, j \in DOMAIN deferred' : deferred'[i].block = deferred'[j].block => i = j
      BY <2>3, <2>4, <2>8, <2>9 DEF OneRolePerSlot, StoresApart
    <3>. QED
      BY <2>1, <2>2, <3>1, <3>2 DEF OneRolePerSlot, StoresApart
  <2>14. CommitsPass'
    BY <2>5, <2>6, <2>7, <2>12, <2>13, CommitsPassAfter DEF SlotsExact, StoresApart
  <2>. QED
    BY <2>5, <2>6, <2>7, <2>10, <2>11, <2>12, <2>13, <2>14 DEF OneRolePerSlot
<1>. QED
  BY <1>1, <1>2, <1>3 DEF StageStoreEffect

-------------------------------------------------------------------------------
LEMMA StartDrainKeeps == ASSUME TierInv, StartDrain PROVE TierInv'
<1> USE DEF TierInv, StartDrain, indexVars
<1>1. /\ Resident' = Resident /\ H2dSources' = H2dSources
      /\ D2hSources' = D2hSources /\ D2hTargets' = D2hTargets
  BY DEF Resident, H2dSources, D2hSources, D2hTargets
<1>2. deferred' = <<>> \/ (deferred' = deferred /\ load_slots' = {})
  BY DEF KeptStores
<1>3. TierTypeOK'
  BY <1>2, EmptySeq DEF TierTypeOK
<1>4. SlotsExact'
  BY <1>1 DEF SlotsExact, MapsInverse, FreeIsTheRest, LruTotal
<1>5. TransfersResident'
  BY <1>1 DEF TransfersResident
<1>6. DOMAIN deferred' = {} \/ deferred' = deferred
  BY <1>2, LenProperties, EmptySeq DEF TierTypeOK
<1>7. DeferredFresh'
  BY <1>6 DEF DeferredFresh
<1>8. ResolvesWithoutLoads'
  BY <1>2 DEF ResolvesWithoutLoads
<1>9. ClaimsPinned' /\ LoadsClaimed' /\ InUseExplained'
  BY <1>1 DEF OneRolePerSlot, ClaimsPinned, LoadsClaimed, InUseExplained
<1>10. StoresApart'
  BY <1>1, <1>6 DEF OneRolePerSlot, StoresApart, DeferredBlocks
<1>11. CommitsPass'
  BY <1>1, <1>3, <1>4, <1>5, <1>9, <1>10, CommitsPassAfter DEF SlotsExact, StoresApart
<1>. QED
  BY <1>3, <1>4, <1>5, <1>7, <1>8, <1>9, <1>10, <1>11 DEF OneRolePerSlot

(* Skipping or resolving the head leaves the other deferred stores fresh.     *)
LEMMA ResolveStoreKeeps == ASSUME TierInv, ResolveStore PROVE TierInv'
<1> DEFINE h == Head(deferred).hash
           b == Head(deferred).block
           n == Len(deferred)
<1> USE DEF TierInv, ResolveStore
<1>0. H2dSources' = H2dSources /\ load_slots = {}
  BY DEF H2dSources, ResolvesWithoutLoads
<1>1. /\ deferred' \in Seq([block : GpuBlock, hash : ContentHash])
      /\ n \in Nat /\ n >= 1 /\ DOMAIN deferred = 1 .. n
      /\ DOMAIN deferred' = 1 .. n - 1
      /\ \A i \in 1 .. n - 1 : deferred'[i] = deferred[i + 1]
      /\ Head(deferred) = deferred[1]
  BY HeadTailProperties, LenProperties, EmptySeq DEF TierTypeOK
<1>2. /\ \A i \in DOMAIN deferred : deferred[i] \in [block : GpuBlock, hash : ContentHash]
      /\ h \in ContentHash /\ b \in GpuBlock
      /\ h = deferred[1].hash /\ b = deferred[1].block
  <2>1. \A i \in 1 .. n : deferred[i] \in [block : GpuBlock, hash : ContentHash]
    BY ElementOfSeq DEF TierTypeOK
  <2>. QED
    BY <1>1, <2>1
<1>3. slot_of[h] = NoSlot /\ b \notin D2hSources
  <2>1. 1 \in DOMAIN deferred
    BY <1>1
  <2>2. b \in DeferredBlocks
    BY <1>2, <2>1 DEF DeferredBlocks
  <2>. QED
    BY <1>2, <2>1, <2>2 DEF DeferredFresh, OneRolePerSlot, StoresApart
<1>4. \A i \in DOMAIN deferred' :
        /\ i + 1 \in DOMAIN deferred /\ i + 1 # 1
        /\ deferred'[i] = deferred[i + 1]
  BY <1>1
<1>5. \A i \in DOMAIN deferred' :
        /\ deferred'[i].hash \in ContentHash /\ slot_of[deferred'[i].hash] = NoSlot
        /\ deferred'[i].hash # h /\ deferred'[i].block # b
        /\ deferred'[i].block \in DeferredBlocks
  <2>1. 1 \in DOMAIN deferred
    BY <1>1
  <2>. QED
    BY <1>2, <1>4, <2>1 DEF DeferredFresh, OneRolePerSlot, StoresApart, DeferredBlocks
<1>6. \A i, j \in DOMAIN deferred' :
        \/ deferred'[i].hash = deferred'[j].hash
        \/ deferred'[i].block = deferred'[j].block
        => i = j
  <2>1. ASSUME NEW i \in DOMAIN deferred', NEW j \in DOMAIN deferred',
               \/ deferred'[i].hash = deferred'[j].hash
               \/ deferred'[i].block = deferred'[j].block
        PROVE  i = j
    <3>1. i + 1 = j + 1
      BY <1>4, <2>1 DEF DeferredFresh, OneRolePerSlot, StoresApart
    <3>. QED
      BY <3>1, <1>1
  <2>. QED
    BY <2>1
<1>7. DeferredBlocks' \subseteq DeferredBlocks \ {b}
  BY <1>5 DEF DeferredBlocks
<1>8. ResolvesWithoutLoads'
  BY <1>0 DEF ResolvesWithoutLoads
<1>9. ASSUME NEW s \in CpuSlot, LeastRecent(s), Commit(h, b, s)
      PROVE  TierInv'
  <2>1. s \notin in_use
    BY <1>9 DEF LeastRecent, Evictable
  <2>2. /\ slot_of' \in [ContentHash -> CpuSlot \cup {NoSlot}]
        /\ hash_of' \in [CpuSlot -> ContentHash \cup {NoContent}]
        /\ d2h' \in [GpuBlock -> CpuSlot \cup {NoSlot}]
        /\ lru' \subseteq CpuSlot \X CpuSlot
        /\ Resident' = Resident \cup {s}
        /\ D2hSources' = D2hSources \cup {b}
        /\ D2hTargets' = D2hTargets \cup {s}
        /\ SlotsExact'
        /\ ClaimsPinned' /\ LoadsClaimed' /\ InUseExplained'
        /\ D2hTargets' \subseteq in_use' \ load_slots'
        /\ D2hTargets' \cap ready' = {}
        /\ \A a, c \in D2hSources' : d2h'[a] = d2h'[c] => a = c
        /\ ready' \subseteq Resident'
        /\ \A g \in ContentHash : slot_of[g] = NoSlot /\ g # h => slot_of'[g] = NoSlot
    BY <1>2, <1>3, <1>9, <2>1, CommitKeeps
  <2>3. TierTypeOK'
    BY <1>1, <1>9, <2>2 DEF TierTypeOK, Commit, NotReady
  <2>4. TransfersResident'
    BY <2>2 DEF TransfersResident
  <2>5. DeferredFresh'
    BY <1>5, <1>6, <2>2 DEF DeferredFresh
  <2>6. StoresApart'
    BY <1>6, <1>7, <2>2 DEF OneRolePerSlot, StoresApart
  <2>7. CommitsPass'
    BY <2>2, <2>3, <2>4, CommitsPassAfter DEF SlotsExact
  <2>. QED
    BY <1>8, <2>2, <2>3, <2>4, <2>5, <2>6, <2>7 DEF OneRolePerSlot
<1>10. CASE UNCHANGED <<indexVars, lru, in_use, d2h>>
  <2> USE <1>10 DEF indexVars
  <2>1. /\ Resident' = Resident
        /\ D2hSources' = D2hSources /\ D2hTargets' = D2hTargets
    BY DEF Resident, D2hSources, D2hTargets
  <2>2. TierTypeOK'
    BY <1>1 DEF TierTypeOK
  <2>3. SlotsExact'
    BY <2>1 DEF SlotsExact, MapsInverse, FreeIsTheRest, LruTotal
  <2>4. TransfersResident'
    BY <2>1 DEF TransfersResident
  <2>5. DeferredFresh'
    BY <1>5, <1>6 DEF DeferredFresh
  <2>6. ClaimsPinned' /\ LoadsClaimed' /\ InUseExplained'
    BY <1>0, <2>1 DEF OneRolePerSlot, ClaimsPinned, LoadsClaimed, InUseExplained
  <2>7. StoresApart'
    BY <1>6, <1>7, <2>1 DEF OneRolePerSlot, StoresApart
  <2>8. CommitsPass'
    BY <2>2, <2>3, <2>4, <2>6, <2>7, CommitsPassAfter DEF SlotsExact, StoresApart
  <2>. QED
    BY <1>8, <2>2, <2>3, <2>4, <2>5, <2>6, <2>7, <2>8 DEF OneRolePerSlot
<1>. QED
  BY <1>9, <1>10

LEMMA FinishDrainKeeps == ASSUME TierInv, FinishDrain PROVE TierInv'
<1> USE DEF TierInv, FinishDrain, indexVars
<1>1. /\ Resident' = Resident /\ H2dSources' = {}
      /\ D2hSources' = {} /\ D2hTargets' = {}
  BY DEF Resident, H2dSources, D2hSources, D2hTargets
<1>2. D2hTargets \subseteq CpuSlot
  BY DEF TransfersResident, Resident
<1>3. TierTypeOK'
  BY <1>2 DEF TierTypeOK
<1>4. SlotsExact'
  BY <1>1 DEF SlotsExact, MapsInverse, FreeIsTheRest, LruTotal
<1>5. TransfersResident'
  BY <1>1 DEF TransfersResident
<1>6. DeferredFresh' /\ ResolvesWithoutLoads'
  BY DEF DeferredFresh, ResolvesWithoutLoads
<1>7. ClaimsPinned' /\ LoadsClaimed' /\ InUseExplained'
  BY <1>1 DEF ClaimsPinned, LoadsClaimed, InUseExplained
<1>8. StoresApart'
  BY <1>1 DEF OneRolePerSlot, StoresApart, DeferredBlocks
<1>9. CommitsPass'
  BY <1>1, <1>3, <1>4, <1>5, <1>7, CommitsPassAfter DEF SlotsExact
<1>. QED
  BY <1>3, <1>4, <1>5, <1>6, <1>7, <1>8, <1>9 DEF OneRolePerSlot

LEMMA FailDrainKeeps == ASSUME TierInv, FailDrain PROVE TierInv'
<1> USE DEF TierInv, FailDrain, indexVars
<1>1. /\ Resident' = Resident /\ H2dSources' = H2dSources
      /\ D2hSources' = D2hSources /\ D2hTargets' = D2hTargets
  BY DEF Resident, H2dSources, D2hSources, D2hTargets
<1>2. TierTypeOK'
  BY DEF TierTypeOK
<1>3. SlotsExact'
  BY <1>1 DEF SlotsExact, MapsInverse, FreeIsTheRest, LruTotal
<1>4. TransfersResident'
  BY <1>1 DEF TransfersResident
<1>5. DeferredFresh' /\ ResolvesWithoutLoads'
  BY DEF DeferredFresh, ResolvesWithoutLoads
<1>6. ClaimsPinned' /\ LoadsClaimed' /\ InUseExplained'
  BY <1>1 DEF OneRolePerSlot, ClaimsPinned, LoadsClaimed, InUseExplained
<1>7. StoresApart'
  BY <1>1 DEF OneRolePerSlot, StoresApart, DeferredBlocks
<1>8. CommitsPass'
  BY <1>2, <1>3, <1>4, <1>6, <1>7, CommitsPassAfter DEF SlotsExact, StoresApart
<1>. QED
  BY <1>2, <1>3, <1>4, <1>5, <1>6, <1>7, <1>8 DEF OneRolePerSlot

-------------------------------------------------------------------------------
LEMMA TierStepInv == ASSUME TierInv, [TierNext]_tierVars PROVE TierInv'
<1>1. CASE BeginStep
  BY <1>1, BeginStepKeeps
<1>2. ASSUME ~draining, NEW h \in ContentHash, ClaimLoad(h) PROVE TierInv'
  BY <1>2, ClaimLoadKeeps
<1>3. ASSUME ~draining, NEW h \in ContentHash, NEW b \in GpuBlock, StageStore(h, b)
      PROVE  TierInv'
  BY <1>3, StageStoreKeeps
<1>4. ASSUME ~draining, NEW h \in ContentHash, NEW s \in load_slots, CancelLoad(h, s)
      PROVE  TierInv'
  BY <1>4, CancelLoadKeeps
<1>5. ASSUME ~draining, NEW h \in ContentHash, NEW s \in load_slots, NEW b \in GpuBlock,
             StageLoad(h, s, b)
      PROVE  TierInv'
  BY <1>5, StageLoadKeeps
<1>6. CASE StartDrain
  BY <1>6, StartDrainKeeps
<1>7. CASE ResolveStore
  BY <1>7, ResolveStoreKeeps
<1>8. CASE FinishDrain
  BY <1>8, FinishDrainKeeps
<1>9. CASE FailDrain
  BY <1>9, FailDrainKeeps
<1>10. CASE UNCHANGED tierVars
  <2> USE <1>10 DEF tierVars
  <2>1. /\ Resident' = Resident /\ H2dSources' = H2dSources
        /\ D2hSources' = D2hSources /\ D2hTargets' = D2hTargets
        /\ DeferredBlocks' = DeferredBlocks /\ Evictable' = Evictable
    BY DEF Resident, H2dSources, D2hSources, D2hTargets, DeferredBlocks, Evictable
  <2>2. TierTypeOK' /\ SlotsExact'
    BY <2>1 DEF TierInv, TierTypeOK, SlotsExact, MapsInverse, FreeIsTheRest, LruTotal
  <2>3. OneRolePerSlot'
    BY <2>1 DEF TierInv, OneRolePerSlot, ClaimsPinned, LoadsClaimed, StoresApart,
                CommitsPass, CommitOk, InUseExplained
  <2>4. TransfersResident' /\ DeferredFresh' /\ ResolvesWithoutLoads'
    BY <2>1 DEF TierInv, TransfersResident, DeferredFresh, ResolvesWithoutLoads
  <2>. QED
    BY <2>2, <2>3, <2>4 DEF TierInv
<1>. QED
  BY <1>1, <1>2, <1>3, <1>4, <1>5, <1>6, <1>7, <1>8, <1>9, <1>10 DEF TierNext, TierCall

(* The inductive invariant of the tier: its parts support each other through  *)
(* the commit, which needs a fresh content, a fresh block and an unused slot. *)
THEOREM TierInvariant == TierSpec => []TierInv
<1>1. TierInit => TierInv
  BY TierInitInv
<1>2. TierInv /\ [TierNext]_tierVars => TierInv'
  BY TierStepInv
<1>. QED
  BY <1>1, <1>2, PTL DEF TierSpec

(* The fields of the tier keep their types.                                 *)
THEOREM TierTypeCorrect == TierSpec => []TierTypeOK
<1>1. TierInv => TierTypeOK
  BY DEF TierInv
<1>. QED
  BY <1>1, TierInvariant, PTL

(* The dictionaries of the tier stay inverse, no slot is lost and the LRU      *)
(* order stays total, whatever the client calls.                            *)
THEOREM SlotsStayExact == TierSpec => []SlotsExact
<1>1. TierInv => SlotsExact
  BY DEF TierInv
<1>. QED
  BY <1>1, TierInvariant, PTL

(* No CPU slot is both read and written by the transfers of one step, and no  *)
(* check of _commit_store can fail.                                         *)
THEOREM RolesStayApart == TierSpec => []OneRolePerSlot
<1>1. TierInv => OneRolePerSlot
  BY DEF TierInv
<1>. QED
  BY <1>1, TierInvariant, PTL

(* Resident content leaves the tier only while a step without loads is         *)
(* drained.                                                                *)
THEOREM LookupsLoseNothing == TierSpec => ResidentsSurviveLookups
<1> DEFINE Kept == \A h \in ContentHash :
                     slot_of[h] # NoSlot /\ (~draining \/ load_slots # {})
                       => slot_of'[h] = slot_of[h]
<1>1. ASSUME TierInv, [TierNext]_tierVars PROVE [Kept]_tierVars
  <2>1. ASSUME NEW g \in ContentHash, NEW h \in ContentHash, NEW b \in GpuBlock,
               StageStore(h, b), slot_of[g] # NoSlot
        PROVE  slot_of'[g] = slot_of[g]
    <3>1. CASE StoreNow(h, b)
      <4>1. PICK s \in CpuSlot : SmallestFree(s) /\ Commit(h, b, s)
        BY <3>1 DEF StoreNow
      <4>2. hash_of[s] = NoContent
        BY <1>1, <4>1 DEF TierInv, SlotsExact, FreeIsTheRest, SmallestFree, Resident
      <4>3. g # h /\ g # NoContent
        BY <2>1, <3>1, NoContentAssumption DEF StoreNow, Known
      <4>. QED
        BY <4>1, <4>2, <4>3 DEF Commit, Reindexed
    <3>2. CASE ~StoreNow(h, b)
      BY <2>1, <3>2 DEF StageStore, StageStoreEffect, StoreKnown, StoreLater, indexVars
    <3>. QED
      BY <3>1, <3>2
  <2>2. CASE TierCall
    <3>1. CASE \E h \in ContentHash, b \in GpuBlock : StageStore(h, b)
      BY <3>1, <2>1
    <3>2. CASE ~\E h \in ContentHash, b \in GpuBlock : StageStore(h, b)
      BY <2>2, <3>2 DEF TierCall, BeginStep, ClaimLoad, CancelLoad, StageLoad, indexVars
    <3>. QED
      BY <3>1, <3>2
  <2>3. CASE ResolveStore
    BY <1>1, <2>3 DEF ResolveStore, TierInv, ResolvesWithoutLoads
  <2>4. CASE StartDrain \/ FinishDrain \/ FailDrain \/ UNCHANGED tierVars
    BY <2>4 DEF StartDrain, FinishDrain, FailDrain, indexVars, tierVars
  <2>. QED
    BY <1>1, <2>2, <2>3, <2>4 DEF TierNext
<1>. QED
  BY <1>1, TierInvariant, PTL DEF TierSpec, ResidentsSurviveLookups
===============================================================================
