----------------------------- MODULE PartsProofs -----------------------------
(***************************************************************************)
(* The other parts of the machine, each by an invariant of its own, and    *)
(* then the machine, in which all of them hold at once.                    *)
(*                                                                         *)
(* ScriptsInv: ClientInSync is nearly inductive; it lacks the shapes, and  *)
(* that storing an overlay touches one key and respects the limits         *)
(* (StoredAs).                                                             *)
(* PerfInv: the statistics are those of the trail of visits so far; what   *)
(* one more visit adds to what the trail tells is Told's one step.         *)
(* MemoryInv: MemoryExact compares places, as the RAM disk is described,   *)
(* with indices of the array.  It is not inductive: the mapping in force   *)
(* is the first enabled disk's, and the ghost and the index of the byte    *)
(* written last are one place.  The rest is that no two places have one    *)
(* index.                                                                  *)
(* TimerInv: where in its half of the wave the counter is, from what it    *)
(* was loaded with and how many clocks and changes there were since        *)
(* (WaveRight), and which bytes of a latched count are still to be read    *)
(* (LatchRight).                                                           *)
(* SoundInv: the registers of the envelope follow from the shape and the   *)
(* steps since it was given (Ramp), a channel's counter from the clocks of *)
(* its half (Sounds).                                                      *)
(* TraceInv: the ring, from the newest item on, is the history, and an     *)
(* empty item follows it while it is not full (RingHolds).  The search for *)
(* a glob keeps: the value means the pattern if and only if what is left   *)
(* of it means the rest, or the last star takes one character more         *)
(* (SearchRight); each of its steps comes nearer to the end.               *)
(***************************************************************************)
EXTENDS Machine, MachineProofs,
        FiniteSetTheorems, SequenceTheorems, WellFoundedInduction, TLAPS

LEMMA FiniteBelow ==
  ASSUME NEW n \in Nat, NEW S, S \subseteq 0..n
  PROVE  IsFiniteSet(S) /\ Cardinality(S) \in Nat
  <1>1. 0 \in Int /\ n \in Int
    OBVIOUS
  <1>2. IsFiniteSet(0..n)
    BY <1>1, FS_Interval
  <1>3. IsFiniteSet(S)
    BY <1>2, FS_Subset
  <1> QED BY <1>3, FS_CardinalityType

-----------------------------------------------------------------------------
(* Scripts and their overlays. *)
Script == [text : Texts, active : BOOLEAN, compilation : Compilations, runtime : Runtimes]
ScriptsTyped ==
  /\ scripts \in [DOMAIN scripts -> Script]
  /\ DOMAIN scripts \subseteq 0..LastId /\ Cardinality(DOMAIN scripts) <= MaxRecords
  /\ nextId \in 0..(LastId + 1) /\ checking \subseteq DOMAIN scripts
Overlay(o) == o = [picture |-> o.picture, updated |-> o.updated] /\ o.updated \in BOOLEAN
OverlaysTyped(all) ==
  /\ all = [k \in DOMAIN all |-> all[k]] /\ \A k \in DOMAIN all : Overlay(all[k])
  /\ IsFiniteSet(DOMAIN all) /\ Cardinality(DOMAIN all) <= MaxTotal
(* What a run's drawing may make of the overlays. *)
Redraws(id, all) ==
  /\ OverlaysTyped(all) /\ DOMAIN overlays \subseteq DOMAIN all
  /\ \A k \in DOMAIN all :
       /\ k \in DOMAIN overlays \/ k[1] = id
       /\ ~all[k].updated => k \in DOMAIN overlays /\ all[k] = overlays[k]
ScriptsInv == ScriptsTyped /\ OverlaysTyped(overlays) /\ ClientInSync

StoredAs(r, all, k, v) ==
  /\ r = [ok |-> r.ok, all |-> r.all] /\ r.ok \in BOOLEAN
  /\ \/ r.all = all
     \/ r.all = With(all, k, v) /\ (k \in DOMAIN all \/ ~(Cardinality(DOMAIN all) >= MaxTotal))

LEMMA StoredHow ==
  ASSUME NEW id, NEW item, NEW picture, NEW all
  PROVE  StoredAs(StoreOverlay(all, id, item, picture), all, <<id, item>>,
                  [picture |-> picture, updated |-> TRUE])
  <1> DEFINE k == <<id, item>>
             v == [picture |-> picture, updated |-> TRUE]
             new == With(all, k, v)
             Keep(b) == [ok |-> b, all |-> all]
             Change == [ok |-> TRUE, all |-> new]
             r == StoreOverlay(all, id, item, picture)
             full == Cardinality(Of(id, all)) >= MaxPerScript \/ Cardinality(DOMAIN all) >= MaxTotal
  <1>1. k \in DOMAIN all => r = Keep(TRUE) \/ r = Change
    <2>1. k \in DOMAIN all => r = IF all[k].picture = picture THEN Keep(TRUE) ELSE Change
      BY Zenon DEF StoreOverlay
    <2> QED BY <2>1, Zenon
  <1>2. k \notin DOMAIN all => r = Keep(FALSE) \/ (r = Change /\ ~(Cardinality(DOMAIN all) >= MaxTotal))
    <2>1. k \notin DOMAIN all => r = IF full THEN Keep(FALSE) ELSE Change
      BY DEF StoreOverlay
    <2> QED BY <2>1, Zenon
  <1> HIDE DEF r, k, v
  <1>3. PICK b \in BOOLEAN, x \in {all, new} :
          /\ r = [ok |-> b, all |-> x]
          /\ x = all \/ (x = new /\ (k \in DOMAIN all \/ ~(Cardinality(DOMAIN all) >= MaxTotal)))
    <2>1. TRUE \in BOOLEAN /\ FALSE \in BOOLEAN
      OBVIOUS
    <2> HIDE DEF new
    <2> QED BY <1>1, <1>2, <2>1, Zenon
  <1>4. StoredAs(r, all, k, v)
    <2> HIDE DEF new
    <2>1. r.ok = b /\ r.all = x /\ r = [ok |-> r.ok, all |-> r.all]
      BY <1>3
    <2> QED BY <1>3, <2>1, Zenon DEF StoredAs, new
  <1> QED BY <1>4, Zenon DEF r, k, v

LEMMA StoreRedraws ==
  ASSUME NEW id, NEW item, NEW picture, NEW all, Redraws(id, all)
  PROVE  Redraws(id, StoreOverlay(all, id, item, picture).all)
  <1> DEFINE k == <<id, item>>
             v == [picture |-> picture, updated |-> TRUE]
             new == With(all, k, v)
  <1>1. Redraws(id, new) \/ (k \notin DOMAIN all /\ Cardinality(DOMAIN all) >= MaxTotal)
    <2> SUFFICES ASSUME k \in DOMAIN all \/ ~(Cardinality(DOMAIN all) >= MaxTotal)
                 PROVE  Redraws(id, new)
      OBVIOUS
    <2>1. DOMAIN new = DOMAIN all \cup {k} /\ new = [x \in DOMAIN new |-> new[x]]
      BY DEF With
    <2>2. new[k] = v /\ \A x \in DOMAIN all : x # k => new[x] = all[x]
      BY DEF With
    <2>3. v.updated = TRUE /\ v.picture = picture /\ Overlay(v) /\ k[1] = id
      BY DEF Overlay
    <2>4. IsFiniteSet(DOMAIN all) /\ Cardinality(DOMAIN all) <= MaxTotal /\ MaxTotal \in Nat
      BY ScriptsAssumption DEF Redraws, OverlaysTyped
    <2> HIDE DEF new, k, v
    <2>5. IsFiniteSet(DOMAIN new) /\ Cardinality(DOMAIN new) <= MaxTotal
      <3>1. Cardinality(DOMAIN all) \in Nat
        BY <2>4, FS_CardinalityType
      <3>2. CASE k \in DOMAIN all
        <4>1. DOMAIN new = DOMAIN all
          BY <2>1, <3>2
        <4> QED BY <2>4, <4>1
      <3>3. CASE k \notin DOMAIN all
        <4>1. /\ IsFiniteSet(DOMAIN all \cup {k})
              /\ Cardinality(DOMAIN all \cup {k}) = Cardinality(DOMAIN all) + 1
          BY <2>4, <3>3, FS_AddElement
        <4> QED BY <2>1, <2>4, <3>1, <3>3, <4>1
      <3> QED BY <3>2, <3>3
    <2>6. OverlaysTyped(new)
      <3>1. \A x \in DOMAIN new : Overlay(new[x])
        BY <2>1, <2>2, <2>3 DEF Redraws, OverlaysTyped
      <3> QED BY <2>1, <2>5, <3>1 DEF OverlaysTyped
    <2>7. DOMAIN overlays \subseteq DOMAIN new
      BY <2>1 DEF Redraws
    <2>8. \A x \in DOMAIN new :
            /\ x \in DOMAIN overlays \/ x[1] = id
            /\ ~new[x].updated => x \in DOMAIN overlays /\ new[x] = overlays[x]
      BY <2>1, <2>2, <2>3 DEF Redraws
    <2> QED BY <2>6, <2>7, <2>8 DEF Redraws
  <1>2. \/ StoreOverlay(all, id, item, picture).all = all
        \/ /\ StoreOverlay(all, id, item, picture).all = new
           /\ k \in DOMAIN all \/ ~(Cardinality(DOMAIN all) >= MaxTotal)
    BY StoredHow, Zenon DEF StoredAs
  <1> HIDE DEF new
  <1> QED BY <1>1, <1>2

LEMMA DrawnRedraws ==
  ASSUME OverlaysTyped(overlays), NEW id, NEW draws \in Draws
  PROVE  Redraws(id, Drawn(id, draws).all)
  <1> DEFINE n == Len(draws)
             Round(i, s) == IF ~s.ok THEN s
                            ELSE StoreOverlay(s.all, id, draws[i][1], draws[i][2])
             Eq(f) == f = [i \in 0..n |-> IF i = 0 THEN [ok |-> TRUE, all |-> overlays]
                                          ELSE IF ~f[i - 1].ok THEN f[i - 1]
                                          ELSE StoreOverlay(f[i - 1].all, id, draws[i][1], draws[i][2])]
             after == CHOOSE f : Eq(f)
             keys == DOMAIN overlays \cup {<<id, draws[i][1]>> : i \in 1..n}
             values == {overlays[k] : k \in DOMAIN overlays}
                         \cup {[picture |-> draws[i][2], updated |-> TRUE] : i \in 1..n}
             U == [ok : BOOLEAN, all : UNION {[D -> values] : D \in SUBSET keys}]
             T == {s \in U : Redraws(id, s.all)}
  <1>1. n \in Nat
    BY ScriptsAssumption
  <1>2. Drawn(id, draws) = after[n]
    BY Zenon DEF Drawn
  <1>3. [ok |-> TRUE, all |-> overlays] \in T
    <2>1. overlays \in [DOMAIN overlays -> values]
      BY DEF OverlaysTyped
    <2>2. [ok |-> TRUE, all |-> overlays] \in U
      BY <2>1
    <2>3. Redraws(id, overlays)
      BY DEF Redraws
    <2> QED BY <2>2, <2>3
  <1>4. ASSUME NEW i \in 1..n, NEW s \in T
        PROVE  Round(i, s) \in T
    <2> DEFINE item == draws[i][1]
               picture == draws[i][2]
               k == <<id, item>>
               v == [picture |-> picture, updated |-> TRUE]
               r == StoreOverlay(s.all, id, item, picture)
    <2>1. s \in U /\ Redraws(id, s.all)
      OBVIOUS
    <2>2. r = [ok |-> r.ok, all |-> r.all] /\ r.ok \in BOOLEAN /\ (r.all = s.all \/ r.all = With(s.all, k, v))
      <3>1. StoredAs(r, s.all, k, v)
        BY StoredHow, Zenon
      <3> HIDE DEF r, k, v
      <3> QED BY <3>1 DEF StoredAs
    <2>3. Redraws(id, r.all)
      BY <2>1, StoreRedraws
    <2>4. k \in keys /\ v \in values
      OBVIOUS
    <2> HIDE DEF keys, values, k, v
    <2>5. PICK D \in SUBSET keys : s.all \in [D -> values]
      BY <2>1
    <2>6. With(s.all, k, v) \in [D \cup {k} -> values] /\ D \cup {k} \in SUBSET keys
      BY <2>4, <2>5 DEF With
    <2>7. r.all \in UNION {[E -> values] : E \in SUBSET keys}
      BY <2>2, <2>5, <2>6
    <2> HIDE DEF r
    <2>8. r \in U
      BY <2>2, <2>7
    <2>9. r \in T
      BY <2>3, <2>8
    <2> HIDE DEF U
    <2>10. Round(i, s) = s \/ Round(i, s) = r
      BY Zenon DEF r, item, picture
    <2> QED BY <2>9, <2>10
  <1> HIDE DEF T
  <1>5. \E f : Eq(f)
    <2> DEFINE first == [ok |-> TRUE, all |-> overlays]
               round == [i \in 1..n |-> [s \in T |-> Round(i, s)]]
    <2>1. \A i \in 1..n, s \in T : round[i][s] = Round(i, s)
      <3> HIDE DEF Round
      <3> QED OBVIOUS
    <2>2. round \in [1..n -> [T -> T]]
      <3> HIDE DEF Round
      <3> QED BY <1>4
    <2> HIDE DEF round
    <2>3. PICK f \in [0..n -> T] : f[0] = first /\ \A i \in 1..n : f[i] = round[i][f[i - 1]]
      <3>1. first \in T
        BY <1>3
      <3> HIDE DEF n, first
      <3>2. Loops(n, T, first, round)
        BY <1>1, <2>2, <3>1, LoopExists
      <3> QED BY <3>2, Zenon DEF Loops
    <2> DEFINE Value(i) == IF i = 0 THEN [ok |-> TRUE, all |-> overlays]
                           ELSE IF ~f[i - 1].ok THEN f[i - 1]
                           ELSE StoreOverlay(f[i - 1].all, id, draws[i][1], draws[i][2])
    <2>4. ASSUME NEW i \in 0..n PROVE f[i] = Value(i)
      <3>1. CASE i = 0
        BY <2>3, <3>1
      <3>2. CASE i # 0
        <4>1. i \in 1..n /\ i - 1 \in 0..n
          BY <1>1, <3>2
        <4>2. f[i] = Round(i, f[i - 1])
          BY <2>1, <2>3, <4>1
        <4> QED BY <3>2, <4>2, Zenon
      <3> QED BY <3>1, <3>2
    <2>5. f = [i \in 0..n |-> Value(i)]
      <3> HIDE DEF Value
      <3> QED BY <2>4
    <2> QED BY <2>5, Zenon
  <1>6. Eq(after)
    BY <1>5, Zenon
  <1> HIDE DEF after
  <1>7. after[0] = [ok |-> TRUE, all |-> overlays]
    BY <1>1, <1>6
  <1>8. ASSUME NEW i \in 1..n, after[i - 1] \in T
        PROVE  after[i] \in T
    <2>1. i \in 0..n /\ i # 0
      BY <1>1
    <2>2. after[i] = Round(i, after[i - 1])
      <3>1. after[i] = IF ~after[i - 1].ok THEN after[i - 1]
                       ELSE StoreOverlay(after[i - 1].all, id, draws[i][1], draws[i][2])
        BY <1>6, <2>1
      <3> QED BY <3>1, Zenon
    <2> HIDE DEF Round
    <2> QED BY <1>4, <1>8, <2>2
  <1>9. after[n] \in T
    <2>1. n \in 0..n
      BY <1>1
    <2> HIDE DEF n, Eq, Round
    <2> QED BY <1>1, <1>3, <1>7, <1>8, <2>1, LoopKeeps
  <1> QED BY <1>2, <1>9 DEF T

(* The parts of ScriptsInv, for the steps that touch one of them.           *)
Synced ==
  /\ known # Outdated => known = scripts
  /\ DOMAIN shown \subseteq DOMAIN overlays
  /\ \A k \in DOMAIN overlays : k[1] \in DOMAIN scripts
Copied(all, copies) ==
  \A k \in DOMAIN all : ~all[k].updated => k \in DOMAIN copies /\ copies[k] = all[k].picture

LEMMA InSyncParts == ClientInSync <=> Synced /\ Copied(overlays, shown)
  BY DEF ClientInSync, Synced, Copied

LEMMA RemovalKeepsTypes ==
  ASSUME OverlaysTyped(overlays), NEW gone
  PROVE  OverlaysTyped(Removed(overlays, gone))
  <1> DEFINE new == Removed(overlays, gone)
  <1>1. DOMAIN new = DOMAIN overlays \ gone /\ new = [k \in DOMAIN new |-> new[k]]
    BY DEF Removed
  <1>2. \A k \in DOMAIN new : new[k] = overlays[k] /\ k \in DOMAIN overlays
    BY DEF Removed
  <1> HIDE DEF new
  <1>3. DOMAIN new \in SUBSET DOMAIN overlays
    BY <1>1
  <1>4. IsFiniteSet(DOMAIN overlays) /\ Cardinality(DOMAIN overlays) <= MaxTotal
    BY DEF OverlaysTyped
  <1>5. IsFiniteSet(DOMAIN new) /\ Cardinality(DOMAIN new) <= Cardinality(DOMAIN overlays)
    BY <1>3, <1>4, FS_Subset
  <1>6. Cardinality(DOMAIN new) \in Nat /\ Cardinality(DOMAIN overlays) \in Nat /\ MaxTotal \in Nat
    BY <1>4, <1>5, FS_CardinalityType, ScriptsAssumption
  <1>7. Cardinality(DOMAIN new) <= MaxTotal
    BY <1>4, <1>5, <1>6
  <1>8. OverlaysTyped(new)
    BY <1>1, <1>2, <1>5, <1>7 DEF OverlaysTyped
  <1> QED BY <1>8 DEF new

(* Overlays that go, go from the client's picture too (RemoveOverlays()).   *)
LEMMA RemovalKeepsSync ==
  ASSUME ScriptsInv, NEW ids, RemoveOverlays(ids)
  PROVE  /\ OverlaysTyped(overlays)' /\ Copied(overlays, shown)'
         /\ DOMAIN shown' \subseteq DOMAIN overlays'
         /\ \A k \in DOMAIN overlays' : k \in DOMAIN overlays /\ k[1] \notin ids
  <1> DEFINE Gone(f) == UNION {Of(id, f) : id \in ids}
  <1>1. overlays' = Removed(overlays, Gone(overlays)) /\ shown' = Removed(shown, Gone(shown))
    BY DEF RemoveOverlays
  <1>2. \A f : \A k \in DOMAIN f : k \in Gone(f) <=> k[1] \in ids
    BY DEF Of
  <1> HIDE DEF Gone
  <1>3. OverlaysTyped(overlays)'
    BY <1>1, RemovalKeepsTypes DEF ScriptsInv, OverlaysTyped
  <1>4. /\ DOMAIN overlays' = {k \in DOMAIN overlays : k[1] \notin ids}
        /\ DOMAIN shown' = {k \in DOMAIN shown : k[1] \notin ids}
    BY <1>1, <1>2 DEF Removed
  <1>5. /\ \A k \in DOMAIN overlays' : overlays'[k] = overlays[k]
        /\ \A k \in DOMAIN shown' : shown'[k] = shown[k]
    BY <1>1 DEF Removed
  <1>6. Copied(overlays, shown) /\ DOMAIN shown \subseteq DOMAIN overlays
    BY InSyncParts DEF ScriptsInv, Synced
  <1>7. DOMAIN shown' \subseteq DOMAIN overlays'
    BY <1>4, <1>6
  <1>8. ASSUME NEW k \in DOMAIN overlays', ~overlays'[k].updated
        PROVE  k \in DOMAIN shown' /\ shown'[k] = overlays'[k].picture
    BY <1>4, <1>5, <1>6, <1>8 DEF Copied
  <1>9. Copied(overlays, shown)'
    BY <1>8 DEF Copied
  <1> QED BY <1>3, <1>4, <1>7, <1>9

LEMMA RunKeeps ==
  ASSUME ScriptsInv, NEW id \in DOMAIN scripts, NEW draws \in Draws, NEW fails \in BOOLEAN,
         RunScript(id, draws, fails), checking' \subseteq checking
  PROVE  ScriptsInv'
  <1> DEFINE run == Drawn(id, draws)
             how == IF ~run.ok THEN "limit" ELSE IF fails THEN "error" ELSE "succeeded"
  <1>1. /\ overlays' = run.all /\ scripts' = [scripts EXCEPT ![id].runtime = how]
        /\ known' = (IF scripts[id].runtime = how THEN known ELSE Outdated)
        /\ nextId' = nextId /\ shown' = shown
    BY DEF RunScript
  <1>2. Redraws(id, run.all)
    BY DrawnRedraws DEF ScriptsInv
  <1>3. how \in Runtimes
    BY DEF Runtimes
  <1> HIDE DEF run, how
  <1>4. scripts \in [DOMAIN scripts -> Script] /\ scripts[id] \in Script
    BY DEF ScriptsInv, ScriptsTyped
  <1>5. [scripts[id] EXCEPT !.runtime = how] \in Script
    BY <1>3, <1>4 DEF Script
  <1>6. scripts' \in [DOMAIN scripts -> Script] /\ DOMAIN scripts' = DOMAIN scripts
    BY <1>1, <1>4, <1>5
  <1>7. ScriptsTyped'
    BY <1>1, <1>6 DEF ScriptsInv, ScriptsTyped
  <1>8. OverlaysTyped(overlays)'
    BY <1>1, <1>2 DEF Redraws, OverlaysTyped
  <1>9. scripts[id].runtime = how => scripts' = scripts
    BY <1>1, <1>4 DEF Script
  <1>10. Synced /\ Copied(overlays, shown)
    BY InSyncParts DEF ScriptsInv
  <1>11. Synced'
    <2>1. known' # Outdated => known' = scripts'
      BY <1>1, <1>9, <1>10 DEF Synced
    <2>2. DOMAIN shown' \subseteq DOMAIN overlays'
      BY <1>1, <1>2, <1>10 DEF Synced, Redraws
    <2>3. \A k \in DOMAIN overlays' : k[1] \in DOMAIN scripts'
      BY <1>1, <1>2, <1>6, <1>10 DEF Synced, Redraws
    <2> QED BY <2>1, <2>2, <2>3 DEF Synced, Outdated
  <1>12. Copied(overlays, shown)'
    BY <1>1, <1>2, <1>10 DEF Copied, Redraws
  <1>13. ClientInSync'
    BY <1>11, <1>12 DEF ClientInSync, Synced, Copied
  <1> QED BY <1>7, <1>8, <1>13 DEF ScriptsInv

LEMMA AddKeeps ==
  ASSUME ScriptsInv, NEW text \in Texts, NEW active \in BOOLEAN, NEW how \in Compilations,
         Add(text, active, how)
  PROVE  ScriptsInv'
  <1> DEFINE v == [text |-> text, active |-> active, compilation |-> how, runtime |-> "never"]
  <1>1. /\ Cardinality(DOMAIN scripts) < MaxRecords /\ nextId <= LastId
        /\ scripts' = With(scripts, nextId, v) /\ nextId' = nextId + 1 /\ known' = Outdated
        /\ overlays' = overlays /\ shown' = shown /\ checking' = {}
    BY DEF Add, Request
  <1>2. v \in Script
    BY DEF Script, Runtimes
  <1> HIDE DEF v
  <1>3. ScriptsTyped
    BY DEF ScriptsInv
  <1>4. nextId \in 0..LastId /\ LastId \in Nat
    BY <1>1, <1>3, ScriptsAssumption DEF ScriptsTyped
  <1>5. DOMAIN scripts' = DOMAIN scripts \cup {nextId} /\ scripts' \in [DOMAIN scripts' -> Script]
    BY <1>1, <1>2, <1>3 DEF ScriptsTyped, With
  <1>6. Cardinality(DOMAIN scripts') <= MaxRecords
    <2>2. IsFiniteSet(DOMAIN scripts)
      BY <1>3, <1>4, FiniteBelow DEF ScriptsTyped
    <2>3. /\ Cardinality(DOMAIN scripts) \in Nat /\ Cardinality(DOMAIN scripts) <= MaxRecords
          /\ MaxRecords \in Nat
      BY <1>3, <2>2, FS_CardinalityType, ScriptsAssumption DEF ScriptsTyped
    <2>4. Cardinality(DOMAIN scripts') =
            IF nextId \in DOMAIN scripts THEN Cardinality(DOMAIN scripts) ELSE Cardinality(DOMAIN scripts) + 1
      BY <1>5, <2>2, FS_AddElement
    <2> QED BY <1>1, <2>3, <2>4
  <1>7. ScriptsTyped'
    BY <1>1, <1>3, <1>4, <1>5, <1>6 DEF ScriptsTyped
  <1>8. OverlaysTyped(overlays)'
    BY <1>1 DEF ScriptsInv
  <1>9. ClientInSync'
    BY <1>1, <1>5 DEF ScriptsInv, ClientInSync, Outdated
  <1> QED BY <1>7, <1>8, <1>9 DEF ScriptsInv

(* Scripts that change, none being checked: what the records and the        *)
(* overlays of a script become.                                             *)
LEMMA ChangeKeeps ==
  ASSUME ScriptsInv, checking' = {}, nextId' = nextId,
         scripts' \in [DOMAIN scripts' -> Script], DOMAIN scripts' \subseteq DOMAIN scripts,
         known' # Outdated => known' = scripts',
         \/ overlays' = overlays /\ shown' = shown /\ DOMAIN scripts' = DOMAIN scripts
         \/ \E ids : RemoveOverlays(ids) /\ DOMAIN scripts \ ids \subseteq DOMAIN scripts'
  PROVE  ScriptsInv'
  <1>1. ScriptsTyped
    BY DEF ScriptsInv
  <1>2. Cardinality(DOMAIN scripts') <= MaxRecords
    <2>2. IsFiniteSet(DOMAIN scripts)
      BY <1>1, FiniteBelow, ScriptsAssumption DEF ScriptsTyped
    <2>3. /\ IsFiniteSet(DOMAIN scripts')
          /\ Cardinality(DOMAIN scripts') <= Cardinality(DOMAIN scripts)
      BY <2>2, FS_Subset
    <2>4. /\ Cardinality(DOMAIN scripts) \in Nat /\ Cardinality(DOMAIN scripts') \in Nat
          /\ MaxRecords \in Nat /\ Cardinality(DOMAIN scripts) <= MaxRecords
      BY <1>1, <2>2, <2>3, FS_CardinalityType, ScriptsAssumption DEF ScriptsTyped
    <2> QED BY <2>3, <2>4
  <1>3. ScriptsTyped'
    BY <1>1, <1>2 DEF ScriptsTyped
  <1>4. OverlaysTyped(overlays)' /\ Copied(overlays, shown)' /\ Synced'
    <2>1. Synced /\ Copied(overlays, shown)
      BY InSyncParts DEF ScriptsInv
    <2>2. CASE overlays' = overlays /\ shown' = shown /\ DOMAIN scripts' = DOMAIN scripts
      BY <2>1, <2>2 DEF ScriptsInv, Synced, Copied, Outdated
    <2>3. CASE \E ids : RemoveOverlays(ids) /\ DOMAIN scripts \ ids \subseteq DOMAIN scripts'
      <3>1. PICK ids : RemoveOverlays(ids) /\ DOMAIN scripts \ ids \subseteq DOMAIN scripts'
        BY <2>3
      <3>2. /\ OverlaysTyped(overlays)' /\ Copied(overlays, shown)'
            /\ DOMAIN shown' \subseteq DOMAIN overlays'
            /\ \A k \in DOMAIN overlays' : k \in DOMAIN overlays /\ k[1] \notin ids
        BY <3>1, RemovalKeepsSync
      <3>3. \A k \in DOMAIN overlays' : k[1] \in DOMAIN scripts'
        BY <2>1, <3>1, <3>2 DEF Synced
      <3> QED BY <3>2, <3>3 DEF Synced, Outdated
    <2> QED BY <2>2, <2>3
  <1> QED BY <1>3, <1>4 DEF ScriptsInv, ClientInSync, Synced, Copied

LEMMA EditKeeps ==
  ASSUME ScriptsInv, NEW id \in DOMAIN scripts, NEW text \in Texts, NEW active \in BOOLEAN,
         NEW how \in Compilations, Edit(id, text, active, how)
  PROVE  ScriptsInv'
  <1> DEFINE old == scripts[id]
             new == [old EXCEPT !.text = text, !.active = active]
             next == IF text[2] # old.text[2] THEN Compiled(new, how) ELSE new
  <1>1. /\ checking' = {} /\ scripts' = [scripts EXCEPT ![id] = next] /\ nextId' = nextId
        /\ known' = (IF new = old THEN known ELSE Outdated)
    BY DEF Edit, Request
  <1>2. (overlays' = overlays /\ shown' = shown) \/ RemoveOverlays({id})
    BY DEF Edit
  <1>3. scripts \in [DOMAIN scripts -> Script] /\ old \in Script
    BY DEF ScriptsInv, ScriptsTyped
  <1>4. new \in Script /\ new.text = text
    BY <1>3 DEF Script
  <1>5. Compiled(new, how) \in Script
    <2> HIDE DEF new
    <2> QED BY <1>4 DEF Compiled, Script, Runtimes
  <1>6. new = old => next = old
    BY <1>3, <1>4
  <1>7. next \in Script
    BY <1>4, <1>5
  <1> HIDE DEF next, new
  <1>8. scripts' \in [DOMAIN scripts' -> Script] /\ DOMAIN scripts' = DOMAIN scripts
    BY <1>1, <1>3, <1>7
  <1>9. new = old => scripts' = scripts
    BY <1>1, <1>3, <1>6
  <1>10. known' # Outdated => known' = scripts'
    BY <1>1, <1>9 DEF ScriptsInv, ClientInSync
  <1>11. \/ overlays' = overlays /\ shown' = shown /\ DOMAIN scripts' = DOMAIN scripts
         \/ \E ids : RemoveOverlays(ids) /\ DOMAIN scripts \ ids \subseteq DOMAIN scripts'
    <2>1. DOMAIN scripts \ {id} \subseteq DOMAIN scripts'
      BY <1>8
    <2> QED BY <1>2, <1>8, <2>1, Zenon
  <1>12. DOMAIN scripts' \subseteq DOMAIN scripts
    BY <1>8
  <1> QED BY <1>1, <1>8, <1>10, <1>11, <1>12, ChangeKeeps

LEMMA CompileKeeps ==
  ASSUME ScriptsInv, NEW id \in DOMAIN scripts, NEW how \in Compilations, Compile(id, how)
  PROVE  ScriptsInv'
  <1>1. /\ checking' = {} /\ scripts' = [scripts EXCEPT ![id] = Compiled(scripts[id], how)]
        /\ known' = Outdated /\ nextId' = nextId /\ overlays' = overlays /\ shown' = shown
    BY DEF Compile, Request
  <1>2. scripts \in [DOMAIN scripts -> Script] /\ scripts[id] \in Script
    BY DEF ScriptsInv, ScriptsTyped
  <1>3. Compiled(scripts[id], how) \in Script
    BY <1>2 DEF Compiled, Script, Runtimes
  <1>4. scripts' \in [DOMAIN scripts' -> Script] /\ DOMAIN scripts' = DOMAIN scripts
    BY <1>1, <1>2, <1>3
  <1> QED BY <1>1, <1>4, ChangeKeeps

LEMMA DisableKeeps ==
  ASSUME ScriptsInv, NEW ids, ids \subseteq DOMAIN scripts, DisableAll(ids)
  PROVE  ScriptsInv'
  <1> DEFINE Off(id) == IF id \in ids THEN [scripts[id] EXCEPT !.active = FALSE] ELSE scripts[id]
  <1>1. /\ checking' = {} /\ RemoveOverlays(ids) /\ nextId' = nextId
        /\ scripts' = [id \in DOMAIN scripts |-> Off(id)]
        /\ known' = (IF \E id \in ids : scripts[id].active THEN Outdated ELSE known)
    BY DEF DisableAll, Request
  <1>2. scripts \in [DOMAIN scripts -> Script]
    BY DEF ScriptsInv, ScriptsTyped
  <1>3. \A id \in DOMAIN scripts : Off(id) \in Script /\ (~scripts[id].active => Off(id) = scripts[id])
    BY <1>2 DEF Script
  <1>4. \A id \in DOMAIN scripts : id \notin ids => Off(id) = scripts[id]
    OBVIOUS
  <1> HIDE DEF Off
  <1>5. scripts' \in [DOMAIN scripts' -> Script] /\ DOMAIN scripts' = DOMAIN scripts
    BY <1>1, <1>3
  <1>6. ~(\E id \in ids : scripts[id].active) => scripts' = scripts
    BY <1>1, <1>2, <1>3, <1>4
  <1>7. known' # Outdated => known' = scripts'
    BY <1>1, <1>6 DEF ScriptsInv, ClientInSync
  <1>8. \E gone : RemoveOverlays(gone) /\ DOMAIN scripts \ gone \subseteq DOMAIN scripts'
    BY <1>1, <1>5
  <1>9. DOMAIN scripts' \subseteq DOMAIN scripts
    BY <1>5
  <1> QED BY <1>1, <1>5, <1>7, <1>8, <1>9, ChangeKeeps

LEMMA DeleteKeeps ==
  ASSUME ScriptsInv, NEW ids, DeleteAll(ids)
  PROVE  ScriptsInv'
  <1>1. /\ checking' = {} /\ RemoveOverlays(ids) /\ nextId' = nextId
        /\ scripts' = Removed(scripts, ids) /\ known' = Outdated
    BY DEF DeleteAll, Request
  <1>2. scripts \in [DOMAIN scripts -> Script]
    BY DEF ScriptsInv, ScriptsTyped
  <1>3. scripts' \in [DOMAIN scripts' -> Script] /\ DOMAIN scripts' = DOMAIN scripts \ ids
    BY <1>1, <1>2 DEF Removed
  <1>4. \E gone : RemoveOverlays(gone) /\ DOMAIN scripts \ gone \subseteq DOMAIN scripts'
    BY <1>1, <1>3
  <1>5. DOMAIN scripts' \subseteq DOMAIN scripts
    BY <1>3
  <1> QED BY <1>1, <1>3, <1>4, <1>5, ChangeKeeps

(* Marks taken off and marks put on (GetOverlayUpdatesJson(),               *)
(* MarkAllOverlaysUpdated()).                                               *)
LEMMA MarksKeepTypes ==
  ASSUME OverlaysTyped(overlays), NEW b \in BOOLEAN,
         overlays' = [k \in DOMAIN overlays |-> [overlays[k] EXCEPT !.updated = b]]
  PROVE  /\ OverlaysTyped(overlays)' /\ DOMAIN overlays' = DOMAIN overlays
         /\ \A k \in DOMAIN overlays :
              overlays'[k].updated = b /\ overlays'[k].picture = overlays[k].picture
  <1>1. DOMAIN overlays' = DOMAIN overlays /\ overlays' = [k \in DOMAIN overlays' |-> overlays'[k]]
    OBVIOUS
  <1>2. ASSUME NEW k \in DOMAIN overlays
        PROVE  /\ overlays'[k].updated = b /\ overlays'[k].picture = overlays[k].picture
               /\ Overlay(overlays'[k])
    <2> DEFINE o == overlays[k]
    <2>1. overlays'[k] = [o EXCEPT !.updated = b] /\ o = [picture |-> o.picture, updated |-> o.updated]
      BY DEF OverlaysTyped, Overlay
    <2> HIDE DEF o
    <2>2. overlays'[k] = [picture |-> o.picture, updated |-> b]
      BY <2>1
    <2> QED BY <2>2 DEF Overlay, o
  <1>3. OverlaysTyped(overlays)'
    BY <1>1, <1>2 DEF OverlaysTyped
  <1> QED BY <1>1, <1>2, <1>3

LEMMA ScriptsInitially == ScriptsInit => ScriptsInv
  <1> SUFFICES ASSUME ScriptsInit PROVE ScriptsInv
    OBVIOUS
  <1>1. DOMAIN scripts = {} /\ DOMAIN overlays = {} /\ DOMAIN shown = {} /\ nextId = 0 /\ checking = {}
    BY DEF ScriptsInit
  <1>2. IsFiniteSet({}) /\ Cardinality({}) = 0
    BY FS_EmptySet
  <1>3. scripts \in [DOMAIN scripts -> Script] /\ overlays = [k \in DOMAIN overlays |-> overlays[k]]
    BY DEF ScriptsInit
  <1>4. ScriptsTyped
    BY <1>1, <1>2, <1>3, ScriptsAssumption DEF ScriptsTyped
  <1>5. OverlaysTyped(overlays)
    BY <1>1, <1>2, <1>3, ScriptsAssumption DEF OverlaysTyped
  <1>6. ClientInSync
    BY <1>1 DEF ClientInSync, ScriptsInit
  <1> QED BY <1>4, <1>5, <1>6 DEF ScriptsInv

LEMMA ScriptsStep == ScriptsInv /\ [ScriptsNext]_scriptVars => ScriptsInv'
  <1> SUFFICES ASSUME ScriptsInv, [ScriptsNext]_scriptVars PROVE ScriptsInv'
    OBVIOUS
  <1>1. CASE UNCHANGED scriptVars
    BY <1>1 DEF scriptVars, ScriptsInv, ScriptsTyped, OverlaysTyped, ClientInSync, Outdated
  <1>2. ASSUME NEW text \in Texts, NEW active \in BOOLEAN, NEW how \in Compilations,
               Add(text, active, how)
        PROVE  ScriptsInv'
    BY <1>2, AddKeeps
  <1>3. ASSUME NEW text \in Texts, NEW active \in BOOLEAN, NEW how \in Compilations,
               NEW id \in DOMAIN scripts, Edit(id, text, active, how)
        PROVE  ScriptsInv'
    BY <1>3, EditKeeps
  <1>4. ASSUME NEW ids, ids \subseteq DOMAIN scripts, DisableAll(ids)
        PROVE  ScriptsInv'
    BY <1>4, DisableKeeps
  <1>5. ASSUME NEW ids, DeleteAll(ids)
        PROVE  ScriptsInv'
    BY <1>5, DeleteKeeps
  <1>6. ASSUME NEW id \in DOMAIN scripts, NEW how \in Compilations, Compile(id, how)
        PROVE  ScriptsInv'
    BY <1>6, CompileKeeps
  <1>7. ASSUME NEW id \in DOMAIN scripts, NEW draws \in Draws, NEW fails \in BOOLEAN,
               RunOnce(id, draws, fails) \/ CheckRuns(id, draws, fails)
        PROVE  ScriptsInv'
    <2>1. RunScript(id, draws, fails) /\ checking' \subseteq checking
      BY <1>7 DEF RunOnce, Request, CheckRuns
    <2> QED BY <2>1, RunKeeps
  <1>8. CASE GetAll
    BY <1>8 DEF GetAll, Request, ScriptsInv, ScriptsTyped, OverlaysTyped, ClientInSync, Outdated
  <1>9. CASE GetOverlayUpdates
    <2> DEFINE new == {k \in DOMAIN overlays : overlays[k].updated}
    <2>1. /\ overlays' = [k \in DOMAIN overlays |-> [overlays[k] EXCEPT !.updated = FALSE]]
          /\ shown' = [k \in DOMAIN shown \cup new |-> IF k \in new THEN overlays[k].picture ELSE shown[k]]
          /\ scripts' = scripts /\ nextId' = nextId /\ known' = known /\ checking' = checking
      BY <1>9 DEF GetOverlayUpdates, Request
    <2>2. /\ OverlaysTyped(overlays)' /\ DOMAIN overlays' = DOMAIN overlays
          /\ \A k \in DOMAIN overlays : overlays'[k].picture = overlays[k].picture
      BY <2>1, MarksKeepTypes DEF ScriptsInv
    <2>3. /\ DOMAIN shown' = DOMAIN shown \cup new
          /\ \A k \in new : shown'[k] = overlays[k].picture
          /\ \A k \in DOMAIN shown \ new : shown'[k] = shown[k]
      BY <2>1
    <2>4. \A k \in DOMAIN overlays : k \in new <=> overlays[k].updated
      OBVIOUS
    <2>5. new \subseteq DOMAIN overlays
      OBVIOUS
    <2> HIDE DEF new
    <2>6. ClientInSync'
      <3>1. known' # Outdated => known' = scripts'
        BY <2>1 DEF ScriptsInv, ClientInSync
      <3>2. DOMAIN shown' \subseteq DOMAIN overlays'
        BY <2>2, <2>3, <2>5 DEF ScriptsInv, ClientInSync
      <3>3. \A k \in DOMAIN overlays' : k \in DOMAIN shown' /\ shown'[k] = overlays'[k].picture
        BY <2>2, <2>3, <2>4 DEF ScriptsInv, ClientInSync
      <3>4. \A k \in DOMAIN overlays' : k[1] \in DOMAIN scripts'
        BY <2>1, <2>2 DEF ScriptsInv, ClientInSync
      <3> QED BY <3>1, <3>2, <3>3, <3>4 DEF ClientInSync, Outdated
    <2>7. ScriptsTyped'
      BY <2>1 DEF ScriptsInv, ScriptsTyped
    <2> QED BY <2>2, <2>6, <2>7 DEF ScriptsInv
  <1>10. CASE NewClient
    <2>1. /\ overlays' = [k \in DOMAIN overlays |-> [overlays[k] EXCEPT !.updated = TRUE]]
          /\ shown' = [k \in {} |-> k] /\ known' = Outdated
          /\ scripts' = scripts /\ nextId' = nextId /\ checking' = checking
      BY <1>10 DEF NewClient, Request
    <2>2. /\ OverlaysTyped(overlays)' /\ DOMAIN overlays' = DOMAIN overlays
          /\ \A k \in DOMAIN overlays : overlays'[k].updated = TRUE
      BY <2>1, MarksKeepTypes DEF ScriptsInv
    <2>3. ClientInSync'
      <3>1. DOMAIN shown' = {}
        BY <2>1
      <3> QED BY <2>1, <2>2, <3>1 DEF ScriptsInv, ClientInSync, Outdated
    <2>4. ScriptsTyped'
      BY <2>1 DEF ScriptsInv, ScriptsTyped
    <2> QED BY <2>2, <2>3, <2>4 DEF ScriptsInv
  <1>11. CASE Check
    <2>1. /\ checking' \subseteq DOMAIN scripts
          /\ UNCHANGED <<scripts, nextId, overlays, known, shown>>
      BY <1>11 DEF Check
    <2> QED BY <2>1 DEF ScriptsInv, ScriptsTyped, OverlaysTyped, ClientInSync, Outdated
  <1> QED
    <2>1. CASE \E text \in Texts, active \in BOOLEAN, how \in Compilations :
                 Add(text, active, how) \/ \E id \in DOMAIN scripts : Edit(id, text, active, how)
      BY <1>2, <1>3, <2>1
    <2>2. CASE \E id \in DOMAIN scripts :
                 \/ Disable(id) \/ Del(id)
                 \/ \E how \in Compilations : Compile(id, how)
                 \/ \E draws \in Draws, fails \in BOOLEAN :
                      RunOnce(id, draws, fails) \/ CheckRuns(id, draws, fails)
      <3>1. PICK id \in DOMAIN scripts :
                 \/ Disable(id) \/ Del(id)
                 \/ \E how \in Compilations : Compile(id, how)
                 \/ \E draws \in Draws, fails \in BOOLEAN :
                      RunOnce(id, draws, fails) \/ CheckRuns(id, draws, fails)
        BY <2>2
      <3>2. {id} \subseteq DOMAIN scripts
        OBVIOUS
      <3>3. CASE Disable(id)
        BY <1>4, <3>2, <3>3 DEF Disable
      <3>4. CASE Del(id)
        BY <1>5, <3>4 DEF Del
      <3>5. CASE \E how \in Compilations : Compile(id, how)
        BY <1>6, <3>5
      <3>6. CASE \E draws \in Draws, fails \in BOOLEAN :
                   RunOnce(id, draws, fails) \/ CheckRuns(id, draws, fails)
        BY <1>7, <3>6
      <3> QED BY <3>1, <3>3, <3>4, <3>5, <3>6
    <2>3. CASE DisableAll(DOMAIN scripts) \/ DeleteAll(DOMAIN scripts)
      BY <1>4, <1>5, <2>3
    <2> QED BY <1>1, <1>8, <1>9, <1>10, <1>11, <2>1, <2>2, <2>3 DEF ScriptsNext

ScriptsSpec == ScriptsInit /\ [][ScriptsNext]_scriptVars

(* The client that polls for scripts and overlays is told all there is,     *)
(* whatever runs, fails, is edited, disabled or deleted meanwhile.          *)
THEOREM ScriptsClientInSync == ScriptsSpec => []ClientInSync
  <1>1. ScriptsInv => ClientInSync
    BY DEF ScriptsInv
  <1> QED BY <1>1, ScriptsInitially, ScriptsStep, PTL DEF ScriptsSpec

LEMMA ScriptsAreTyped == ScriptsInv => ScriptsTypeOK
  <1> SUFFICES ASSUME ScriptsInv PROVE ScriptsTypeOK
    OBVIOUS
  <1>1. ScriptsTyped /\ OverlaysTyped(overlays)
    BY DEF ScriptsInv
  <1>2. \A id \in DOMAIN scripts :
          /\ scripts[id].text \in Texts /\ scripts[id].active \in BOOLEAN
          /\ scripts[id].compilation \in Compilations /\ scripts[id].runtime \in Runtimes
    BY <1>1 DEF ScriptsTyped, Script
  <1> QED BY <1>1, <1>2 DEF ScriptsTypeOK, ScriptsTyped, OverlaysTyped, Overlay

(* Scripts, their statuses and the overlays keep their shapes and their    *)
(* numbers the limits (MAX_RECORDS, MAX_OVERLAYS_PER_SCRIPT and            *)
(* MAX_OVERLAYS_TOTAL of Scripts).                                         *)
THEOREM ScriptsTypesCorrect == ScriptsSpec => []ScriptsTypeOK
  BY ScriptsAreTyped, ScriptsInitially, ScriptsStep, PTL DEF ScriptsSpec

-----------------------------------------------------------------------------
(* Code performance: what Told() says of a trail that grows.                *)
TrailEvent == [at : {"start", "end", "cut"}, clock : 0..MaxClock]
Sums == [count : 0..MaxTests, total : Nat]

LEMMA ToldGrows ==
  /\ Told(<<>>) = [count |-> 0, total |-> 0]
  /\ \A trail \in Seq(TrailEvent) : Told(trail) \in Sums
  /\ \A trail \in Seq(TrailEvent), e \in TrailEvent :
       Told(Append(trail, e)) =
         IF /\ trail # <<>> /\ trail[Len(trail)].at = "start" /\ e.at = "end"
            /\ trail[Len(trail)].clock <= e.clock /\ Told(trail).count < MaxTests
         THEN [count |-> Told(trail).count + 1,
               total |-> Told(trail).total + e.clock - trail[Len(trail)].clock]
         ELSE Told(trail)
  <1> DEFINE zero == [count |-> 0, total |-> 0]
             Round(trail, i, s) ==
               IF PassEndsAt(trail, i) /\ s.count < MaxTests
               THEN [count |-> s.count + 1, total |-> s.total + trail[i].clock - trail[i - 1].clock]
               ELSE s
             Eq(trail, f) ==
               f = [n \in 0..Len(trail) |->
                      IF n = 0 THEN zero
                      ELSE IF PassEndsAt(trail, n) /\ f[n - 1].count < MaxTests
                      THEN [count |-> f[n - 1].count + 1,
                            total |-> f[n - 1].total + trail[n].clock - trail[n - 1].clock]
                      ELSE f[n - 1]]
             sums(trail) == CHOOSE f : Eq(trail, f)
  <1>1. \A trail : Told(trail) = sums(trail)[Len(trail)]
    BY Zenon DEF Told
  <1>2. MaxTests \in Nat \ {0} /\ MaxClock \in Nat
    BY CodePerfAssumption
  <1>3. zero \in Sums
    BY <1>2 DEF Sums
  <1>4. ASSUME NEW trail \in Seq(TrailEvent), NEW i \in 1..Len(trail), NEW s \in Sums
        PROVE  Round(trail, i, s) \in Sums
    <2>1. CASE PassEndsAt(trail, i) /\ s.count < MaxTests
      <3>1. i \in Nat /\ i - 1 \in 1..Len(trail) /\ trail[i - 1].clock <= trail[i].clock
        BY <2>1 DEF PassEndsAt
      <3>2. trail[i] \in TrailEvent /\ trail[i - 1] \in TrailEvent
        BY <3>1
      <3>3. trail[i].clock \in Nat /\ trail[i - 1].clock \in Nat
        BY <3>2, <1>2 DEF TrailEvent
      <3>4. s.count + 1 \in 0..MaxTests /\ s.total + trail[i].clock - trail[i - 1].clock \in Nat
        BY <2>1, <3>1, <3>3, <1>2, SMTT(30) DEF Sums
      <3> QED BY <2>1, <3>4 DEF Sums
    <2>2. CASE ~(PassEndsAt(trail, i) /\ s.count < MaxTests)
      BY <2>2
    <2> QED BY <2>1, <2>2
  <1>5. ASSUME NEW trail \in Seq(TrailEvent)
        PROVE  Eq(trail, sums(trail))
    <2> DEFINE n == Len(trail)
               round == [i \in 1..n |-> [s \in Sums |-> Round(trail, i, s)]]
    <2>1. \A i \in 1..n, s \in Sums : round[i][s] = Round(trail, i, s)
      <3> HIDE DEF Round
      <3> QED OBVIOUS
    <2>2. round \in [1..n -> [Sums -> Sums]]
      <3> HIDE DEF Round
      <3> QED BY <1>4
    <2>3. n \in Nat
      OBVIOUS
    <2> HIDE DEF round, zero
    <2>4. PICK f \in [0..n -> Sums] : f[0] = zero /\ \A i \in 1..n : f[i] = round[i][f[i - 1]]
      <3> DEFINE T == Sums
      <3>1. zero \in T /\ round \in [1..n -> [T -> T]] /\ n \in Nat
        BY <1>3, <2>2, <2>3
      <3> HIDE DEF n, T
      <3>2. Loops(n, T, zero, round)
        BY <3>1, LoopExists
      <3> QED BY <3>2, Zenon DEF Loops, T
    <2> DEFINE Value(i) == IF i = 0 THEN zero
                           ELSE IF PassEndsAt(trail, i) /\ f[i - 1].count < MaxTests
                           THEN [count |-> f[i - 1].count + 1,
                                 total |-> f[i - 1].total + trail[i].clock - trail[i - 1].clock]
                           ELSE f[i - 1]
    <2>5. ASSUME NEW i \in 0..n PROVE f[i] = Value(i)
      <3>1. CASE i = 0
        BY <2>4, <3>1
      <3>2. CASE i # 0
        <4>1. i \in 1..n /\ i - 1 \in 0..n
          BY <2>3, <3>2
        <4>2. f[i] = Round(trail, i, f[i - 1])
          <5> HIDE DEF Round
          <5> QED BY <2>1, <2>4, <4>1
        <4> QED BY <3>2, <4>2, Zenon
      <3> QED BY <3>1, <3>2
    <2>6. f = [i \in 0..n |-> Value(i)]
      <3> HIDE DEF Value
      <3> QED BY <2>4, <2>5
    <2>7. Eq(trail, f)
      BY <2>6, Zenon
    <2> HIDE DEF Eq
    <2> QED BY <2>7, Zenon
  <1>6. ASSUME NEW trail \in Seq(TrailEvent)
        PROVE  /\ sums(trail)[0] = zero
               /\ \A i \in 1..Len(trail) : sums(trail)[i] = Round(trail, i, sums(trail)[i - 1])
    <2> DEFINE f == sums(trail)
    <2>1. Eq(trail, f) /\ Len(trail) \in Nat
      <3>1. Len(trail) \in Nat
        OBVIOUS
      <3> HIDE DEF sums, Eq
      <3> QED BY <1>5, <3>1
    <2> HIDE DEF f
    <2>2. f[0] = zero
      BY <2>1
    <2>3. ASSUME NEW i \in 1..Len(trail) PROVE f[i] = Round(trail, i, f[i - 1])
      <3>1. i \in 0..Len(trail) /\ i # 0
        BY <2>1
      <3>2. f[i] = IF PassEndsAt(trail, i) /\ f[i - 1].count < MaxTests
                   THEN [count |-> f[i - 1].count + 1,
                         total |-> f[i - 1].total + trail[i].clock - trail[i - 1].clock]
                   ELSE f[i - 1]
        BY <2>1, <3>1
      <3> QED BY <3>2, Zenon
    <2> QED BY <2>2, <2>3 DEF f
  <1> HIDE DEF sums, Round, zero
  <1>7. ASSUME NEW trail \in Seq(TrailEvent)
        PROVE  \A i \in 0..Len(trail) : sums(trail)[i] \in Sums
    <2> DEFINE f == sums(trail)
    <2>1. Len(trail) \in Nat /\ f[0] \in Sums
      BY <1>3, <1>6
    <2>2. \A i \in 1..Len(trail) : f[i - 1] \in Sums => f[i] \in Sums
      BY <1>4, <1>6
    <2> HIDE DEF f
    <2>3. \A i \in 0..Len(trail) : f[i] \in Sums
      BY <2>1, <2>2, LoopKeeps
    <2> QED BY <2>3 DEF f
  <1>8. Told(<<>>) = zero
    <2>1. <<>> \in Seq(TrailEvent) /\ Len(<<>>) = 0
      OBVIOUS
    <2> QED BY <1>1, <1>6, <2>1
  <1>9. \A trail \in Seq(TrailEvent) : Told(trail) \in Sums
    <2>1. \A trail \in Seq(TrailEvent) : Len(trail) \in 0..Len(trail)
      OBVIOUS
    <2> QED BY <1>1, <1>7, <2>1
  <1>10. ASSUME NEW trail \in Seq(TrailEvent), NEW e \in TrailEvent
         PROVE  Told(Append(trail, e)) = Round(Append(trail, e), Len(trail) + 1, Told(trail))
    <2> DEFINE more == Append(trail, e)
               n == Len(trail)
               S == {i \in 0..n : sums(more)[i] = sums(trail)[i]}
    <2>1. n \in Nat /\ more \in Seq(TrailEvent) /\ Len(more) = n + 1 /\ \A i \in 1..n : more[i] = trail[i]
      OBVIOUS
    <2> HIDE DEF more, n
    <2>2. ASSUME NEW i \in 1..n PROVE PassEndsAt(more, i) <=> PassEndsAt(trail, i)
      <3>1. i - 1 \in 1..n \/ i = 1
        BY <2>1
      <3> QED BY <2>1, <3>1 DEF PassEndsAt
    <2>3. ASSUME NEW i \in 1..n, NEW s PROVE Round(more, i, s) = Round(trail, i, s)
      <3>1. i > 1 => i - 1 \in 1..n
        BY <2>1
      <3>2. PassEndsAt(more, i) => i > 1
        BY DEF PassEndsAt
      <3> QED BY <2>1, <2>2, <3>1, <3>2 DEF Round
    <2>4. 0 \in S
      BY <1>6, <2>1 DEF n
    <2>5. ASSUME NEW k \in 0..n - 1, k \in S PROVE k + 1 \in S
      <3>1. k + 1 \in 1..n /\ (k + 1) - 1 = k /\ k + 1 \in 1..n + 1 /\ k + 1 \in 0..n
        BY <2>1
      <3>2. sums(more)[k + 1] = Round(more, k + 1, sums(more)[k])
        BY <1>6, <2>1, <3>1
      <3>3. sums(trail)[k + 1] = Round(trail, k + 1, sums(trail)[k])
        BY <1>6, <3>1 DEF n
      <3>4. sums(more)[k] = sums(trail)[k]
        BY <2>5
      <3> QED BY <2>3, <3>1, <3>2, <3>3, <3>4
    <2>6. n \in S
      <3> HIDE DEF S
      <3>1. \A k \in 0..n : k \in S
        BY <2>1, <2>4, <2>5, Induct
      <3> QED BY <2>1, <3>1
    <2>7. sums(more)[n] = Told(trail)
      BY <1>1, <2>6 DEF n
    <2>8. sums(more)[n + 1] = Round(more, n + 1, sums(more)[n])
      <3>1. n + 1 \in 1..n + 1 /\ (n + 1) - 1 = n
        BY <2>1
      <3> QED BY <1>6, <2>1, <3>1
    <2> QED BY <1>1, <2>1, <2>7, <2>8 DEF more, n
  <1>11. ASSUME NEW trail \in Seq(TrailEvent), NEW e \in TrailEvent
         PROVE  LET n == Len(trail)
                IN  /\ n \in Nat /\ (trail # <<>> <=> n > 0)
                    /\ Append(trail, e)[n + 1] = e /\ (n > 0 => Append(trail, e)[n] = trail[n])
    OBVIOUS
  <1>12. ASSUME NEW trail \in Seq(TrailEvent), NEW e \in TrailEvent
         PROVE  Told(Append(trail, e)) =
                  IF /\ trail # <<>> /\ trail[Len(trail)].at = "start" /\ e.at = "end"
                     /\ trail[Len(trail)].clock <= e.clock /\ Told(trail).count < MaxTests
                  THEN [count |-> Told(trail).count + 1,
                        total |-> Told(trail).total + e.clock - trail[Len(trail)].clock]
                  ELSE Told(trail)
    <2> DEFINE n == Len(trail)
               more == Append(trail, e)
               sum == Told(trail)
    <2>1. /\ n \in Nat /\ (trail # <<>> <=> n > 0) /\ more[n + 1] = e
          /\ n > 0 => more[n] = trail[n]
      BY <1>11
    <2>2. Told(more) = Round(more, n + 1, sum)
      BY <1>10
    <2> HIDE DEF n, more, sum
    <2>3. (n + 1) - 1 = n /\ (n + 1 > 1 <=> n > 0)
      BY <2>1
    <2>4. Told(more) = IF /\ trail # <<>> /\ trail[n].at = "start" /\ e.at = "end"
                          /\ trail[n].clock <= e.clock /\ sum.count < MaxTests
                       THEN [count |-> sum.count + 1, total |-> sum.total + e.clock - trail[n].clock]
                       ELSE sum
      BY <2>1, <2>2, <2>3 DEF Round, PassEndsAt
    <2> QED BY <2>4 DEF n, more, sum
  <1> QED BY <1>8, <1>9, <1>12 DEF zero

Perf == [span : Spans, active : BOOLEAN, total : Nat, testCount : 0..MaxTests,
         sampleStart : {NoSample} \cup 0..MaxClock]
PerfsTyped ==
  /\ perfs \in [DOMAIN perfs -> Perf] /\ trails \in [DOMAIN perfs -> Seq(TrailEvent)]
  /\ nextPerf \in 0..(LastPerfId + 1) /\ DOMAIN perfs \subseteq 0..(nextPerf - 1)
  /\ Cardinality(DOMAIN perfs) <= MaxPerfs
(* What one record says of its trail. *)
Sampled(r, trail) ==
  /\ r.testCount = Told(trail).count /\ r.total = Told(trail).total
  /\ r.sampleStart = IF r.testCount < MaxTests /\ trail # <<>> /\ trail[Len(trail)].at = "start"
                     THEN trail[Len(trail)].clock ELSE NoSample
PerfInv == PerfsTyped /\ SamplesExact

LEMMA SamplesOfAll == SamplesExact <=> \A id \in DOMAIN perfs : Sampled(perfs[id], trails[id])
  BY DEF SamplesExact, Sampled

LEMMA Appended ==
  ASSUME NEW S, NEW s \in Seq(S), NEW x \in S
  PROVE  /\ Append(s, x) \in Seq(S) /\ Append(s, x) # <<>>
         /\ Append(s, x)[Len(Append(s, x))] = x
  OBVIOUS

LEMMA LastEvent ==
  ASSUME NEW trail \in Seq(TrailEvent), trail # <<>>
  PROVE  trail[Len(trail)] \in TrailEvent
  OBVIOUS

LEMMA CutKeeps ==
  ASSUME NEW r \in Perf, NEW trail \in Seq(TrailEvent), Sampled(r, trail)
  PROVE  /\ Sampled(CancelSample(r), Cut(trail)) /\ CancelSample(r) \in Perf
         /\ Cut(trail) \in Seq(TrailEvent)
  <1> DEFINE e == [at |-> "cut", clock |-> 0]
             c == CancelSample(r)
  <1>1. e \in TrailEvent /\ e.at = "cut"
    BY CodePerfAssumption DEF TrailEvent
  <1>2. /\ c \in Perf /\ c.testCount = r.testCount /\ c.total = r.total /\ c.sampleStart = NoSample
    BY DEF CancelSample, Perf
  <1>3. CASE trail = <<>> \/ trail[Len(trail)].at = "cut"
    <2>1. Cut(trail) = trail
      BY <1>3 DEF Cut
    <2> HIDE DEF c
    <2> QED BY <1>2, <1>3, <2>1 DEF Sampled, c
  <1>4. CASE ~(trail = <<>> \/ trail[Len(trail)].at = "cut")
    <2>1. Cut(trail) = Append(trail, e)
      BY <1>4 DEF Cut
    <2> HIDE DEF c, e
    <2>2. Told(Append(trail, e)) = Told(trail)
      BY <1>1, ToldGrows
    <2>3. Append(trail, e) \in Seq(TrailEvent) /\ Append(trail, e)[Len(Append(trail, e))] = e
      BY <1>1, Appended
    <2> QED BY <1>1, <1>2, <2>1, <2>2, <2>3 DEF Sampled, c
  <1> QED BY <1>3, <1>4

(* One record at the end of an instruction (CheckPerf()).                   *)
LEMMA CheckKeeps ==
  ASSUME NEW r \in Perf, NEW trail \in Seq(TrailEvent), Sampled(r, trail),
         NEW addr, NEW clock \in 0..MaxClock
  PROVE  /\ Sampled(CheckPerf(r, addr, clock), Visit(trail, r, addr, clock))
         /\ CheckPerf(r, addr, clock) \in Perf /\ Visit(trail, r, addr, clock) \in Seq(TrailEvent)
  <1> DEFINE next == CheckPerf(r, addr, clock)
             more == Visit(trail, r, addr, clock)
             E(at) == [at |-> at, clock |-> clock]
             newest == trail[Len(trail)]
  <1>1. r.span[1] # r.span[2] /\ MaxClock \in Nat /\ MaxTests \in Nat
    BY CodePerfAssumption DEF Perf
  <1>2. E("start") \in TrailEvent /\ E("end") \in TrailEvent
    BY DEF TrailEvent
  <1>3. CASE ~r.active \/ addr \notin {r.span[1], r.span[2]}
    <2>1. next = r /\ more = trail
      BY <1>3 DEF CheckPerf, Visit
    <2> QED BY <2>1
  <1>4. CASE r.active /\ addr = r.span[1]
    <2>1. more = Append(trail, E("start"))
      BY <1>4 DEF Visit
    <2>2. Told(more) = Told(trail)
      BY <1>2, <2>1, ToldGrows
    <2>3. more \in Seq(TrailEvent) /\ more # <<>> /\ more[Len(more)] = E("start")
      BY <1>2, <2>1, Appended
    <2>4. CASE r.testCount < MaxTests
      <3>1. next = [r EXCEPT !.sampleStart = clock]
        BY <1>1, <1>4, <2>4 DEF CheckPerf
      <3>2. next \in Perf /\ next.testCount = r.testCount /\ next.total = r.total /\ next.sampleStart = clock
        BY <3>1 DEF Perf
      <3> HIDE DEF next, more
      <3> QED BY <2>2, <2>3, <2>4, <3>2 DEF Sampled, next, more
    <2>5. CASE ~(r.testCount < MaxTests)
      <3>1. next = r
        BY <1>1, <1>4, <2>5 DEF CheckPerf, Perf
      <3> HIDE DEF next, more
      <3> QED BY <2>2, <2>3, <2>5, <3>1 DEF Sampled, next, more
    <2> QED BY <2>4, <2>5
  <1>5. CASE r.active /\ addr = r.span[2]
    <2>0. addr # r.span[1]
      BY <1>1, <1>5
    <2>1. more = Append(trail, E("end"))
      BY <1>1, <1>5 DEF Visit
    <2>2. more \in Seq(TrailEvent) /\ more # <<>> /\ more[Len(more)] = E("end")
      BY <1>2, <2>1, Appended
    <2>3. Told(more) = IF /\ trail # <<>> /\ newest.at = "start" /\ newest.clock <= clock
                          /\ Told(trail).count < MaxTests
                       THEN [count |-> Told(trail).count + 1, total |-> Told(trail).total + clock - newest.clock]
                       ELSE Told(trail)
      BY <1>2, <2>1, ToldGrows
    <2>4. CASE ~(r.testCount < MaxTests)
      <3>1. next = r
        BY <1>1, <1>5, <2>4 DEF CheckPerf, Perf
      <3> HIDE DEF next, more, newest
      <3> QED BY <2>2, <2>3, <2>4, <3>1 DEF Sampled, next, more
    <2>5. CASE r.testCount < MaxTests /\ r.sampleStart = NoSample
      <3>1. next = r
        BY <2>0, <2>5 DEF CheckPerf
      <3>2. ~(trail # <<>> /\ newest.at = "start")
        <4> SUFFICES ASSUME trail # <<>>, newest.at = "start" PROVE FALSE
          OBVIOUS
        <4>1. newest \in TrailEvent
          BY LastEvent
        <4>2. newest.clock \in Nat
          BY <1>1, <4>1 DEF TrailEvent
        <4> QED BY <2>5, <4>2 DEF Sampled, NoSample
      <3> HIDE DEF next, more, newest
      <3> QED BY <2>2, <2>3, <2>5, <3>1, <3>2 DEF Sampled, next, more
    <2>6. CASE r.testCount < MaxTests /\ r.sampleStart # NoSample
      <3>1. trail # <<>> /\ newest.at = "start" /\ newest.clock = r.sampleStart
        BY <2>6 DEF Sampled
      <3>2. r.sampleStart \in 0..MaxClock
        BY <2>6 DEF Perf
      <3>3. CASE clock < r.sampleStart
        <4>1. next = CancelSample(r)
          BY <1>1, <1>5, <2>0, <2>6, <3>2, <3>3 DEF CheckPerf
        <4>2. next \in Perf /\ next.testCount = r.testCount /\ next.total = r.total /\ next.sampleStart = NoSample
          BY <4>1 DEF Perf, CancelSample
        <4>3. ~(newest.clock <= clock)
          BY <1>1, <3>1, <3>2, <3>3
        <4> HIDE DEF next, more, newest
        <4> QED BY <2>2, <2>3, <4>2, <4>3 DEF Sampled, next, more
      <3>4. CASE clock >= r.sampleStart
        <4> DEFINE sum == [r EXCEPT !.testCount = @ + 1, !.total = @ + clock - r.sampleStart]
        <4>1. next = CancelSample(sum)
          <5>1. ~(clock < r.sampleStart)
            BY <1>1, <3>2, <3>4
          <5> QED BY <1>5, <2>0, <2>6, <3>4, <5>1 DEF CheckPerf
        <4>2. r.testCount + 1 \in 0..MaxTests /\ r.total + clock - r.sampleStart \in Nat
          BY <1>1, <2>6, <3>2, <3>4 DEF Perf
        <4>3. /\ next \in Perf /\ next.testCount = r.testCount + 1 /\ next.sampleStart = NoSample
              /\ next.total = r.total + clock - r.sampleStart
          BY <4>1, <4>2 DEF Perf, CancelSample
        <4>4. Told(more) = [count |-> Told(trail).count + 1, total |-> Told(trail).total + clock - newest.clock]
          BY <1>1, <2>3, <2>6, <3>1, <3>2, <3>4 DEF Sampled
        <4> HIDE DEF next, more, newest
        <4> QED BY <2>2, <3>1, <4>3, <4>4 DEF Sampled, next, more
      <3> QED BY <1>1, <3>2, <3>3, <3>4
    <2> QED BY <2>4, <2>5, <2>6
  <1> QED BY <1>3, <1>4, <1>5

LEMMA PerfAddKeeps ==
  ASSUME PerfInv, NEW span \in Spans, NEW active \in BOOLEAN, AddCodePerf(span, active)
  PROVE  PerfInv'
  <1> DEFINE new == [span |-> span, active |-> active, total |-> 0, testCount |-> 0,
                     sampleStart |-> NoSample]
  <1>1. /\ Cardinality(DOMAIN perfs) < MaxPerfs /\ nextPerf <= LastPerfId
        /\ perfs' = [id \in DOMAIN perfs \cup {nextPerf} |-> IF id = nextPerf THEN new ELSE perfs[id]]
        /\ trails' = [id \in DOMAIN trails \cup {nextPerf} |-> IF id = nextPerf THEN <<>> ELSE trails[id]]
        /\ nextPerf' = nextPerf + 1
    BY DEF AddCodePerf
  <1>2. new \in Perf /\ Sampled(new, <<>>) /\ <<>> \in Seq(TrailEvent)
    BY CodePerfAssumption, ToldGrows DEF Perf, Sampled, NoSample
  <1> HIDE DEF new
  <1>3. PerfsTyped /\ DOMAIN trails = DOMAIN perfs
    BY DEF PerfInv, PerfsTyped
  <1>4. nextPerf \in 0..LastPerfId /\ LastPerfId \in Nat /\ nextPerf' - 1 = nextPerf
    BY <1>1, <1>3, CodePerfAssumption DEF PerfsTyped
  <1>5. /\ DOMAIN perfs' = DOMAIN perfs \cup {nextPerf} /\ DOMAIN trails' = DOMAIN perfs'
        /\ perfs'[nextPerf] = new /\ trails'[nextPerf] = <<>>
        /\ \A id \in DOMAIN perfs \ {nextPerf} : perfs'[id] = perfs[id] /\ trails'[id] = trails[id]
    BY <1>1, <1>3
  <1>6. perfs' \in [DOMAIN perfs' -> Perf] /\ trails' \in [DOMAIN perfs' -> Seq(TrailEvent)]
    BY <1>1, <1>2, <1>3, <1>5 DEF PerfsTyped
  <1>7. Cardinality(DOMAIN perfs') <= MaxPerfs
    <2>1. DOMAIN perfs \subseteq 0..LastPerfId
      BY <1>3, <1>4 DEF PerfsTyped
    <2>2. IsFiniteSet(DOMAIN perfs) /\ Cardinality(DOMAIN perfs) \in Nat
      BY <1>4, <2>1, FiniteBelow
    <2>3. Cardinality(DOMAIN perfs') =
            IF nextPerf \in DOMAIN perfs THEN Cardinality(DOMAIN perfs) ELSE Cardinality(DOMAIN perfs) + 1
      BY <1>5, <2>2, FS_AddElement
    <2> QED BY <1>1, <2>2, <2>3, CodePerfAssumption
  <1>8. DOMAIN perfs' \subseteq 0..(nextPerf' - 1)
    BY <1>3, <1>4, <1>5 DEF PerfsTyped
  <1>9. PerfsTyped'
    BY <1>1, <1>4, <1>6, <1>7, <1>8 DEF PerfsTyped
  <1>10. \A id \in DOMAIN perfs' : Sampled(perfs'[id], trails'[id])
    BY <1>2, <1>5, SamplesOfAll DEF PerfInv
  <1>11. SamplesExact'
    BY <1>10 DEF SamplesExact, Sampled
  <1> QED BY <1>9, <1>11 DEF PerfInv

(* Records that are checked, cut off or edited one by one, or deleted.      *)
LEMMA PerfChangeKeeps ==
  ASSUME PerfInv, nextPerf' = nextPerf, DOMAIN perfs' \subseteq DOMAIN perfs,
         perfs' = [id \in DOMAIN perfs' |-> perfs'[id]], trails' = [id \in DOMAIN perfs' |-> trails'[id]],
         \A id \in DOMAIN perfs' :
           perfs'[id] \in Perf /\ trails'[id] \in Seq(TrailEvent) /\ Sampled(perfs'[id], trails'[id])
  PROVE  PerfInv'
  <1>1. PerfsTyped
    BY DEF PerfInv
  <1>2. perfs' \in [DOMAIN perfs' -> Perf] /\ trails' \in [DOMAIN perfs' -> Seq(TrailEvent)]
    OBVIOUS
  <1>3. Cardinality(DOMAIN perfs') <= MaxPerfs
    <2>1. DOMAIN perfs \subseteq 0..LastPerfId /\ LastPerfId \in Nat
      BY <1>1, CodePerfAssumption DEF PerfsTyped
    <2>2. IsFiniteSet(DOMAIN perfs) /\ Cardinality(DOMAIN perfs) \in Nat
      BY <2>1, FiniteBelow
    <2>3. Cardinality(DOMAIN perfs') <= Cardinality(DOMAIN perfs) /\ IsFiniteSet(DOMAIN perfs')
      BY <2>2, FS_Subset
    <2>4. Cardinality(DOMAIN perfs') \in Nat
      BY <2>3, FS_CardinalityType
    <2> QED BY <1>1, <2>2, <2>3, <2>4, CodePerfAssumption DEF PerfsTyped
  <1>4. PerfsTyped'
    BY <1>1, <1>2, <1>3 DEF PerfsTyped
  <1>5. SamplesExact'
    BY DEF SamplesExact, Sampled
  <1> QED BY <1>4, <1>5 DEF PerfInv

LEMMA ExecuteKeeps ==
  ASSUME PerfInv, NEW addr, NEW clock \in 0..MaxClock, Execute(addr, clock)
  PROVE  PerfInv'
  <1>1. /\ perfs' = [id \in DOMAIN perfs |-> CheckPerf(perfs[id], addr, clock)]
        /\ trails' = [id \in DOMAIN perfs |-> Visit(trails[id], perfs[id], addr, clock)]
        /\ nextPerf' = nextPerf /\ DOMAIN perfs' = DOMAIN perfs
    BY DEF Execute, PerfInv, PerfsTyped
  <1>2. ASSUME NEW id \in DOMAIN perfs
        PROVE  /\ perfs'[id] \in Perf /\ trails'[id] \in Seq(TrailEvent)
               /\ Sampled(perfs'[id], trails'[id])
    <2>1. perfs[id] \in Perf /\ trails[id] \in Seq(TrailEvent) /\ Sampled(perfs[id], trails[id])
      BY SamplesOfAll DEF PerfInv, PerfsTyped
    <2> QED BY <1>1, <2>1, CheckKeeps
  <1> QED BY <1>1, <1>2, PerfChangeKeeps

LEMMA CancelKeeps ==
  ASSUME PerfInv, CancelCodePerfSamples
  PROVE  PerfInv'
  <1>1. /\ perfs' = [id \in DOMAIN perfs |-> CancelSample(perfs[id])]
        /\ trails' = [id \in DOMAIN perfs |-> Cut(trails[id])]
        /\ nextPerf' = nextPerf /\ DOMAIN perfs' = DOMAIN perfs
    BY DEF CancelCodePerfSamples, PerfInv, PerfsTyped
  <1>2. ASSUME NEW id \in DOMAIN perfs
        PROVE  /\ perfs'[id] \in Perf /\ trails'[id] \in Seq(TrailEvent)
               /\ Sampled(perfs'[id], trails'[id])
    <2>1. perfs[id] \in Perf /\ trails[id] \in Seq(TrailEvent) /\ Sampled(perfs[id], trails[id])
      BY SamplesOfAll DEF PerfInv, PerfsTyped
    <2> QED BY <1>1, <2>1, CutKeeps
  <1> QED BY <1>1, <1>2, PerfChangeKeeps

LEMMA DelKeeps ==
  ASSUME PerfInv, NEW ids, DelCodePerfs(ids)
  PROVE  PerfInv'
  <1>1. /\ perfs' = [id \in DOMAIN perfs \ ids |-> perfs[id]]
        /\ trails' = [id \in DOMAIN perfs \ ids |-> trails[id]]
        /\ nextPerf' = nextPerf /\ DOMAIN perfs' = DOMAIN perfs \ ids
    BY DEF DelCodePerfs, PerfInv, PerfsTyped
  <1>2. ASSUME NEW id \in DOMAIN perfs'
        PROVE  /\ perfs'[id] \in Perf /\ trails'[id] \in Seq(TrailEvent)
               /\ Sampled(perfs'[id], trails'[id])
    BY <1>1, SamplesOfAll DEF PerfInv, PerfsTyped
  <1> QED BY <1>1, <1>2, PerfChangeKeeps

LEMMA EditPerfKeeps ==
  ASSUME PerfInv, NEW id \in DOMAIN perfs, NEW span \in Spans, NEW active \in BOOLEAN,
         EditCodePerf(id, span, active)
  PROVE  PerfInv'
  <1> DEFINE old == perfs[id]
             new == [old EXCEPT !.span = span, !.active = active]
             moved == span # old.span
             switched == active # old.active
             r == IF moved THEN ResetStatistics(new) ELSE IF switched THEN CancelSample(new) ELSE new
             trail == IF moved THEN <<>> ELSE IF switched THEN Cut(trails[id]) ELSE trails[id]
  <1>1. perfs' = [perfs EXCEPT ![id] = r] /\ trails' = [trails EXCEPT ![id] = trail] /\ nextPerf' = nextPerf
    BY DEF EditCodePerf
  <1>2. old \in Perf /\ trails[id] \in Seq(TrailEvent) /\ Sampled(old, trails[id])
    BY SamplesOfAll DEF PerfInv, PerfsTyped
  <1>3. /\ new \in Perf /\ new.testCount = old.testCount /\ new.total = old.total
        /\ new.sampleStart = old.sampleStart
    BY <1>2 DEF Perf
  <1>4. Sampled(new, trails[id])
    <2> HIDE DEF new, old
    <2> QED BY <1>2, <1>3 DEF Sampled
  <1> HIDE DEF new, old
  <1>5. r \in Perf /\ trail \in Seq(TrailEvent) /\ Sampled(r, trail)
    <2>1. CASE moved
      <3> DEFINE cleared == ResetStatistics(new)
      <3>0. /\ cleared \in Perf /\ cleared.total = 0 /\ cleared.testCount = 0
            /\ cleared.sampleStart = NoSample
        <4>1. 0 \in 0..MaxTests /\ 0 \in Nat
          BY CodePerfAssumption
        <4> QED BY <1>3, <4>1 DEF ResetStatistics, Perf
      <3> HIDE DEF cleared
      <3>1. /\ r \in Perf /\ r.total = 0 /\ r.testCount = 0 /\ r.sampleStart = NoSample
        <4>1. r = cleared
          BY <2>1, Zenon DEF cleared
        <4> HIDE DEF r
        <4> QED BY <3>0, <4>1
      <3>2. trail = <<>> /\ <<>> \in Seq(TrailEvent)
        BY <2>1
      <3> HIDE DEF r, trail
      <3> QED BY <3>1, <3>2, ToldGrows DEF Sampled
    <2>2. CASE ~moved /\ switched
      BY <1>2, <1>3, <1>4, <2>2, CutKeeps
    <2>3. CASE ~moved /\ ~switched
      BY <1>2, <1>3, <1>4, <2>3
    <2> QED BY <2>1, <2>2, <2>3
  <1> HIDE DEF r, trail
  <1>6. /\ DOMAIN perfs' = DOMAIN perfs /\ DOMAIN trails = DOMAIN perfs
        /\ perfs = [i \in DOMAIN perfs |-> perfs[i]] /\ trails = [i \in DOMAIN perfs |-> trails[i]]
    BY <1>1 DEF PerfInv, PerfsTyped
  <1>7. ASSUME NEW i \in DOMAIN perfs'
        PROVE  /\ perfs'[i] \in Perf /\ trails'[i] \in Seq(TrailEvent)
               /\ Sampled(perfs'[i], trails'[i])
    <2>1. CASE i = id
      BY <1>1, <1>5, <1>6, <2>1
    <2>2. CASE i # id
      BY <1>1, <1>6, <2>2, SamplesOfAll DEF PerfInv, PerfsTyped
    <2> QED BY <2>1, <2>2
  <1>8. perfs' = [i \in DOMAIN perfs' |-> perfs'[i]] /\ trails' = [i \in DOMAIN perfs' |-> trails'[i]]
    BY <1>1, <1>6
  <1> QED BY <1>1, <1>6, <1>7, <1>8, PerfChangeKeeps

LEMMA PerfInitially == PerfInit => PerfInv
  <1> SUFFICES ASSUME PerfInit PROVE PerfInv
    OBVIOUS
  <1>1. DOMAIN perfs = {} /\ perfs \in [{} -> Perf] /\ trails \in [{} -> Seq(TrailEvent)] /\ nextPerf = 0
    BY DEF PerfInit
  <1>2. Cardinality(DOMAIN perfs) = 0
    BY <1>1, FS_EmptySet
  <1> QED BY <1>1, <1>2, CodePerfAssumption DEF PerfInv, PerfsTyped, SamplesExact

LEMMA PerfStep == PerfInv /\ [PerfNext]_perfVars => PerfInv'
  <1> SUFFICES ASSUME PerfInv, [PerfNext]_perfVars PROVE PerfInv'
    OBVIOUS
  <1>1. ASSUME NEW clock \in 0..MaxClock, Elsewhere(clock) PROVE PerfInv'
    BY <1>1 DEF Elsewhere, PerfInv, PerfsTyped, SamplesExact
  <1>2. ASSUME NEW clock \in 0..MaxClock, NEW addr \in Ends, Execute(addr, clock) PROVE PerfInv'
    BY <1>2, ExecuteKeeps
  <1>3. CASE CancelCodePerfSamples
    BY <1>3, CancelKeeps
  <1>4. CASE DelAllCodePerfs
    BY <1>4, DelKeeps DEF DelAllCodePerfs
  <1>5. ASSUME NEW span \in Spans, NEW active \in BOOLEAN, AddCodePerf(span, active) PROVE PerfInv'
    BY <1>5, PerfAddKeeps
  <1>6. ASSUME NEW span \in Spans, NEW active \in BOOLEAN, NEW id \in DOMAIN perfs,
               EditCodePerf(id, span, active)
        PROVE  PerfInv'
    BY <1>6, EditPerfKeeps
  <1>7. ASSUME NEW id \in DOMAIN perfs, DelCodePerf(id) PROVE PerfInv'
    BY <1>7, DelKeeps DEF DelCodePerf
  <1>8. CASE UNCHANGED perfVars
    BY <1>8 DEF perfVars, PerfInv, PerfsTyped, SamplesExact
  <1> QED BY <1>1, <1>2, <1>3, <1>4, <1>5, <1>6, <1>7, <1>8 DEF PerfNext

PerfSpec == PerfInit /\ [][PerfNext]_perfVars

(* Whatever is switched off and on, reset, played back or run without the  *)
(* debugger in between, a record's count and average are those of its      *)
(* first MAX_TEST_COUNT uninterrupted passes (CheckPerf(), Edit(),         *)
(* CancelCodePerfSamples()).                                               *)
THEOREM CodePerfSamplesExact == PerfSpec => []SamplesExact
  <1>1. PerfInv => SamplesExact
    BY DEF PerfInv
  <1> QED BY <1>1, PerfInitially, PerfStep, PTL DEF PerfSpec

LEMMA PerfsAreTyped == PerfInv => PerfTypeOK
  BY DEF PerfInv, PerfsTyped, PerfTypeOK, Perf

(* Every record the store holds keeps its shape, at most MAX_RECORDS of    *)
(* them, under ids below the next one to be given out.                     *)
THEOREM CodePerfTypesCorrect == PerfSpec => []PerfTypeOK
  BY PerfsAreTyped, PerfInitially, PerfStep, PTL DEF PerfSpec

-----------------------------------------------------------------------------
(* Memory: the places of bytes, as the RAM disk is described. *)
Main == {<<-1, 0, a>> : a \in Addr}
Paged == {<<d, p, a>> : d \in Disk, p \in Page, a \in Addr}
Start(d, p) == (p + 1 + d * 4) * PAGE_LEN
Index(p) == IF p[1] = -1 THEN p[3] ELSE p[3] + Start(p[1], p[2])
First(S) == CHOOSE e \in S : \A f \in S : e <= f

Types ==
  /\ mappings \in [Disk -> Mapping] /\ mapping \in Mapping /\ ramdiskIdx \in Disk
  /\ mappingsEnabled \in 0..2 /\ romEnabled \in BOOLEAN
InForce ==
  IF EnabledDisks = {} THEN mapping = NoMapping
  ELSE ramdiskIdx = First(EnabledDisks) /\ mapping = mappings[First(EnabledDisks)]
Placed == \/ cell = -1 /\ place = Nowhere
          \/ place \in Main \cup Paged /\ cell = Index(place)
Commanded == mappings \in [Disk -> Mappings \cup {NoMapping}]
MemoryInv == Types /\ Commanded /\ InForce /\ CollisionKnown /\ Placed

-----------------------------------------------------------------------------
(* Any set of disks has a first one (the scan in SetRamDiskMode()).        *)
LEMMA FirstDisk ==
  ASSUME NEW S, S \subseteq Disk, S # {}
  PROVE  First(S) \in S
  <1>1. S \subseteq Nat /\ S # {}
    BY MemoryAssumption DEF Disk
  <1>2. PICK x \in S : \A y \in S : ~ (<<y, x>> \in OpToRel(<, Nat))
    BY <1>1, WFMin, NatLessThanWellFounded, Zenon
  <1>3. \A y \in S : ~ (y < x)
    BY <1>1, <1>2, Zenon DEF OpToRel
  <1>4. \A y \in S : x <= y
    BY <1>1, <1>3
  <1> QED BY <1>4, Zenon DEF First

(* No two places of RAM and RAM disks share an index (GetGlobalAddr()).    *)
LEMMA Multiples ==
  ASSUME NEW m \in Nat, NEW n \in Nat, m < n
  PROVE  m * PAGE_LEN + PAGE_LEN <= n * PAGE_LEN
  <1> DEFINE k == n - m - 1
  <1>1. k \in Nat /\ n = m + 1 + k /\ PAGE_LEN \in Nat
    BY MemoryAssumption
  <1> HIDE DEF k
  <1>2. k * PAGE_LEN >= 0 /\ n * PAGE_LEN = m * PAGE_LEN + PAGE_LEN + k * PAGE_LEN
    BY <1>1
  <1>3. m * PAGE_LEN \in Nat /\ k * PAGE_LEN \in Nat
    BY <1>1
  <1> QED BY <1>1, <1>2, <1>3

LEMMA PagesApart ==
  ASSUME NEW d \in Disk, NEW p \in Page, NEW e \in Disk, NEW q \in Page,
         NEW a \in Addr, NEW b \in Addr
  PROVE  /\ Start(d, p) \in Nat /\ Start(d, p) >= PAGE_LEN /\ d # -1
         /\ a + Start(d, p) = b + Start(e, q) => d = e /\ p = q /\ a = b
  <1>1. d \in Nat /\ e \in Nat /\ p \in 0..3 /\ q \in 0..3 /\ PAGE_LEN \in Nat
    BY MemoryAssumption DEF Disk, Page
  <1> DEFINE m == p + 1 + d * 4   n == q + 1 + e * 4
  <1>2. m \in Nat /\ 0 < m /\ n \in Nat /\ (m = n => d = e /\ p = q)
    BY <1>1
  <1>3. a \in Nat /\ a < PAGE_LEN /\ b \in Nat /\ b < PAGE_LEN
    BY <1>1 DEF Addr
  <1>4. Start(d, p) = m * PAGE_LEN /\ Start(e, q) = n * PAGE_LEN
    BY DEF Start
  <1> HIDE DEF m, n
  <1>5. m * PAGE_LEN \in Nat /\ n * PAGE_LEN \in Nat /\ m * PAGE_LEN >= PAGE_LEN
    BY <1>1, <1>2, Multiples
  <1>6. /\ m < n => m * PAGE_LEN + PAGE_LEN <= n * PAGE_LEN
        /\ n < m => n * PAGE_LEN + PAGE_LEN <= m * PAGE_LEN
    BY <1>2, Multiples
  <1>7. a + m * PAGE_LEN = b + n * PAGE_LEN => m = n /\ a = b
    BY <1>1, <1>2, <1>3, <1>5, <1>6
  <1> QED BY <1>1, <1>2, <1>4, <1>5, <1>7

LEMMA OnePlaceEach ==
  ASSUME NEW p \in Main \cup Paged, NEW q \in Main \cup Paged
  PROVE  /\ Index(p) \in Nat
         /\ IF p[1] = -1 THEN Index(p) = p[3] ELSE Index(p) >= PAGE_LEN
         /\ Index(p) = Index(q) <=> p = q
  <1>1. ASSUME NEW a \in Addr, p = <<-1, 0, a>>, NEW b \in Addr, q = <<-1, 0, b>>
        PROVE  Index(p) = a /\ Index(q) = b
    BY <1>1 DEF Index
  <1>3. \A a \in Addr : a \in Nat /\ a < PAGE_LEN
    BY MemoryAssumption DEF Addr
  <1>2. ASSUME NEW d \in Disk, NEW i \in Page, NEW a \in Addr
        PROVE  /\ Index(<<d, i, a>>) = a + Start(d, i) /\ d # -1
               /\ Index(<<d, i, a>>) \in Nat /\ Index(<<d, i, a>>) >= PAGE_LEN
    <2>1. Start(d, i) \in Nat /\ Start(d, i) >= PAGE_LEN /\ d # -1
      BY PagesApart
    <2>2. Index(<<d, i, a>>) = a + Start(d, i)
      BY <2>1 DEF Index
    <2>3. a \in Nat /\ PAGE_LEN \in Nat
      BY <1>3, MemoryAssumption
    <2> QED BY <2>1, <2>2, <2>3
  <1>4. CASE p \in Main /\ q \in Main
    BY <1>1, <1>3, <1>4 DEF Main
  <1>5. CASE p \in Main /\ q \in Paged
    <2>1. PICK a \in Addr : p = <<-1, 0, a>>
      BY <1>5 DEF Main
    <2>2. PICK d \in Disk, i \in Page, b \in Addr : q = <<d, i, b>>
      BY <1>5 DEF Paged
    <2>3. Index(p) = a /\ Index(q) >= PAGE_LEN /\ Index(q) \in Nat /\ d # -1
      BY <2>1, <2>2, <1>2 DEF Index
    <2> QED BY <2>1, <2>2, <2>3, <1>3, MemoryAssumption
  <1>6. CASE p \in Paged /\ q \in Main
    <2>1. PICK a \in Addr : q = <<-1, 0, a>>
      BY <1>6 DEF Main
    <2>2. PICK d \in Disk, i \in Page, b \in Addr : p = <<d, i, b>>
      BY <1>6 DEF Paged
    <2>3. Index(q) = a /\ Index(p) >= PAGE_LEN /\ Index(p) \in Nat /\ d # -1
      BY <2>1, <2>2, <1>2 DEF Index
    <2> QED BY <2>1, <2>2, <2>3, <1>3, MemoryAssumption
  <1>7. CASE p \in Paged /\ q \in Paged
    <2>1. PICK d \in Disk, i \in Page, a \in Addr : p = <<d, i, a>>
      BY <1>7 DEF Paged
    <2>2. PICK e \in Disk, j \in Page, b \in Addr : q = <<e, j, b>>
      BY <1>7 DEF Paged
    <2>3. /\ Index(p) = a + Start(d, i) /\ Index(q) = b + Start(e, j)
          /\ Index(p) \in Nat /\ Index(p) >= PAGE_LEN /\ p[1] # -1
      BY <2>1, <2>2, <1>2
    <2>4. Index(p) = Index(q) => p = q
      BY <2>1, <2>2, <2>3, PagesApart
    <2> QED BY <2>3, <2>4
  <1> QED BY <1>4, <1>5, <1>6, <1>7

(* An address is translated to the index of its owner (GetGlobalAddr()     *)
(* against the description of the RAM disk).                               *)
LEMMA Translated ==
  ASSUME Types, InForce, NEW addr \in Addr, NEW stack \in BOOLEAN
  PROVE  /\ Owner(addr, stack) \in Main \cup Paged
         /\ GetGlobalAddr(addr, stack) = Index(Owner(addr, stack))
         /\ Owner(addr, stack)[3] = addr
  <1>1. CASE EnabledDisks = {}
    <2>1. Owner(addr, stack) = <<-1, 0, addr>>
      BY <1>1 DEF Owner
    <2>2. GetGlobalAddr(addr, stack) = addr
      BY <1>1 DEF InForce, GetGlobalAddr, Enabled, NoMapping
    <2> QED BY <2>1, <2>2 DEF Main, Index
  <1>2. CASE EnabledDisks # {}
    <2> DEFINE d == First(EnabledDisks)
    <2>1. d \in Disk /\ Enabled(mappings[d])
      BY <1>2, FirstDisk DEF EnabledDisks
    <2>2. ramdiskIdx = d /\ mapping = mappings[d] /\ d # -1
      BY <1>2, <2>1, MemoryAssumption DEF InForce, Disk
    <2>3. mapping.pageRam \in Page /\ mapping.pageStack \in Page
      BY DEF Types, Mapping
    <2>4. Owner(addr, stack) =
            IF mapping.modeStack /\ stack THEN <<d, mapping.pageStack, addr>>
            ELSE IF InWindow(mapping, addr) THEN <<d, mapping.pageRam, addr>>
            ELSE <<-1, 0, addr>>
      BY <1>2, <2>2 DEF Owner, First
    <2>5. GetGlobalAddr(addr, stack) =
            IF mapping.modeStack /\ stack THEN addr + Start(d, mapping.pageStack)
            ELSE IF InWindow(mapping, addr) THEN addr + Start(d, mapping.pageRam)
            ELSE addr
      BY <2>1, <2>2 DEF GetGlobalAddr, Start
    <2>6. CASE mapping.modeStack /\ stack
      BY <2>1, <2>2, <2>3, <2>4, <2>5, <2>6 DEF Paged, Index
    <2>7. CASE ~(mapping.modeStack /\ stack) /\ InWindow(mapping, addr)
      BY <2>1, <2>2, <2>3, <2>4, <2>5, <2>7 DEF Paged, Index
    <2>8. CASE ~(mapping.modeStack /\ stack) /\ ~InWindow(mapping, addr)
      BY <2>4, <2>5, <2>8 DEF Main, Index
    <2> QED BY <2>6, <2>7, <2>8
  <1> QED BY <1>1, <1>2

LEMMA Finding ==
  ASSUME MemoryInv PROVE MemoryExact
  <1>1. ASSUME NEW addr \in Addresses, NEW stack \in BOOLEAN PROVE Found(addr, stack)
    <2> DEFINE owner == Owner(addr, stack)
               at == GetGlobalAddr(addr, stack)
    <2>1. addr \in Addr /\ addr \in Nat
      BY MemoryAssumption DEF Addr
    <2>2. owner \in Main \cup Paged /\ at = Index(owner) /\ owner[3] = addr
      BY <2>1, Translated DEF MemoryInv
    <2>3. at \in Nat /\ IF owner[1] = -1 THEN at = addr ELSE at >= PAGE_LEN
      BY <2>2, OnePlaceEach
    <2>4. at < RomSize <=> owner[1] = -1 /\ addr < RomSize
      BY <2>1, <2>3, MemoryAssumption
    <2>5. at = cell <=> owner = place
      <3>1. CASE cell = -1 /\ place = Nowhere
        <4>1. owner # Nowhere
          BY <2>1, <2>2 DEF Nowhere
        <4> QED BY <2>3, <3>1, <4>1
      <3>2. CASE place \in Main \cup Paged /\ cell = Index(place)
        BY <2>2, <3>2, OnePlaceEach
      <3> QED BY <3>1, <3>2 DEF MemoryInv, Placed
    <2>6. Read(addr, stack) = IF romEnabled /\ at < RomSize THEN "rom"
                              ELSE IF at = cell THEN "written" ELSE "other"
      BY DEF Read
    <2> HIDE DEF owner, at
    <2>7. Read(addr, stack) = "rom" <=> romEnabled /\ at < RomSize
      BY <2>6
    <2>8. Read(addr, stack) = "written" <=> at = cell /\ ~(romEnabled /\ at < RomSize)
      BY <2>6
    <2> QED BY <2>4, <2>5, <2>7, <2>8 DEF Found, owner
  <1> QED BY <1>1 DEF MemoryExact, MemoryInv

-----------------------------------------------------------------------------
LEMMA NoMappingIsOne == NoMapping \in Mapping /\ ~Enabled(NoMapping) /\ 0 \in Disk
  BY MemoryAssumption DEF Mapping, NoMapping, Page, Disk, Enabled

(* After the scan over the disks, the first one enabled is in force.       *)
LEMMA MappingChanged ==
  ASSUME MemoryInv, NEW d \in Disk, NEW m \in Mappings, SetRamDiskMode(d, m)
  PROVE  MemoryInv'
  <1> DEFINE set == [mappings EXCEPT ![d] = m]
             on == {e \in Disk : Enabled(set[e])}
             first == First(on)
  <1>1. m \in Mapping /\ set \in [Disk -> Mapping]
    BY MemoryAssumption DEF MemoryInv, Types
  <1>2. on # {} => first \in on
    BY FirstDisk
  <1>3. /\ mappings' = set /\ UNCHANGED <<romEnabled, cell, place>>
        /\ mapping' = IF on = {} THEN NoMapping ELSE set[first]
        /\ ramdiskIdx' = IF on = {} THEN ramdiskIdx ELSE first
        /\ mappingsEnabled' = IF on = {} THEN 0 ELSE IF on = {first} THEN 1 ELSE 2
    BY DEF SetRamDiskMode, First
  <1>4. EnabledDisks' = on /\ on \subseteq Disk
    BY <1>3 DEF EnabledDisks
  <1> HIDE DEF set, on, first
  <1>5. Types'
    <2>1. CASE on = {}
      BY <1>1, <1>3, <2>1, NoMappingIsOne DEF MemoryInv, Types
    <2>2. CASE on # {}
      BY <1>1, <1>2, <1>3, <1>4, <2>2 DEF MemoryInv, Types
    <2> QED BY <2>1, <2>2
  <1>6. InForce'
    BY <1>3, <1>4 DEF InForce, first, First
  <1>7. CollisionKnown'
    <2>1. (\E x, y \in on : x # y) <=> on # {} /\ on # {first}
      BY <1>2
    <2>2. mappingsEnabled' > 1 <=> on # {} /\ on # {first}
      BY <1>3
    <2> QED BY <1>4, <2>1, <2>2 DEF CollisionKnown
  <1>8. Placed'
    BY <1>3 DEF MemoryInv, Placed
  <1>9. Commanded'
    BY <1>3 DEF MemoryInv, Commanded, set
  <1> QED BY <1>5, <1>6, <1>7, <1>8, <1>9 DEF MemoryInv

LEMMA MappingForgotten ==
  ASSUME NothingMapped, Placed', romEnabled' \in BOOLEAN
  PROVE  MemoryInv'
  <1>1. mappings' \in [Disk -> Mapping] /\ EnabledDisks' = {}
    BY NoMappingIsOne DEF NothingMapped, EnabledDisks
  <1>2. Types'
    BY <1>1, NoMappingIsOne DEF NothingMapped, Types
  <1>3. InForce' /\ CollisionKnown' /\ Commanded'
    BY <1>1 DEF NothingMapped, InForce, CollisionKnown, Commanded
  <1> QED BY <1>2, <1>3 DEF MemoryInv

(* A step that leaves the disks' commands leaves what they say.            *)
LEMMA MappingKept ==
  ASSUME MemoryInv, Placed',
         UNCHANGED <<mappings, mapping, ramdiskIdx, mappingsEnabled, romEnabled>>
  PROVE  MemoryInv'
  <1>1. EnabledDisks' = EnabledDisks
    BY DEF EnabledDisks
  <1>2. Types' /\ InForce' /\ CollisionKnown' /\ Commanded'
    BY <1>1 DEF MemoryInv, Types, InForce, CollisionKnown, Commanded
  <1> QED BY <1>2 DEF MemoryInv

LEMMA MemoryStep ==
  ASSUME MemoryInv, [MemoryNext]_memVars
  PROVE  MemoryInv'
  <1>1. ASSUME NEW addr \in Addresses, NEW stack \in BOOLEAN, CpuWrite(addr, stack) PROVE MemoryInv'
    <2>1. Owner(addr, stack) \in Main \cup Paged /\ GetGlobalAddr(addr, stack) = Index(Owner(addr, stack))
      BY Translated, MemoryAssumption DEF MemoryInv
    <2>2. Placed'
      BY <1>1, <2>1 DEF CpuWrite, Placed
    <2> QED BY <1>1, <2>2, MappingKept DEF CpuWrite
  <1>2. ASSUME NEW addr \in Addresses, SetRam(addr) PROVE MemoryInv'
    <2>1. addr \in Addr
      BY MemoryAssumption
    <2>2. Placed'
      BY <1>2, <2>1 DEF SetRam, Placed, Index, Main
    <2> QED BY <1>2, <2>2, MappingKept DEF SetRam
  <1>3. ASSUME NEW d \in Disk, NEW m \in Mappings, SetRamDiskMode(d, m) PROVE MemoryInv'
    BY <1>3, MappingChanged
  <1>4. CASE IsException
    <2>1. Placed' /\ romEnabled' \in BOOLEAN
      BY <1>4 DEF IsException, MemoryInv, Types, Placed
    <2> QED BY <1>4, <2>1, MappingForgotten DEF IsException
  <1>5. CASE NoException
    <2>1. EnabledDisks' = EnabledDisks
      BY <1>5 DEF NoException, EnabledDisks
    <2>2. Types' /\ InForce' /\ Placed'
      BY <1>5, <2>1 DEF NoException, MemoryInv, Types, InForce, Placed
    <2>3. CollisionKnown' /\ Commanded'
      BY <1>5, <2>1 DEF NoException, MemoryInv, CollisionKnown, Commanded
    <2> QED BY <2>2, <2>3 DEF MemoryInv
  <1>6. CASE MemoryReset
    <2>1. Placed' /\ romEnabled' \in BOOLEAN
      BY <1>6 DEF MemoryReset, MemoryInv, Placed
    <2> QED BY <1>6, <2>1, MappingForgotten DEF MemoryReset
  <1>7. CASE MemoryRestart
    <2>1. Placed' /\ romEnabled' \in BOOLEAN
      BY <1>7 DEF MemoryRestart, MemoryInv, Placed
    <2> QED BY <1>7, <2>1, MappingForgotten DEF MemoryRestart
  <1>8. CASE UNCHANGED memVars
    <2>1. Placed'
      BY <1>8 DEF memVars, MemoryInv, Placed
    <2> QED BY <1>8, <2>1, MappingKept DEF memVars
  <1> QED BY <1>1, <1>2, <1>3, <1>4, <1>5, <1>6, <1>7, <1>8 DEF MemoryNext

-----------------------------------------------------------------------------
LEMMA MemoryInitially == MemoryInit => MemoryInv
  <1> SUFFICES ASSUME MemoryInit PROVE MemoryInv OBVIOUS
  <1>1. mappings \in [Disk -> Mapping] /\ EnabledDisks = {}
    BY NoMappingIsOne DEF MemoryInit, EnabledDisks
  <1>2. Types
    BY <1>1, NoMappingIsOne DEF MemoryInit, Types
  <1>3. InForce /\ CollisionKnown /\ Placed /\ Commanded
    BY <1>1 DEF MemoryInit, InForce, CollisionKnown, Placed, Commanded
  <1> QED BY <1>2, <1>3 DEF MemoryInv

LEMMA MemoryTyped == MemoryInv => MemTypeOK
  <1> SUFFICES ASSUME MemoryInv PROVE MemTypeOK OBVIOUS
  <1>1. EnabledDisks \subseteq Disk /\ (EnabledDisks # {} => First(EnabledDisks) \in EnabledDisks)
    BY FirstDisk DEF EnabledDisks
  <1>2. mapping \in Mappings \cup {NoMapping}
    <2>1. CASE EnabledDisks = {}
      BY <2>1 DEF MemoryInv, InForce
    <2>2. CASE EnabledDisks # {}
      <3>1. First(EnabledDisks) \in Disk /\ mapping = mappings[First(EnabledDisks)]
        BY <1>1, <2>2 DEF MemoryInv, InForce
      <3> QED BY <3>1 DEF MemoryInv, Commanded
    <2> QED BY <2>1, <2>2
  <1>3. /\ PAGE_LEN \in Nat /\ PAGE_LEN # 0 /\ Disks \in Nat /\ Disks # 0 /\ Pages \in 1..4
        /\ 1 + Disks * 4 \in Nat
    BY MemoryAssumption
  <1> DEFINE L == PAGE_LEN
             N == 1 + Disks * 4
             Bounded == cell \in -1..(N * L - 1) /\ place \in (-1..(Disks - 1)) \X Page \X (-1..(L - 1))
  <1>4. Bounded
    <2>1. CASE cell = -1 /\ place = Nowhere
      <3>1. N * L \in Nat
        BY <1>3
      <3> HIDE DEF N, L
      <3>2. -1 \in -1..(N * L - 1)
        BY <3>1
      <3>3. -1 \in -1..(Disks - 1) /\ 0 \in Page /\ -1 \in -1..(L - 1)
        BY <1>3 DEF Page, L
      <3> QED BY <2>1, <3>2, <3>3 DEF Nowhere
    <2>2. CASE place \in Main \cup Paged /\ cell = Index(place)
      <3>1. ASSUME NEW a \in Addr, place = <<-1, 0, a>> PROVE Bounded
        <4>1. a \in Nat /\ a < L /\ N \in Nat /\ N # 0 /\ L \in Nat
          BY <1>3 DEF Addr
        <4> HIDE DEF N, L
        <4>2. N * L >= L
          BY <4>1
        <4>3. cell = a
          BY <2>2, <3>1 DEF Index
        <4>4. cell \in -1..(N * L - 1)
          BY <4>1, <4>2, <4>3
        <4>5. -1 \in -1..(Disks - 1) /\ 0 \in Page /\ a \in -1..(L - 1)
          BY <1>3, <4>1 DEF Page
        <4> QED BY <3>1, <4>4, <4>5
      <3>2. ASSUME NEW d \in Disk, NEW p \in Page, NEW a \in Addr, place = <<d, p, a>>
            PROVE  Bounded
        <4> DEFINE n == p + 1 + d * 4
        <4>1. /\ a \in Nat /\ a < L /\ N \in Nat /\ L \in Nat /\ n \in Nat /\ n + 1 <= N
              /\ d # -1 /\ d \in -1..(Disks - 1)
          BY <1>3 DEF Addr, Disk, Page
        <4>2. cell = a + n * L
          BY <2>2, <3>2, <4>1 DEF Index, Start
        <4> HIDE DEF N, L, n
        <4>3. (n + 1) * L <= N * L /\ (n + 1) * L = n * L + L /\ n * L \in Nat /\ N * L \in Nat
          BY <4>1
        <4>4. cell \in -1..(N * L - 1)
          <5> DEFINE x == n * L
                     y == N * L
          <5>1. x \in Nat /\ y \in Nat /\ x + L <= y
            BY <4>3
          <5> HIDE DEF x, y
          <5>2. a + x \in -1..(y - 1)
            BY <4>1, <5>1
          <5> QED BY <4>2, <5>2 DEF x, y
        <4>5. a \in -1..(L - 1)
          BY <4>1
        <4> QED BY <3>2, <4>1, <4>4, <4>5
      <3> QED BY <2>2, <3>1, <3>2 DEF Main, Paged
    <2> QED BY <2>1, <2>2 DEF MemoryInv, Placed
  <1> QED BY <1>2, <1>4 DEF MemoryInv, Types, Commanded, MemTypeOK

(* A byte is found where it was written and nowhere else, the ROM hides    *)
(* main memory only, and a collision is known exactly while two disks are  *)
(* enabled, for any disks, commands and addresses (GetGlobalAddr(),        *)
(* SetRamDiskMode(), IsException()).                                       *)
THEOREM BytesFound == MemorySpec => []MemoryExact
  <1>1. MemoryInv /\ [MemoryNext]_memVars => MemoryInv'
    BY MemoryStep
  <1>2. MemoryInv => MemoryExact
    BY Finding
  <1> QED BY <1>1, <1>2, MemoryInitially, PTL DEF MemorySpec

-----------------------------------------------------------------------------
(* The timer. *)
Counter ==
  [mode : 0..3, latchMode : 0..3, writeState : 0..1, lsb : CountByte, loadValue : 0..(Full - 1),
   value : 0..Full, latchValue : {-1} \cup 0..Full, out : 0..1, delay : 0..3,
   armed : BOOLEAN, load : BOOLEAN, enabled : BOOLEAN]

LEMMA FullFacts ==
  /\ Base \in Nat /\ Base >= 2 /\ Full \in Nat /\ Full >= 4 /\ Full % 2 = 0 /\ Base <= Full
  /\ \A v \in CountByte : /\ v \in Nat /\ v * Base \in 0..(Full - 1)
                          /\ \A l \in CountByte : v * Base + l \in 0..(Full - 1)
  <1>1. Base \in Nat /\ Base >= 2 /\ Base % 2 = 0
    BY TimerAssumption
  <1>2. PICK h \in Nat : Base = 2 * h /\ h >= 1
    <2>1. Base \div 2 \in Nat /\ Base = 2 * (Base \div 2) /\ Base \div 2 >= 1
      BY <1>1
    <2> QED BY <2>1
  <1>3. Base * Base = 2 * (h * Base) /\ h * Base \in Nat /\ Base * Base >= 2 * Base
    BY <1>1, <1>2
  <1>4. Full \in Nat /\ Full >= 4 /\ Full % 2 = 0 /\ Base <= Full
    BY <1>1, <1>3 DEF Full
  <1>5. ASSUME NEW v \in CountByte, NEW l \in CountByte
        PROVE  v \in Nat /\ v * Base \in 0..(Full - 1) /\ v * Base + l \in 0..(Full - 1)
    <2>1. v \in Nat /\ l \in Nat /\ v <= Base - 1 /\ l <= Base - 1
      BY <1>1 DEF CountByte
    <2>2. v * Base \in Nat /\ v * Base <= (Base - 1) * Base /\ (Base - 1) * Base = Base * Base - Base
      BY <1>1, <2>1
    <2> QED BY <1>1, <2>1, <2>2 DEF Full
  <1>6. 0 \in CountByte
    BY <1>1 DEF CountByte
  <1> QED BY <1>1, <1>4, <1>5, <1>6

SetUpKept(c, d) ==
  /\ d.mode = c.mode /\ d.latchMode = c.latchMode /\ d.writeState = c.writeState /\ d.lsb = c.lsb
  /\ d.loadValue = c.loadValue /\ d.latchValue = c.latchValue
Counts(c, d) == SetUpKept(c, d) /\ d.delay = c.delay

LEMMA CounterFields ==
  ASSUME NEW c \in Counter
  PROVE  /\ c.mode \in 0..3 /\ c.latchMode \in 0..3 /\ c.writeState \in 0..1 /\ c.lsb \in CountByte
         /\ c.loadValue \in 0..(Full - 1) /\ c.value \in 0..Full /\ c.latchValue \in {-1} \cup 0..Full
         /\ c.out \in 0..1 /\ c.delay \in 0..3
         /\ c.armed \in BOOLEAN /\ c.load \in BOOLEAN /\ c.enabled \in BOOLEAN
  BY DEF Counter

(* What the modes change of a counter. *)
LEMMA Counted ==
  ASSUME NEW c \in Counter, NEW v \in 0..Full
  PROVE  LET d == [c EXCEPT !.value = v]
         IN  /\ d \in Counter /\ Counts(c, d) /\ d.value = v
             /\ d.out = c.out /\ d.load = c.load /\ d.enabled = c.enabled /\ d.armed = c.armed
  BY DEF Counter, Counts, SetUpKept
LEMMA EnabledNow ==
  ASSUME NEW c \in Counter
  PROVE  LET d == [c EXCEPT !.enabled = TRUE]
         IN  /\ d \in Counter /\ Counts(c, d) /\ d.enabled
             /\ d.out = c.out /\ d.load = c.load /\ d.value = c.value /\ d.armed = c.armed
  BY DEF Counter, Counts, SetUpKept
LEMMA OutPut ==
  ASSUME NEW c \in Counter, NEW o \in 0..1
  PROVE  LET d == [c EXCEPT !.out = o]
         IN  /\ d \in Counter /\ Counts(c, d) /\ d.out = o
             /\ d.enabled = c.enabled /\ d.load = c.load /\ d.value = c.value /\ d.armed = c.armed
  BY DEF Counter, Counts, SetUpKept
LEMMA ArmedAs ==
  ASSUME NEW c \in Counter, NEW b \in BOOLEAN
  PROVE  LET d == [c EXCEPT !.armed = b]
         IN  /\ d \in Counter /\ Counts(c, d)
             /\ d.enabled = c.enabled /\ d.load = c.load /\ d.value = c.value /\ d.out = c.out
  BY DEF Counter, Counts, SetUpKept
LEMMA Unloaded ==
  ASSUME NEW c \in Counter
  PROVE  LET d == [c EXCEPT !.load = FALSE]
         IN  /\ d \in Counter /\ Counts(c, d) /\ ~d.load
             /\ d.enabled = c.enabled /\ d.value = c.value /\ d.out = c.out
  BY DEF Counter, Counts, SetUpKept

LEMMA OneShotTyped ==
  ASSUME NEW c \in Counter
  PROVE  OneShot(c) \in Counter /\ Counts(c, OneShot(c))
  <1> DEFINE d == [c EXCEPT !.enabled = TRUE]
             left == c.value - 1
             v == IF left > 0 THEN left
                  ELSE left + (IF c.loadValue = 0 THEN Full ELSE c.loadValue + 1)
  <1>1. d \in Counter /\ Counts(c, d)
    BY EnabledNow
  <1>2. v \in 0..Full
    BY FullFacts, CounterFields
  <1>3. OneShot(c) = [d EXCEPT !.value = v]
    BY DEF OneShot
  <1> HIDE DEF d, v
  <1> QED BY <1>1, <1>2, <1>3, Counted DEF Counts, SetUpKept

LEMMA LoadedHow ==
  ASSUME NEW c \in Counter
  PROVE  LET l == Loaded(c)
         IN  /\ l \in Counter /\ Counts(c, l) /\ l.out = c.out /\ l.load = c.load /\ l.armed = c.armed
             /\ l.enabled = (c.enabled \/ c.load)
             /\ l.value = IF ~c.enabled /\ c.load THEN c.loadValue ELSE c.value
  <1> DEFINE d == [c EXCEPT !.value = c.loadValue]
             l == Loaded(c)
  <1>1. CASE ~c.enabled /\ c.load
    <2>1. c.loadValue \in 0..Full
      BY FullFacts, CounterFields
    <2>2. /\ d \in Counter /\ Counts(c, d) /\ d.out = c.out /\ d.load = c.load /\ d.armed = c.armed
          /\ d.value = c.loadValue
      BY <2>1, Counted
    <2>3. l = [d EXCEPT !.enabled = TRUE]
      BY <1>1 DEF Loaded
    <2> HIDE DEF d, l
    <2> QED BY <1>1, <2>2, <2>3, EnabledNow, ZenonT(60) DEF Counts, SetUpKept, l
  <1>2. CASE ~(~c.enabled /\ c.load)
    <2>1. l = c
      BY <1>2 DEF Loaded
    <2>2. c.enabled \in BOOLEAN /\ c.load \in BOOLEAN
      BY CounterFields
    <2> HIDE DEF l
    <2> QED BY <1>2, <2>1, <2>2, CounterFields DEF Counts, SetUpKept, l
  <1> QED BY <1>1, <1>2

LEMMA RateTyped ==
  ASSUME NEW c \in Counter
  PROVE  RateGenerator(c) \in Counter /\ Counts(c, RateGenerator(c))
  <1> DEFINE l == Loaded(c)
             left == l.value - 1
             v == IF left > 0 THEN left ELSE left + Reload(l)
  <1>1. l \in Counter /\ Counts(c, l)
    BY LoadedHow
  <1>2. RateGenerator(c) = [l EXCEPT !.value = v]
    BY DEF RateGenerator
  <1> HIDE DEF l
  <1>3. v \in 0..Full
    <2>1. l.value \in 0..Full /\ l.loadValue \in 0..(Full - 1)
      BY <1>1, CounterFields
    <2>2. Full \in Nat /\ Full >= 4
      BY FullFacts
    <2>3. Reload(l) \in 1..Full
      BY <2>1, <2>2 DEF Reload
    <2> QED BY <2>1, <2>2, <2>3
  <1> HIDE DEF v
  <1> QED BY <1>1, <1>2, <1>3, Counted DEF Counts, SetUpKept

LEMMA InterruptTyped ==
  ASSUME NEW c \in Counter
  PROVE  InterruptOnTerminalCount(c) \in Counter /\ Counts(c, InterruptOnTerminalCount(c))
  <1> DEFINE d1 == [c EXCEPT !.value = c.loadValue]
             d2 == [d1 EXCEPT !.enabled = TRUE]
             d3 == [d2 EXCEPT !.armed = TRUE]
             d4 == [d3 EXCEPT !.out = 0]
             l == IF c.load THEN d4 ELSE c
             left == l.value - 1
             m1 == [l EXCEPT !.value = left + Full]
             m2 == [m1 EXCEPT !.armed = FALSE]
             o == IF l.armed /\ l.value # 0 THEN 1 ELSE m2.out
             m3 == [m2 EXCEPT !.out = o]
             d == InterruptOnTerminalCount(c)
  <1>1. c.loadValue \in 0..Full /\ 0 \in 0..1 /\ 1 \in 0..1 /\ TRUE \in BOOLEAN /\ FALSE \in BOOLEAN
    BY FullFacts, CounterFields
  <1>2. d4 \in Counter /\ Counts(c, d4)
    <2>1. d1 \in Counter /\ Counts(c, d1)
      BY <1>1, Counted
    <2> HIDE DEF d1
    <2>2. d2 \in Counter /\ Counts(d1, d2)
      BY <2>1, EnabledNow
    <2> HIDE DEF d2
    <2>3. d3 \in Counter /\ Counts(d2, d3)
      BY <1>1, <2>2, ArmedAs
    <2> HIDE DEF d3
    <2>4. d4 \in Counter /\ Counts(d3, d4)
      BY <1>1, <2>3, OutPut
    <2> HIDE DEF d4
    <2> QED BY <2>1, <2>2, <2>3, <2>4 DEF Counts, SetUpKept
  <1>3. d = IF left > 0 THEN [l EXCEPT !.value = left] ELSE m3
    BY DEF InterruptOnTerminalCount
  <1> HIDE DEF d4
  <1>4. l \in Counter /\ Counts(c, l)
    BY <1>2 DEF Counts, SetUpKept
  <1> HIDE DEF l
  <1>5. l.value \in 0..Full /\ Full \in Nat /\ Full >= 4
    BY <1>4, FullFacts, CounterFields
  <1> HIDE DEF d
  <1>6. CASE left > 0
    <2>1. left \in 0..Full
      BY <1>5, <1>6
    <2> HIDE DEF left
    <2> QED BY <1>3, <1>4, <1>6, <2>1, Counted DEF Counts, SetUpKept, d
  <1>7. CASE ~(left > 0)
    <2>1. left + Full \in 0..Full
      BY <1>5, <1>7
    <2>2. m1 \in Counter /\ Counts(l, m1)
      BY <1>4, <2>1, Counted
    <2> HIDE DEF m1
    <2>3. m2 \in Counter /\ Counts(m1, m2)
      BY <1>1, <2>2, ArmedAs
    <2> HIDE DEF m2
    <2>4. o \in 0..1
      BY <1>1, <2>3, CounterFields
    <2> HIDE DEF o
    <2>5. m3 \in Counter /\ Counts(m2, m3)
      BY <2>3, <2>4, OutPut
    <2> HIDE DEF m3, left
    <2> QED BY <1>3, <1>4, <1>7, <2>2, <2>3, <2>5 DEF Counts, SetUpKept, d
  <1> QED BY <1>6, <1>7

(* A clock of the square wave: the count goes down, or starts anew as the   *)
(* output changes.                                                          *)
Less(l) == l.value - (IF l.value = l.loadValue /\ l.value % 2 = 1
                      THEN (IF l.out = 0 THEN 3 ELSE 1) ELSE 2)
LEMMA SquareHow ==
  ASSUME NEW c \in Counter, c.loadValue # 1
  PROVE  LET l == Loaded(c)
             d == SquareWave(c)
         IN  /\ d \in Counter /\ Counts(c, d) /\ d.enabled = l.enabled /\ d.load = c.load
             /\ Less(l) \in Int /\ Less(l) >= -2
             /\ Less(l) > 0 => d.value = Less(l) /\ d.out = c.out
             /\ ~(Less(l) > 0) => d.value = Less(l) + Reload(c) /\ d.out = 1 - c.out
  <1> DEFINE l == Loaded(c)
             left == Less(l)
             m == [l EXCEPT !.value = left + Reload(l)]
             d == SquareWave(c)
  <1>1. l \in Counter /\ Counts(c, l) /\ l.out = c.out /\ l.load = c.load
    BY LoadedHow
  <1>2. d = IF left > 0 THEN [l EXCEPT !.value = left] ELSE [m EXCEPT !.out = 1 - m.out]
    BY DEF SquareWave, Less
  <1> HIDE DEF l, d
  <1>3. l.value \in 0..Full /\ l.loadValue # 1 /\ l.loadValue \in 0..(Full - 1) /\ l.out \in 0..1
    BY <1>1, CounterFields DEF Counts, SetUpKept
  <1>4. Reload(l) = Reload(c)
    BY <1>1 DEF Counts, SetUpKept, Reload
  <1>5. Full \in Nat /\ Full >= 4 /\ Reload(l) \in 2..Full
    BY <1>3, FullFacts DEF Reload
  <1>6. left \in Int /\ left >= -2 /\ left <= Full
    BY <1>3, <1>5 DEF Less
  <1> HIDE DEF left
  <1>7. CASE left > 0
    <2>1. left \in 0..Full
      BY <1>5, <1>6, <1>7
    <2>2. d = [l EXCEPT !.value = left]
      BY <1>2, <1>7
    <2>3. /\ d \in Counter /\ Counts(l, d) /\ d.value = left /\ d.out = l.out /\ d.load = l.load
          /\ d.enabled = l.enabled
      BY <1>1, <2>1, <2>2, Counted
    <2> QED BY <1>1, <1>6, <1>7, <2>3 DEF Counts, SetUpKept, l, left, d
  <1>8. CASE ~(left > 0)
    <2>1. left + Reload(l) \in 0..Full
      BY <1>5, <1>6, <1>8
    <2>2. /\ m \in Counter /\ Counts(l, m) /\ m.value = left + Reload(l) /\ m.out = l.out
          /\ m.load = l.load /\ m.enabled = l.enabled
      BY <1>1, <2>1, Counted
    <2>3. d = [m EXCEPT !.out = 1 - m.out]
      BY <1>2, <1>8
    <2> HIDE DEF m
    <2>4. 1 - m.out \in 0..1
      BY <1>3, <2>2
    <2>5. /\ d \in Counter /\ Counts(m, d) /\ d.value = m.value /\ d.out = 1 - m.out
          /\ d.load = m.load /\ d.enabled = m.enabled
      BY <2>2, <2>3, <2>4, OutPut
    <2> QED BY <1>1, <1>4, <1>6, <1>8, <2>2, <2>5 DEF Counts, SetUpKept, l, left, d
  <1> QED BY <1>7, <1>8

(* A square wave once it runs is where a count leaves it. *)
Settled(c) == c.mode = 3 /\ c.enabled /\ ~c.load => c.value >= 1 \/ Reload(c) = 2
CountsDown(c) == c \in Counter /\ Sensible(c) /\ Settled(c)

LEMMA ClockedHow ==
  ASSUME NEW c, CountsDown(c)
  PROVE  LET d == Clocked(c)
         IN  /\ CountsDown(d) /\ SetUpKept(c, d) /\ (c.delay = 0 => d.delay = 0)
             /\ c.mode = 3 /\ c.delay = 0 /\ c.enabled /\ ~c.load =>
                  LET w == SquareWave(c)
                  IN  d.value = w.value /\ d.out = w.out /\ d.enabled /\ ~d.load
             /\ c.mode = 3 /\ d.out # c.out => d.enabled /\ ~d.load
  <1> DEFINE d == Clocked(c)
  <1>1. c \in Counter /\ Sensible(c) /\ Settled(c)
    BY DEF CountsDown
  <1>2. CASE c.delay > 0
    <2>1. d = [c EXCEPT !.delay = c.delay - 1]
      BY <1>2 DEF Clocked
    <2>2. c.delay - 1 \in 0..3 /\ c.delay # 0
      BY <1>1, <1>2, CounterFields
    <2>3. /\ d \in Counter /\ SetUpKept(c, d) /\ d.value = c.value /\ d.load = c.load /\ d.enabled = c.enabled
          /\ d.out = c.out
      BY <1>1, <2>1, <2>2 DEF Counter, SetUpKept
    <2> HIDE DEF d
    <2> QED BY <1>1, <2>2, <2>3 DEF CountsDown, Sensible, Settled, Reload, SetUpKept, d
  <1>3. CASE ~(c.delay > 0) /\ ~c.enabled /\ ~c.load
    <2>1. d = c
      BY <1>3 DEF Clocked
    <2> HIDE DEF d
    <2> QED BY <1>1, <1>3, <2>1 DEF CountsDown, SetUpKept, d
  <1>4. CASE ~(c.delay > 0) /\ (c.enabled \/ c.load)
    <2> DEFINE w == CASE c.mode = 0 -> InterruptOnTerminalCount(c)
                      [] c.mode = 1 -> OneShot(c)
                      [] c.mode = 2 -> RateGenerator(c)
                      [] c.mode = 3 -> SquareWave(c)
    <2>1. d = [w EXCEPT !.load = FALSE]
      BY <1>4 DEF Clocked
    <2>2. c.mode \in 0..3
      BY <1>1, CounterFields
    <2>3. CASE c.mode # 3
      <3>1. w \in Counter /\ Counts(c, w)
        <4>1. CASE c.mode = 0
          BY <1>1, <4>1, InterruptTyped
        <4>2. CASE c.mode = 1
          BY <1>1, <4>2, OneShotTyped
        <4>3. CASE c.mode = 2
          BY <1>1, <4>3, RateTyped
        <4> QED BY <2>2, <2>3, <4>1, <4>2, <4>3
      <3> HIDE DEF w, d
      <3>2. d \in Counter /\ Counts(w, d)
        BY <2>1, <3>1, Unloaded
      <3> QED BY <1>1, <1>4, <2>3, <3>1, <3>2 DEF CountsDown, Sensible, Settled, Counts, SetUpKept, d
    <2>4. CASE c.mode = 3
      <3> DEFINE q == SquareWave(c)
                 l == Loaded(c)
      <3>1. w = q
        BY <2>4
      <3>2. c.loadValue # 1 /\ c.loadValue \in 0..(Full - 1)
        BY <1>1, <2>4, CounterFields DEF Sensible
      <3>3. /\ q \in Counter /\ Counts(c, q) /\ q.enabled = l.enabled /\ q.load = c.load
            /\ Less(l) \in Int /\ Less(l) >= -2
            /\ Less(l) > 0 => q.value = Less(l) /\ q.out = c.out
            /\ ~(Less(l) > 0) => q.value = Less(l) + Reload(c) /\ q.out = 1 - c.out
        BY <1>1, <3>2, SquareHow
      <3>4. l.enabled
        BY <1>1, <1>4, LoadedHow
      <3> HIDE DEF w, d, q
      <3>5. /\ d \in Counter /\ Counts(q, d) /\ ~d.load /\ d.enabled = q.enabled /\ d.value = q.value
            /\ d.out = q.out
        BY <2>1, <3>1, <3>3, Unloaded
      <3>6. Reload(c) = Reload(d) /\ Reload(c) \in Int /\ Reload(c) >= 2
        BY <3>2, <3>3, <3>5, FullFacts DEF Counts, SetUpKept, Reload
      <3>7. d.value >= 1 \/ Reload(d) = 2
        <4>1. CASE Less(l) > 0
          BY <3>3, <3>5, <4>1
        <4>2. CASE ~(Less(l) > 0)
          <5> HIDE DEF l
          <5> QED BY <3>3, <3>5, <3>6, <4>2
        <4> QED BY <4>1, <4>2
      <3>8. CountsDown(d) /\ SetUpKept(c, d) /\ d.delay = c.delay /\ d.enabled
        BY <1>1, <3>3, <3>4, <3>5, <3>7 DEF CountsDown, Sensible, Settled, Counts, SetUpKept
      <3> QED BY <1>4, <3>5, <3>8 DEF d, q
    <2> QED BY <2>3, <2>4
  <1> QED BY <1>2, <1>3, <1>4, CounterFields, <1>1

(* Where k clocks have brought the square wave of n, with the output o,    *)
(* when it has changed once or more since the load.                        *)
Progress(n, v, k, o, changes) ==
  IF n % 2 = 0
  THEN \/ v >= 1 /\ (v = n - 2 * k \/ v = n - 1 - 2 * k)
       \/ n = 2 /\ v = 0 /\ k = 0
  ELSE /\ v >= 1
       /\ \/ k = 0 /\ v = n
          \/ v = n - 1 - 2 * k /\ (changes = 1 \/ (k >= 1 /\ o = 0))
          \/ k >= 1 /\ v = n + 1 - 2 * k /\ o = 1
Down2(n, v, o) == v - (IF v = n /\ n % 2 = 1 THEN (IF o = 0 THEN 3 ELSE 1) ELSE 2)

LEMMA HalfWaves ==
  ASSUME NEW n \in Nat, n >= 2, NEW v \in Nat, NEW o \in 0..1, v >= 1 \/ n = 2
  PROVE  LET left == Down2(n, v, o)
         IN  /\ ~(left > 0) => Progress(n, left + n, 0, 1 - o, 1)
             /\ \A k \in Nat, changes \in 1..2 :
                  Progress(n, v, k, o, changes) =>
                    /\ k < n
                    /\ left > 0 => Progress(n, left, k + 1, o, changes)
                    /\ ~(left > 0) =>
                         /\ Progress(n, left + n, 0, 1 - o, 2)
                         /\ changes = 2 => k + 1 = IF 1 - o = 0 THEN (n + 1) \div 2 ELSE n \div 2
  <1> DEFINE left == Down2(n, v, o)
  <1>1. PICK h \in Nat : (n = 2 * h \/ n = 2 * h + 1) /\ h >= 1
    <2>1. n \div 2 \in Nat /\ (n = 2 * (n \div 2) \/ n = 2 * (n \div 2) + 1)
      OBVIOUS
    <2> QED BY <2>1
  <1>2. CASE n = 2 * h
    <2>1. n % 2 = 0 /\ n \div 2 = h /\ (n + 1) \div 2 = h
      BY <1>1, <1>2
    <2>2. left = v - 2
      BY <2>1 DEF Down2
    <2> HIDE DEF left
    <2>3. ASSUME ~(left > 0) PROVE Progress(n, left + n, 0, 1 - o, 1)
      BY <1>1, <1>2, <2>1, <2>2, <2>3 DEF Progress
    <2>4. ASSUME NEW k \in Nat, NEW changes \in 1..2, Progress(n, v, k, o, changes)
          PROVE  /\ k < n
                 /\ left > 0 => Progress(n, left, k + 1, o, changes)
                 /\ ~(left > 0) => Progress(n, left + n, 0, 1 - o, 2) /\ k + 1 = h
      BY <1>1, <1>2, <2>1, <2>2, <2>4 DEF Progress
    <2> QED BY <2>1, <2>3, <2>4 DEF left
  <1>3. CASE n = 2 * h + 1
    <2>1. n % 2 = 1 /\ n \div 2 = h /\ (n + 1) \div 2 = h + 1
      BY <1>1, <1>3
    <2>2. left = v - (IF v = n THEN (IF o = 0 THEN 3 ELSE 1) ELSE 2)
      BY <2>1 DEF Down2
    <2> HIDE DEF left
    <2>3. ASSUME ~(left > 0) PROVE Progress(n, left + n, 0, 1 - o, 1)
      BY <1>1, <1>3, <2>1, <2>2, <2>3 DEF Progress
    <2>4. ASSUME NEW k \in Nat, NEW changes \in 1..2, Progress(n, v, k, o, changes)
          PROVE  /\ k < n
                 /\ left > 0 => Progress(n, left, k + 1, o, changes)
                 /\ ~(left > 0) =>
                      /\ Progress(n, left + n, 0, 1 - o, 2)
                      /\ changes = 2 => k + 1 = IF 1 - o = 0 THEN h + 1 ELSE h
      BY <1>1, <1>3, <2>1, <2>2, <2>4 DEF Progress
    <2> QED BY <2>1, <2>3, <2>4 DEF left
  <1> QED BY <1>1, <1>2, <1>3

LEMMA RunningLess ==
  ASSUME NEW c, CountsDown(c), c.mode = 3, c.enabled, ~c.load
  PROVE  LET n == Reload(c)
             w == SquareWave(c)
             left == Down2(n, c.value, c.out)
         IN  /\ n \in Nat /\ n >= 2 /\ n <= Full /\ c.value \in Nat /\ c.out \in 0..1
             /\ c.value >= 1 \/ n = 2
             /\ IF left > 0 THEN w.value = left /\ w.out = c.out
                ELSE w.value = left + n /\ w.out = 1 - c.out
  <1> DEFINE l == Loaded(c)
             w == SquareWave(c)
             n == Reload(c)
             left == Down2(n, c.value, c.out)
  <1>1. /\ c \in Counter /\ c.loadValue # 1 /\ c.loadValue \in 0..(Full - 1) /\ c.value \in 0..Full
        /\ c.out \in 0..1
    BY CounterFields DEF CountsDown, Sensible
  <1>2. n \in Nat /\ n >= 2 /\ n <= Full /\ (c.loadValue # 0 => n = c.loadValue)
        /\ (c.loadValue = 0 => n = Full)
    BY <1>1, FullFacts DEF Reload
  <1>3. l.value = c.value /\ l.loadValue = c.loadValue /\ l.out = c.out
    BY <1>1, LoadedHow DEF Counts, SetUpKept
  <1>4. Less(l) = left
    <2>1. c.value = c.loadValue /\ c.value % 2 = 1 <=> c.value = n /\ n % 2 = 1
      BY <1>1, <1>2, FullFacts
    <2> HIDE DEF l, n
    <2> QED BY <1>3, <2>1 DEF Less, Down2
  <1>5. /\ Less(l) > 0 => w.value = Less(l) /\ w.out = c.out
        /\ ~(Less(l) > 0) => w.value = Less(l) + Reload(c) /\ w.out = 1 - c.out
    BY <1>1, SquareHow
  <1>6. c.value >= 1 \/ n = 2
    BY DEF CountsDown, Settled
  <1> HIDE DEF l, n, w, left
  <1>7. IF left > 0 THEN w.value = left /\ w.out = c.out ELSE w.value = left + n /\ w.out = 1 - c.out
    BY <1>4, <1>5 DEF n
  <1> QED BY <1>1, <1>2, <1>6, <1>7 DEF n, w, left

LEMMA BothBytes ==
  ASSUME NEW x \in 0..Full
  PROVE  /\ LowByte(x) \in CountByte /\ HighByte(x) \in CountByte
         /\ HighByte(x) * Base + LowByte(x) = x % Full
  <1>1. Base \in Nat /\ Base >= 2 /\ Full = Base * Base /\ Full \in Nat /\ Full >= 4
    BY FullFacts DEF Full
  <1>2. /\ \A y \in Nat : /\ y = Base * (y \div Base) + (y % Base) /\ y \div Base \in Nat
                          /\ y % Base \in 0..(Base - 1)
    BY <1>1
  <1>3. CASE x = Full
    <2>1. x \div Base = Base /\ x % Base = 0
      BY <1>1, <1>3
    <2>2. Base % Base = 0 /\ x % Full = 0
      BY <1>1, <1>3
    <2> QED BY <1>1, <2>1, <2>2 DEF LowByte, HighByte, CountByte
  <1>4. CASE x < Full
    <2> DEFINE q == x \div Base
               r == x % Base
    <2>1. x = Base * q + r /\ q \in Nat /\ r \in 0..(Base - 1) /\ x \in Nat
      BY <1>1, <1>2
    <2> HIDE DEF q, r
    <2>2. q < Base
      <3> SUFFICES ASSUME q >= Base PROVE FALSE
        BY <1>1, <2>1
      <3>1. Base * q >= Base * Base
        BY <1>1, <2>1
      <3> QED BY <1>1, <1>4, <2>1, <3>1
    <2>3. q % Base = q /\ x % Full = x
      BY <1>1, <1>4, <2>1, <2>2
    <2>4. q * Base = Base * q
      BY <1>1, <2>1
    <2>5. LowByte(x) = r /\ HighByte(x) = q
      BY <2>3 DEF LowByte, HighByte, q, r
    <2> QED BY <1>1, <2>1, <2>2, <2>3, <2>4, <2>5 DEF CountByte
  <1> QED BY <1>1, <1>3, <1>4

LEMMA DelayedHow ==
  ASSUME NEW c, CountsDown(c)
  PROVE  CountsDown(Delayed(c)) /\ SetUpKept(c, Delayed(c))
  <1> DEFINE k == Clocked(c)
             d == Delayed(c)
  <1>1. CountsDown(k) /\ SetUpKept(c, k)
    BY ClockedHow
  <1>2. d = [k EXCEPT !.delay = 1]
    BY DEF Delayed, LATCH_DELAY
  <1> HIDE DEF k, d
  <1>3. /\ d \in Counter /\ SetUpKept(k, d) /\ d.value = k.value /\ d.load = k.load /\ d.enabled = k.enabled
    BY <1>1, <1>2 DEF CountsDown, Counter, SetUpKept
  <1> QED BY <1>1, <1>3 DEF CountsDown, Settled, Sensible, Reload, SetUpKept, d

LEMMA ModeKeeps ==
  ASSUME NEW c, CountsDown(c), NEW mode \in 0..3, NEW latchMode \in 1..3,
         Sensible([c EXCEPT !.mode = mode])
  PROVE  CountsDown(WithMode(c, mode, latchMode))
  <1> DEFINE d == Delayed(c)
             o == IF mode = 0 THEN 0 ELSE 1
             b == d.armed \/ mode \in {0, 1}
             w == WithMode(c, mode, latchMode)
  <1>1. d \in Counter /\ SetUpKept(c, d)
    BY DelayedHow DEF CountsDown
  <1>2. w = [d EXCEPT !.mode = mode, !.out = o, !.armed = b, !.enabled = FALSE, !.load = FALSE,
                      !.latchMode = latchMode, !.writeState = 0]
    BY DEF WithMode
  <1>3. o \in 0..1 /\ b \in BOOLEAN /\ latchMode \in 0..3 /\ 0 \in 0..1
    OBVIOUS
  <1> HIDE DEF d, o, b, w
  <1>4. w \in Counter /\ w.mode = mode /\ ~w.enabled /\ w.loadValue = d.loadValue
    BY <1>1, <1>2, <1>3 DEF Counter
  <1>5. mode # 3 \/ c.loadValue # 1
    BY DEF CountsDown, Counter, Sensible
  <1> QED BY <1>1, <1>4, <1>5 DEF CountsDown, Settled, Sensible, SetUpKept, w

LEMMA LatchKeeps ==
  ASSUME NEW c, CountsDown(c)
  PROVE  LET w == WithLatch(c)
         IN  /\ CountsDown(w) /\ w.latchMode = c.latchMode /\ w.writeState = c.writeState
             /\ w.latchValue = w.value /\ w.value \in 0..Full
  <1> DEFINE d == Delayed(c)
             w == WithLatch(c)
  <1>1. d \in Counter /\ SetUpKept(c, d) /\ CountsDown(d)
    BY DelayedHow DEF CountsDown
  <1>2. w = [d EXCEPT !.latchValue = d.value]
    BY DEF WithLatch
  <1> HIDE DEF d, w
  <1>3. d.value \in 0..Full
    BY <1>1, CounterFields
  <1>4. /\ w \in Counter /\ w.mode = d.mode /\ w.enabled = d.enabled /\ w.loadValue = d.loadValue
        /\ w.value = d.value /\ w.load = d.load /\ w.latchValue = d.value /\ w.latchMode = d.latchMode
        /\ w.writeState = d.writeState
    BY <1>1, <1>2, <1>3 DEF Counter
  <1> QED BY <1>1, <1>3, <1>4 DEF CountsDown, Settled, Sensible, Reload, SetUpKept, w

LEMMA LoadingTyped ==
  ASSUME NEW c \in Counter
  PROVE  Loading(c) \in Counter /\ Loading(c).load
  <1> DEFINE x == IF c.mode = 0 \/ ~c.enabled THEN 3 ELSE c.delay
  <1>1. x \in 0..3
    BY CounterFields
  <1>2. Loading(c) = [c EXCEPT !.load = TRUE, !.delay = x]
    BY DEF Loading
  <1> HIDE DEF x
  <1> QED BY <1>1, <1>2 DEF Counter

LEMMA ByteKeeps ==
  ASSUME NEW c, CountsDown(c), NEW v \in CountByte, Sensible(WithByte(c, v))
  PROVE  CountsDown(WithByte(c, v))
  <1> DEFINE w == WithByte(c, v)
             d == [c EXCEPT !.lsb = v, !.writeState = 1]
             n == v * Base + c.lsb
             e == [c EXCEPT !.writeState = 0, !.loadValue = n]
             low == [c EXCEPT !.loadValue = v]
             f == v * Base
             high == [c EXCEPT !.value = f, !.loadValue = f]
  <1>1. c \in Counter /\ Settled(c) /\ Sensible(c)
    BY DEF CountsDown
  <1>2. v \in 0..(Full - 1) /\ n \in 0..(Full - 1) /\ f \in 0..(Full - 1) /\ f \in 0..Full
    BY <1>1, FullFacts, CounterFields DEF CountByte
  <1> HIDE DEF n, f
  <1>3. d \in Counter /\ e \in Counter /\ low \in Counter /\ high \in Counter
    <2>1. 0 \in 0..1 /\ 1 \in 0..1
      OBVIOUS
    <2>2. d \in Counter
      BY <1>1, <2>1 DEF Counter
    <2>3. e \in Counter
      BY <1>1, <1>2, <2>1 DEF Counter
    <2>4. low \in Counter
      BY <1>1, <1>2 DEF Counter
    <2>5. high \in Counter
      BY <1>1, <1>2 DEF Counter
    <2> QED BY <2>2, <2>3, <2>4, <2>5
  <1>4. Loading(c) \in Counter /\ Loading(c).load /\ Loading(d) \in Counter /\ Loading(d).load
        /\ Loading(e) \in Counter /\ Loading(e).load /\ Loading(low) \in Counter /\ Loading(low).load
        /\ Loading(high) \in Counter /\ Loading(high).load
    <2> HIDE DEF d, e, low, high
    <2> QED BY <1>1, <1>3, LoadingTyped
  <1>5. d.mode = c.mode /\ d.enabled = c.enabled /\ d.load = c.load /\ d.value = c.value
        /\ d.loadValue = c.loadValue
    BY <1>1 DEF Counter
  <1>6. w = Loading(c) \/ w = Loading(d) \/ w = Loading(e) \/ w = Loading(low) \/ w = Loading(high)
        \/ w = c \/ w = d
    <2>1. c.latchMode \in 0..3 /\ c.writeState \in 0..1
      BY <1>1, CounterFields
    <2>2. w = CASE c.latchMode = 3 /\ c.writeState = 0 -> IF c.load THEN Loading(d) ELSE d
                [] c.latchMode = 3 /\ c.writeState = 1 -> Loading(e)
                [] c.latchMode = 1 -> Loading(low)
                [] c.latchMode = 2 -> Loading(high)
                [] c.latchMode = 0 -> IF c.load THEN Loading(c) ELSE c
      BY Zenon DEF WithByte, n, f
    <2> HIDE DEF d, e, low, high, w
    <2> QED BY <2>1, <2>2
  <1> HIDE DEF d, e, low, high, w
  <1>7. w \in Counter /\ Settled(w)
    BY <1>1, <1>3, <1>4, <1>5, <1>6 DEF Settled, Reload
  <1> QED BY <1>7 DEF CountsDown, w

LEMMA ReadKeeps ==
  ASSUME NEW c, CountsDown(c)
  PROVE  LET d == AfterRead(c)
         IN  /\ CountsDown(d) /\ d.mode = c.mode /\ d.enabled = c.enabled /\ d.load = c.load /\ d.delay = c.delay
             /\ d.value = c.value /\ d.loadValue = c.loadValue /\ d.out = c.out /\ d.latchMode = c.latchMode
             /\ c.latchMode = 3 /\ c.writeState = 0 => d.writeState = 1 /\ d.latchValue = c.latchValue
  <1> DEFINE d == AfterRead(c)
             e1 == [c EXCEPT !.latchValue = -1]
             e2 == [c EXCEPT !.writeState = 1]
             e3 == [e1 EXCEPT !.writeState = 0]
             Similar(e) ==
               /\ e \in Counter /\ e.mode = c.mode /\ e.enabled = c.enabled /\ e.load = c.load
               /\ e.delay = c.delay /\ e.value = c.value /\ e.loadValue = c.loadValue /\ e.out = c.out
               /\ e.latchMode = c.latchMode
  <1>1. c \in Counter /\ c.latchMode \in 0..3 /\ c.writeState \in 0..1
    BY CounterFields DEF CountsDown
  <1>2. Similar(c) /\ Similar(e1) /\ Similar(e2) /\ e2.writeState = 1 /\ e2.latchValue = c.latchValue
    BY <1>1 DEF Counter
  <1>3. Similar(e3)
    <2>1. e1 \in Counter /\ 0 \in 0..1
      BY <1>2
    <2>2. [e1 EXCEPT !.writeState = 0] \in Counter
      <3> HIDE DEF e1
      <3> QED BY <2>1 DEF Counter
    <2>3. /\ e3.mode = c.mode /\ e3.enabled = c.enabled /\ e3.load = c.load /\ e3.delay = c.delay
          /\ e3.value = c.value /\ e3.loadValue = c.loadValue /\ e3.out = c.out
          /\ e3.latchMode = c.latchMode
      BY <1>1 DEF Counter
    <2> QED BY <2>2, <2>3
  <1>4. d = CASE c.latchMode = 0 -> c
              [] c.latchMode \in {1, 2} -> e1
              [] c.latchMode = 3 /\ c.writeState = 0 -> e2
              [] c.latchMode = 3 /\ c.writeState = 1 -> e3
    BY DEF AfterRead
  <1> HIDE DEF d, e1, e2, e3, Similar
  <1>5. Similar(d) /\ (c.latchMode = 3 /\ c.writeState = 0 => d = e2)
    BY <1>1, <1>2, <1>3, <1>4
  <1>6. CountsDown(d)
    BY <1>5 DEF Similar, CountsDown, Settled, Sensible, Reload
  <1> QED BY <1>2, <1>5, <1>6 DEF d, Similar

Waves == [clocks : Nat, changes : 0..2, last : {-1} \cup Nat]
MidWave(c, w) ==
  w.changes > 0 =>
    /\ c.mode = 3 /\ c.enabled /\ ~c.load /\ c.delay = 0
    /\ Progress(Reload(c), c.value, w.clocks, c.out, w.changes)
HalfRight(c, w) ==
  w.last # -1 =>
    w.changes = 2 /\ w.last = IF c.out = 0 THEN (Reload(c) + 1) \div 2 ELSE Reload(c) \div 2
WaveRight(c, w) == w \in Waves /\ MidWave(c, w) /\ HalfRight(c, w)
LatchesFit == [count : Int, low : Int, read : Int]
LatchRight(c, l) ==
  /\ l \in LatchesFit
  /\ l.count # -1 =>
       /\ l.count \in 0..Full
       /\ l.read = -1 =>
            /\ c.latchMode = 3 /\ c.latchValue = l.count
            /\ \/ l.low = -1 /\ c.writeState = 0
               \/ l.low = LowByte(l.count) /\ c.writeState = 1
  /\ l.read # -1 => l.count # -1 /\ l.read = l.count % Full
TimerInv == CountsDown(counter) /\ WaveRight(counter, wave) /\ LatchRight(counter, latched)

LEMMA NoneRight ==
  ASSUME NEW c
  PROVE  WaveRight(c, NoWave) /\ LatchRight(c, NotLatched)
  BY DEF WaveRight, Waves, MidWave, HalfRight, NoWave, LatchRight, LatchesFit, NotLatched

LEMMA ClockKeeps ==
  ASSUME TimerInv, Clock
  PROVE  TimerInv'
  <1> DEFINE c == counter
             d == Clocked(counter)
             w == wave
             x == wave'
             n == Reload(counter)
  <1>1. CountsDown(c) /\ w \in Waves /\ MidWave(c, w) /\ HalfRight(c, w) /\ c \in Counter
    BY DEF TimerInv, WaveRight, CountsDown
  <1>2. counter' = d /\ latched' = latched
    BY DEF Clock
  <1>3. /\ CountsDown(d) /\ SetUpKept(c, d) /\ (c.delay = 0 => d.delay = 0)
        /\ c.mode = 3 /\ c.delay = 0 /\ c.enabled /\ ~c.load =>
             LET q == SquareWave(c)
             IN  d.value = q.value /\ d.out = q.out /\ d.enabled /\ ~d.load
    BY <1>1, ClockedHow
  <1>4. Reload(d) = n
    BY <1>3 DEF SetUpKept, Reload
  <1>5. /\ c.delay \in 0..3 /\ c.mode \in 0..3 /\ c.load \in BOOLEAN /\ c.enabled \in BOOLEAN
        /\ w.clocks \in Nat /\ w.changes \in 0..2 /\ w.last \in {-1} \cup Nat
    BY <1>1, CounterFields DEF Waves
  <1>6. x = IF c.delay > 0 THEN w
            ELSE IF d.out # c.out
            THEN [clocks |-> 0, last |-> IF w.changes = 2 THEN w.clocks + 1 ELSE -1,
                  changes |-> IF c.mode # 3 \/ c.load THEN 0
                              ELSE IF w.changes = 2 THEN 2 ELSE w.changes + 1]
            ELSE IF w.changes = 0 THEN w
            ELSE [w EXCEPT !.clocks = IF w.clocks < 2 * Full THEN w.clocks + 1 ELSE w.clocks]
    BY <1>2, Zenon DEF Clock
  <1>7. ASSUME c.mode = 3, c.delay = 0, c.enabled, ~c.load
        PROVE  /\ n \in Nat /\ n >= 2 /\ n <= Full /\ c.out \in 0..1
               /\ d.out # c.out => d.out = 1 - c.out /\ Progress(n, d.value, 0, d.out, 1)
               /\ w.changes > 0 => w.clocks < n
               /\ w.changes > 0 /\ d.out = c.out =>
                    Progress(n, d.value, w.clocks + 1, d.out, w.changes)
               /\ w.changes > 0 /\ d.out # c.out =>
                    /\ Progress(n, d.value, 0, d.out, 2)
                    /\ w.changes = 2 =>
                         w.clocks + 1 = IF d.out = 0 THEN (n + 1) \div 2 ELSE n \div 2
    <2> DEFINE q == SquareWave(c)
               left == Down2(n, c.value, c.out)
    <2>1. /\ n \in Nat /\ n >= 2 /\ n <= Full /\ c.value \in Nat /\ c.out \in 0..1
          /\ c.value >= 1 \/ n = 2
          /\ IF left > 0 THEN q.value = left /\ q.out = c.out
             ELSE q.value = left + n /\ q.out = 1 - c.out
      BY <1>1, <1>7, RunningLess
    <2>2. d.value = q.value /\ d.out = q.out
      BY <1>3, <1>7
    <2>3. /\ ~(left > 0) => Progress(n, left + n, 0, 1 - c.out, 1)
          /\ \A k \in Nat, changes \in 1..2 :
               Progress(n, c.value, k, c.out, changes) =>
                 /\ k < n
                 /\ left > 0 => Progress(n, left, k + 1, c.out, changes)
                 /\ ~(left > 0) =>
                      /\ Progress(n, left + n, 0, 1 - c.out, 2)
                      /\ changes = 2 =>
                           k + 1 = IF 1 - c.out = 0 THEN (n + 1) \div 2 ELSE n \div 2
      <3> HIDE DEF c, n
      <3> QED BY <2>1, HalfWaves
    <2>4. d.out = c.out <=> left > 0
      BY <2>1, <2>2
    <2>5. w.changes > 0 => w.changes \in 1..2 /\ Progress(n, c.value, w.clocks, c.out, w.changes)
      BY <1>1, <1>5 DEF MidWave
    <2> HIDE DEF c, d, w, n, left, q
    <2>6. /\ left > 0 => d.value = left /\ d.out = c.out
          /\ ~(left > 0) => d.value = left + n /\ d.out = 1 - c.out
      BY <2>1, <2>2
    <2>7. w.changes > 0 =>
            /\ w.clocks < n
            /\ left > 0 => Progress(n, left, w.clocks + 1, c.out, w.changes)
            /\ ~(left > 0) =>
                 /\ Progress(n, left + n, 0, 1 - c.out, 2)
                 /\ w.changes = 2 =>
                      w.clocks + 1 = IF 1 - c.out = 0 THEN (n + 1) \div 2 ELSE n \div 2
      BY <1>5, <2>3, <2>5
    <2> QED BY <2>1, <2>3, <2>4, <2>6, <2>7
  <1>8. c.delay = 0 /\ d.out # c.out => c.enabled \/ c.load
    <2> SUFFICES ASSUME c.delay = 0, ~c.enabled, ~c.load PROVE d = c
      OBVIOUS
    <2> QED BY DEF Clocked
  <1>9. LatchRight(d, latched)
    BY <1>3 DEF TimerInv, LatchRight, SetUpKept
  <1> HIDE DEF c, d, w, x, n
  <1>10. WaveRight(d, x)
    <2>1. CASE c.delay > 0
      <3>1. x = w /\ w.changes = 0 /\ w.last = -1
        BY <1>1, <1>5, <1>6, <2>1 DEF MidWave, HalfRight
      <3> QED BY <1>1, <3>1 DEF WaveRight, MidWave, HalfRight
    <2>2. CASE ~(c.delay > 0) /\ d.out # c.out
      <3>0. c.delay = 0
        BY <1>5, <2>2
      <3>1. /\ x.clocks = 0 /\ x.last = (IF w.changes = 2 THEN w.clocks + 1 ELSE -1)
            /\ x.changes = IF c.mode # 3 \/ c.load THEN 0 ELSE IF w.changes = 2 THEN 2 ELSE w.changes + 1
        BY <1>6, <2>2
      <3>2. x \in Waves
        <4>1. (IF w.changes = 2 THEN w.clocks + 1 ELSE -1) \in {-1} \cup Nat
          BY <1>5
        <4>2. (IF c.mode # 3 \/ c.load THEN 0 ELSE IF w.changes = 2 THEN 2 ELSE w.changes + 1) \in 0..2
          BY <1>5
        <4> QED BY <1>6, <2>2, <4>1, <4>2 DEF Waves
      <3>3. CASE c.mode # 3 \/ c.load
        <4>1. x.changes = 0 /\ w.changes # 2 /\ x.last = -1
          BY <1>1, <1>5, <3>1, <3>3 DEF MidWave
        <4> QED BY <3>2, <4>1 DEF WaveRight, MidWave, HalfRight
      <3>4. CASE c.mode = 3 /\ ~c.load
        <4>1. c.enabled /\ d.enabled /\ ~d.load /\ d.delay = 0 /\ d.mode = 3
          BY <1>3, <1>8, <2>2, <3>0, <3>4 DEF SetUpKept
        <4>2. Progress(n, d.value, 0, d.out, x.changes)
          <5>1. CASE w.changes = 0
            BY <1>7, <2>2, <3>0, <3>1, <3>4, <4>1, <5>1
          <5>2. CASE w.changes > 0
            <6>1. x.changes = 2
              BY <1>5, <3>1, <3>4, <5>2
            <6> QED BY <1>7, <2>2, <3>0, <3>4, <4>1, <5>2, <6>1
          <5> QED BY <1>5, <5>1, <5>2
        <4>3. HalfRight(d, x)
          <5> SUFFICES ASSUME x.last # -1
                       PROVE  x.changes = 2 /\ x.last = IF d.out = 0 THEN (n + 1) \div 2 ELSE n \div 2
            BY <1>4 DEF HalfRight
          <5>1. w.changes = 2 /\ x.last = w.clocks + 1 /\ x.changes = 2 /\ w.changes > 0
            BY <1>5, <3>1, <3>4
          <5> QED BY <1>7, <2>2, <3>0, <3>4, <4>1, <5>1
        <4> QED BY <1>4, <3>1, <3>2, <4>1, <4>2, <4>3 DEF WaveRight, MidWave
      <3> QED BY <3>3, <3>4
    <2>3. CASE ~(c.delay > 0) /\ d.out = c.out /\ w.changes = 0
      <3>1. x = w /\ w.last = -1
        BY <1>1, <1>5, <1>6, <2>3 DEF HalfRight
      <3> QED BY <1>1, <2>3, <3>1 DEF WaveRight, MidWave, HalfRight
    <2>4. CASE ~(c.delay > 0) /\ d.out = c.out /\ w.changes # 0
      <3>0. w.changes > 0
        BY <1>5, <2>4
      <3>1. c.delay = 0 /\ c.mode = 3 /\ c.enabled /\ ~c.load
        BY <1>1, <3>0 DEF MidWave
      <3>2. w.clocks < 2 * Full
        BY <1>5, <1>7, <3>0, <3>1, FullFacts
      <3>3. x = [w EXCEPT !.clocks = w.clocks + 1]
        BY <1>6, <2>4, <3>2
      <3>4. /\ x \in Waves /\ x.clocks = w.clocks + 1 /\ x.changes = w.changes /\ x.last = w.last
        BY <1>1, <1>5, <3>3 DEF Waves
      <3>5. d.enabled /\ ~d.load /\ d.delay = 0 /\ d.mode = 3
        BY <1>3, <3>1 DEF SetUpKept
      <3>6. Progress(n, d.value, w.clocks + 1, d.out, w.changes)
        BY <1>7, <2>4, <3>0, <3>1
      <3>7. HalfRight(d, x)
        BY <1>1, <1>4, <2>4, <3>4 DEF HalfRight, n, c
      <3> QED BY <1>4, <3>4, <3>5, <3>6, <3>7 DEF WaveRight, MidWave
    <2> QED BY <2>1, <2>2, <2>3, <2>4
  <1> QED BY <1>2, <1>3, <1>9, <1>10 DEF TimerInv, x

LEMMA LatchCountKeeps ==
  ASSUME TimerInv, LatchCount
  PROVE  TimerInv'
  <1> DEFINE c == counter
             d == WithLatch(counter)
  <1>1. /\ counter' = d /\ wave' = NoWave
        /\ latched' = IF c.latchMode = 3 /\ c.writeState = 0
                      THEN [count |-> d.value, low |-> -1, read |-> -1] ELSE NotLatched
    BY DEF LatchCount
  <1>2. /\ CountsDown(d) /\ d.latchMode = c.latchMode /\ d.writeState = c.writeState
        /\ d.latchValue = d.value /\ d.value \in 0..Full
    BY LatchKeeps DEF TimerInv
  <1> HIDE DEF c, d
  <1>3. LatchRight(d, latched')
    BY <1>1, <1>2, NoneRight, FullFacts DEF LatchRight, LatchesFit
  <1> QED BY <1>1, <1>2, <1>3, NoneRight DEF TimerInv

LEMMA ReadCounterKeeps ==
  ASSUME TimerInv, ReadCounter
  PROVE  TimerInv'
  <1> DEFINE c == counter
             d == AfterRead(counter)
             v == ByteRead(counter)
             l == latched
             m == latched'
  <1>1. /\ counter' = d /\ wave' = wave
        /\ m = IF l.count = -1 \/ l.read # -1 THEN NotLatched
               ELSE IF l.low = -1 THEN [l EXCEPT !.low = v] ELSE [l EXCEPT !.read = v * Base + l.low]
    BY DEF ReadCounter
  <1>2. CountsDown(c) /\ WaveRight(c, wave) /\ LatchRight(c, l)
    BY DEF TimerInv
  <1>3. /\ CountsDown(d) /\ d.mode = c.mode /\ d.enabled = c.enabled /\ d.load = c.load /\ d.delay = c.delay
        /\ d.value = c.value /\ d.loadValue = c.loadValue /\ d.out = c.out /\ d.latchMode = c.latchMode
        /\ c.latchMode = 3 /\ c.writeState = 0 => d.writeState = 1 /\ d.latchValue = c.latchValue
    BY <1>2, ReadKeeps
  <1>4. ASSUME l.count # -1, l.read = -1
        PROVE  /\ l.count \in 0..Full /\ c.latchMode = 3 /\ c.latchValue = l.count
               /\ v = IF l.low = -1 THEN LowByte(l.count) ELSE HighByte(l.count)
               /\ l.low = -1 => c.writeState = 0
               /\ l.low # -1 => l.low = LowByte(l.count)
    <2>1. l.count \in 0..Full /\ c.latchMode = 3 /\ c.latchValue = l.count
      BY <1>2, <1>4 DEF LatchRight
    <2>2. LowByte(l.count) # -1
      BY <2>1, BothBytes DEF CountByte
    <2>3. /\ l.low = -1 => c.writeState = 0
          /\ l.low # -1 => l.low = LowByte(l.count) /\ c.writeState = 1
      BY <1>2, <1>4, <2>2 DEF LatchRight
    <2>4. Reading(c) = l.count
      BY <1>4, <2>1 DEF Reading
    <2>5. v = IF c.writeState = 0 THEN LowByte(l.count) ELSE HighByte(l.count)
      BY <2>1, <2>3, <2>4 DEF ByteRead
    <2> QED BY <2>1, <2>3, <2>5
  <1>5. WaveRight(d, wave)
    <2>1. Reload(d) = Reload(c)
      BY <1>3 DEF Reload
    <2> HIDE DEF c, d
    <2> QED BY <1>2, <1>3, <2>1 DEF WaveRight, MidWave, HalfRight
  <1> HIDE DEF c, d, v, l, m
  <1>6. LatchRight(d, m)
    <2>1. CASE l.count = -1 \/ l.read # -1
      BY <1>1, <2>1, NoneRight
    <2>2. CASE l.count # -1 /\ l.read = -1
      <3>1. /\ LowByte(l.count) \in Int /\ HighByte(l.count) \in Int /\ LowByte(l.count) # -1
            /\ l.count % Full \in Int /\ l.count % Full # -1
            /\ HighByte(l.count) * Base + LowByte(l.count) = l.count % Full
        <4>1. /\ LowByte(l.count) \in CountByte /\ HighByte(l.count) \in CountByte
              /\ HighByte(l.count) * Base + LowByte(l.count) = l.count % Full
          BY <1>4, <2>2, BothBytes
        <4>2. HighByte(l.count) * Base + LowByte(l.count) \in 0..(Full - 1)
          BY <4>1, FullFacts
        <4>3. /\ \A b \in CountByte : b \in Int /\ b # -1
              /\ \A b \in 0..(Full - 1) : b \in Int /\ b # -1
          BY FullFacts DEF CountByte
        <4> QED BY <4>1, <4>2, <4>3
      <3>2. l \in LatchesFit
        BY <1>2 DEF LatchRight
      <3>3. CASE l.low = -1
        <4>1. m = [l EXCEPT !.low = v] /\ v = LowByte(l.count)
          BY <1>1, <1>4, <2>2, <3>3
        <4>2. m \in LatchesFit /\ m.count = l.count /\ m.low = v /\ m.read = -1
          BY <2>2, <3>1, <3>2, <4>1 DEF LatchesFit
        <4> QED BY <1>3, <1>4, <2>2, <3>3, <4>1, <4>2 DEF LatchRight
      <3>4. CASE l.low # -1
        <4>1. m = [l EXCEPT !.read = v * Base + l.low] /\ v * Base + l.low = l.count % Full
          BY <1>1, <1>4, <2>2, <3>1, <3>4
        <4>2. m \in LatchesFit /\ m.count = l.count /\ m.read = l.count % Full
          BY <2>2, <3>1, <3>2, <4>1 DEF LatchesFit
        <4> QED BY <1>4, <2>2, <3>1, <4>2 DEF LatchRight
      <3> QED BY <3>3, <3>4
    <2> QED BY <2>1, <2>2
  <1> QED BY <1>1, <1>3, <1>5, <1>6 DEF TimerInv, m

LEMMA FreshRight == CountsDown(Fresh)
  BY FullFacts DEF CountsDown, Counter, Settled, Sensible, Fresh, CountByte

LEMMA TimerStep == TimerInv /\ [TimerNext]_timerVars => TimerInv'
  <1> SUFFICES ASSUME TimerInv, [TimerNext]_timerVars PROVE TimerInv'
    OBVIOUS
  <1>1. CASE Clock
    BY <1>1, ClockKeeps
  <1>2. CASE LatchCount
    BY <1>2, LatchCountKeeps
  <1>3. CASE ReadCounter
    BY <1>3, ReadCounterKeeps
  <1>4. CASE TimerReset
    BY <1>4, FreshRight, NoneRight DEF TimerReset, TimerInv
  <1>5. ASSUME NEW mode \in 0..3, NEW latchMode \in 1..3, Sensible([counter EXCEPT !.mode = mode]),
               SetMode(mode, latchMode)
        PROVE  TimerInv'
    BY <1>5, ModeKeeps, NoneRight DEF SetMode, TimerInv
  <1>6. ASSUME NEW v \in CountByte, Sensible(WithByte(counter, v)), Write(v) PROVE TimerInv'
    BY <1>6, ByteKeeps, NoneRight DEF Write, TimerInv
  <1>7. CASE UNCHANGED timerVars
    BY <1>7 DEF timerVars, TimerInv
  <1> QED BY <1>1, <1>2, <1>3, <1>4, <1>5, <1>6, <1>7 DEF TimerNext

LEMMA TimerSays == TimerInv => CounterExact /\ TimerTypeOK
  <1> SUFFICES ASSUME TimerInv PROVE CounterExact /\ TimerTypeOK
    OBVIOUS
  <1>1. counter \in Counter
    BY DEF TimerInv, CountsDown
  <1>2. TimerTypeOK
    BY <1>1, CounterFields, FullFacts DEF TimerTypeOK
  <1>3. counter.value \in 0..Full
    BY <1>1, CounterFields
  <1> QED BY <1>2, <1>3 DEF CounterExact, TimerInv, WaveRight, HalfRight, LatchRight

LEMMA TimerInitially == TimerInit => TimerInv
  BY FreshRight, NoneRight DEF TimerInit, TimerInv

TimerSpec == TimerInit /\ [][TimerNext]_timerVars

(* The square wave has the halves its count gives it from the second       *)
(* change of the output after a load, the count stays within its range,    *)
(* and a latched count is read whole, whatever comes between its bytes     *)
(* (Clock(), Latch(), Read(), Write()).                                    *)
THEOREM TimerCounterExact == TimerSpec => []CounterExact
  BY TimerInitially, TimerStep, TimerSays, PTL DEF TimerSpec

(* The registers of a counter keep their widths (CounterUnit).             *)
THEOREM TimerTypesCorrect == TimerSpec => []TimerTypeOK
  BY TimerInitially, TimerStep, TimerSays, PTL DEF TimerSpec

-----------------------------------------------------------------------------
(* The sound chip. *)
Shape == [att : BOOLEAN, alt : BOOLEAN, hold : BOOLEAN]
Chip ==
  [ayr : [0..15 -> 0..255], toneCount : [Channel -> Nat], tons : [Channel -> BOOLEAN], envc : Nat,
   envv : 0..15, envx : 0..16, ay13 : Shape, noic : Nat, noiv : 0..1, noir : 1..(HighTap - 1),
   ayreg : 0..15]

LEMMA TapFacts ==
  /\ LowTap \in Nat /\ LowTap >= 1 /\ HighTap \in Nat /\ HighTap >= 2 * LowTap
  /\ \E m \in Nat : m >= 1 /\ HighTap = (2 * m) * LowTap
  <1>1. LowTap \in Nat /\ LowTap >= 1 /\ HighTap \in Nat /\ HighTap >= 1 /\ HighTap % (2 * LowTap) = 0
    BY SoundAssumption
  <1> DEFINE t == 2 * LowTap
             m == HighTap \div t
  <1>2. t \in Nat /\ t >= 2
    BY <1>1
  <1>3. m \in Nat /\ HighTap = t * m
    <2> HIDE DEF t
    <2>1. HighTap % t = 0
      BY <1>1 DEF t
    <2>2. HighTap = t * (HighTap \div t) + (HighTap % t) /\ HighTap \div t \in Nat
      BY <1>1, <1>2
    <2>3. t * (HighTap \div t) \in Int
      BY <1>2, <2>2
    <2> HIDE DEF m
    <2> QED BY <2>1, <2>2, <2>3 DEF m
  <1>4. m >= 1
    <2> HIDE DEF t, m
    <2> SUFFICES ASSUME m = 0 PROVE FALSE
      BY <1>3
    <2> QED BY <1>1, <1>2, <1>3
  <1> HIDE DEF m
  <1>5. t * m = (2 * m) * LowTap /\ t * m >= t
    BY <1>1, <1>3, <1>4
  <1> QED BY <1>1, <1>3, <1>4, <1>5

(* The noise register never becomes zero and stays below the upper tap. *)
LEMMA NoiseLives ==
  ASSUME NEW v \in 1..(HighTap - 1)
  PROVE  Tapped(v) \div 2 \in 1..(HighTap - 1)
  <1>1. LowTap \in Nat /\ LowTap >= 1 /\ HighTap \in Nat /\ HighTap >= 2 * LowTap
    BY TapFacts
  <1>2. CASE v % 2 = 0
    BY <1>1, <1>2 DEF Tapped
  <1>3. CASE v % 2 = 1
    <2> DEFINE w == v + HighTap
               q == w \div LowTap
    <2>1. v \div HighTap = 0
      BY <1>1
    <2>2. Inverted(v, HighTap) = w
      BY <2>1 DEF Inverted
    <2>3. Tapped(v) = IF q % 2 = 1 THEN w - LowTap ELSE w + LowTap
      BY <1>3, <2>2 DEF Tapped, Inverted
    <2>4. w \in Nat /\ w < 2 * HighTap /\ w >= HighTap + 1
      BY <1>1
    <2>5. q % 2 # 1 => w + LowTap < 2 * HighTap
      <3> SUFFICES ASSUME q % 2 # 1 PROVE w + LowTap < 2 * HighTap
        OBVIOUS
      <3>1. PICK m \in Nat : m >= 1 /\ HighTap = (2 * m) * LowTap
        BY TapFacts
      <3> HIDE DEF w
      <3>2. q \in Nat /\ w = LowTap * q + (w % LowTap) /\ w % LowTap \in 0..(LowTap - 1)
        BY <1>1, <2>4
      <3> HIDE DEF q
      <3>3. PICK r \in 0..(LowTap - 1) : w = LowTap * q + r
        BY <3>2
      <3>4. LowTap * q < LowTap * (4 * m)
        BY <1>1, <2>4, <3>1, <3>2, <3>3
      <3>5. q < 4 * m
        <4> SUFFICES ASSUME q >= 4 * m PROVE FALSE
          BY <3>1, <3>2
        <4>1. LowTap * q >= LowTap * (4 * m)
          BY <1>1, <3>1, <3>2
        <4> QED BY <1>1, <3>1, <3>2, <3>4, <4>1
      <3>6. q + 2 <= 4 * m
        <4>1. \E h \in Nat : q = 2 * h
          <5>1. q \div 2 \in Nat /\ q = 2 * (q \div 2)
            BY <3>2
          <5> QED BY <5>1
        <4> QED BY <3>1, <3>2, <3>5, <4>1
      <3>7. LowTap * (q + 2) <= LowTap * (4 * m)
        BY <1>1, <3>1, <3>2, <3>6
      <3>8. LowTap * (q + 2) = LowTap * q + 2 * LowTap /\ LowTap * (4 * m) = 2 * HighTap
        BY <1>1, <3>1, <3>2
      <3> QED BY <1>1, <3>1, <3>2, <3>3, <3>7, <3>8
    <2> HIDE DEF w, q
    <2>6. Tapped(v) \in Nat /\ Tapped(v) >= 2 /\ Tapped(v) < 2 * HighTap
      BY <1>1, <2>3, <2>4, <2>5
    <2> HIDE DEF w
    <2> QED BY <1>1, <2>6
  <1> QED BY <1>1, <1>2, <1>3

LEMMA ChipFields ==
  ASSUME NEW c \in Chip
  PROVE  /\ c.ayr \in [0..15 -> 0..255] /\ c.toneCount \in [Channel -> Nat] /\ c.tons \in [Channel -> BOOLEAN]
         /\ c.envc \in Nat /\ c.envv \in 0..15 /\ c.envx \in 0..16 /\ c.ay13 \in Shape /\ c.noic \in Nat
         /\ c.noiv \in 0..1 /\ c.noir \in 1..(HighTap - 1) /\ c.ayreg \in 0..15
  BY DEF Chip

LEMMA ChipIs ==
  ASSUME NEW ayr \in [0..15 -> 0..255], NEW counts \in [Channel -> Nat], NEW tons \in [Channel -> BOOLEAN],
         NEW shape \in Shape, NEW noir \in 1..(HighTap - 1)
  PROVE  [ayr |-> ayr, toneCount |-> counts, tons |-> tons, envc |-> 0, envv |-> 0, envx |-> 0,
          ay13 |-> shape, noic |-> 0, noiv |-> 0, noir |-> noir, ayreg |-> 0] \in Chip
  BY DEF Chip

ChipFacts(c) ==
  /\ c.ayr \in [0..15 -> 0..255] /\ c.toneCount \in [Channel -> Nat] /\ c.tons \in [Channel -> BOOLEAN]
  /\ c.envv \in 0..15 /\ c.envx \in 0..16 /\ c.noiv \in 0..1 /\ c.noir \in 1..(HighTap - 1)
  /\ c.ayreg \in 0..15
LEMMA ChipHasFacts ==
  ASSUME NEW c \in Chip
  PROVE  ChipFacts(c)
  <1>1. c.ayr \in [0..15 -> 0..255] /\ c.toneCount \in [Channel -> Nat] /\ c.tons \in [Channel -> BOOLEAN]
    BY DEF Chip
  <1>2. /\ c.envv \in 0..15 /\ c.envx \in 0..16 /\ c.noiv \in 0..1 /\ c.noir \in 1..(HighTap - 1)
        /\ c.ayreg \in 0..15
    BY DEF Chip
  <1> QED BY <1>1, <1>2, Zenon DEF ChipFacts

LeveledTo(c, d, v) ==
  /\ d \in Chip /\ d.ayr = c.ayr /\ d.toneCount = c.toneCount /\ d.tons = c.tons
  /\ d.envc = c.envc /\ d.noic = c.noic /\ d.noiv = c.noiv /\ d.noir = c.noir
  /\ d.ayreg = c.ayreg /\ d.envx = c.envx /\ d.ay13 = c.ay13 /\ d.envv = v
LEMMA ChipWithLevel ==
  ASSUME NEW c \in Chip, NEW v \in 0..15
  PROVE  LeveledTo(c, [c EXCEPT !.envv = v], v)
  BY DEF Chip, LeveledTo

LEMMA TapsApart == HighTap \in Nat /\ HighTap > 1
  BY TapFacts

LEMMA Periods ==
  ASSUME ay \in Chip
  PROVE  /\ EnvelopePeriod \in Nat /\ NoisePeriod \in Nat
         /\ \A ch \in Channel : TonePeriod(ch) \in Nat
  <1>1. \A r \in 0..15 : ay.ayr[r] \in Nat
    <2>1. ay.ayr \in [0..15 -> 0..255]
      BY ChipFields
    <2>2. \A f \in [0..15 -> 0..255], r \in 0..15 : f[r] \in 0..255
      OBVIOUS
    <2>3. 0..255 \subseteq Nat
      OBVIOUS
    <2> QED BY <2>1, <2>2, <2>3
  <1>2. \A ch \in Channel : 2 * ch \in 0..15 /\ 2 * ch + 1 \in 0..15
    BY DEF Channel
  <1> QED BY <1>1, <1>2 DEF EnvelopePeriod, NoisePeriod, TonePeriod

(* Where k steps have brought the envelope of a shape s, with the bits of   *)
(* Ay13(s): the ramp at x, its direction and the level v heard.             *)
Ramp(s, k, x, bits, v) ==
  LET a == Ay13(s)
      turned == a.alt /\ ((k - 1) \div 16) % 2 = 1
  IN  /\ bits.alt = a.alt /\ bits.hold = a.hold
      /\ k > 0 => v = Level(s, k - 1)
      /\ k <= 16 => x = k /\ bits.att = a.att
      /\ k > 16 /\ a.hold => x = 16 /\ bits.att = a.att
      /\ k > 16 /\ ~a.hold => x = ((k - 1) % 16) + 1 /\ bits.att = (a.att # turned)

LEMMA Shapes ==
  ASSUME NEW s \in 0..15
  PROVE  /\ Ay13(s) \in Shape
         /\ \A n \in 0..47 :
              Level(s, n) =
                LET a == Ay13(s)
                    turned == a.alt /\ (n \div 16) % 2 = 1
                IN  IF n < 16 THEN (IF a.att THEN n ELSE 15 - n)
                    ELSE IF a.hold THEN (IF a.att # a.alt THEN 15 ELSE 0)
                    ELSE IF a.att # turned THEN n % 16 ELSE 15 - (n % 16)
  <1> DEFINE a == Ay13(s)
             A == (s \div 4) % 2 = 1
             L == (s \div 2) % 2 = 1
             H == s % 2 = 1
  <1>1. /\ s < 4 => a = [att |-> FALSE, alt |-> FALSE, hold |-> TRUE] /\ ~A
        /\ s \in 4..7 => a = [att |-> TRUE, alt |-> TRUE, hold |-> TRUE] /\ A
        /\ s >= 8 => a = [att |-> s \in 12..15, alt |-> s % 4 >= 2, hold |-> s % 2 = 1]
    BY DEF Ay13
  <1>2. /\ s >= 8 /\ A <=> s \in 12..15
        /\ L <=> s % 4 >= 2
    OBVIOUS
  <1> HIDE DEF A, L, H
  <1> HIDE DEF a
  <1>3. \E x, y, z \in BOOLEAN :
          /\ a = [att |-> x, alt |-> y, hold |-> z]
          /\ s >= 8 => (x <=> A) /\ (y <=> L) /\ (z <=> H)
          /\ s < 8 => z /\ (x <=> y) /\ (x <=> A)
    <2>1. CASE s < 4
      <3>1. a = [att |-> FALSE, alt |-> FALSE, hold |-> TRUE] /\ ~A /\ ~(s >= 8)
        BY <1>1, <2>1
      <3>2. FALSE \in BOOLEAN /\ TRUE \in BOOLEAN
        OBVIOUS
      <3> QED BY <3>1, <3>2, Zenon
    <2>2. CASE s \in 4..7
      <3>1. a = [att |-> TRUE, alt |-> TRUE, hold |-> TRUE] /\ A /\ ~(s >= 8)
        BY <1>1, <2>2
      <3>2. TRUE \in BOOLEAN
        OBVIOUS
      <3> QED BY <3>1, <3>2, Zenon
    <2>3. CASE s >= 8
      <3>1. a = [att |-> s \in 12..15, alt |-> s % 4 >= 2, hold |-> s % 2 = 1] /\ ~(s < 8)
        BY <1>1, <2>3
      <3>2. (s \in 12..15) \in BOOLEAN /\ (s % 4 >= 2) \in BOOLEAN /\ (s % 2 = 1) \in BOOLEAN
        <4>1. (s % 2 = 1) \in BOOLEAN
          BY Zenon
        <4>3. (s \in 12..15) \in BOOLEAN
          OBVIOUS
        <4>2. (s % 4 >= 2) \in BOOLEAN
          OBVIOUS
        <4> QED BY <4>1, <4>2, <4>3
      <3> QED BY <1>2, <2>3, <3>1, <3>2, Zenon DEF H
    <2> QED BY <2>1, <2>2, <2>3
  <1>4. PICK x \in BOOLEAN, y \in BOOLEAN, z \in BOOLEAN :
          /\ a = [att |-> x, alt |-> y, hold |-> z]
          /\ s >= 8 => (x <=> A) /\ (y <=> L) /\ (z <=> H)
          /\ s < 8 => z /\ (x <=> y) /\ (x <=> A)
    BY <1>3, Zenon
  <1>5. a \in Shape /\ a.att = x /\ a.alt = y /\ a.hold = z
    BY <1>4 DEF Shape
  <1>6. ASSUME NEW n \in 0..47
        PROVE  Level(s, n) = LET turned == y /\ (n \div 16) % 2 = 1
                             IN  IF n < 16 THEN (IF x THEN n ELSE 15 - n)
                                 ELSE IF z THEN (IF x # y THEN 15 ELSE 0)
                                 ELSE IF x # turned THEN n % 16 ELSE 15 - (n % 16)
    <2> DEFINE odd == (n \div 16) % 2 = 1
    <2>1. Level(s, n) = CASE n < 16 -> IF A THEN n ELSE 15 - n
                          [] n >= 16 /\ ~(s >= 8) -> 0
                          [] n >= 16 /\ s >= 8 /\ H -> IF A # L THEN 15 ELSE 0
                          [] n >= 16 /\ s >= 8 /\ ~H ->
                               IF A # (L /\ odd) THEN n % 16 ELSE 15 - (n % 16)
      BY Zenon DEF Level, A, L, H
    <2> HIDE DEF odd
    <2>2. A \in BOOLEAN /\ L \in BOOLEAN /\ H \in BOOLEAN /\ odd \in BOOLEAN
      BY Zenon DEF A, L, H, odd
    <2>3. CASE s >= 8
      <3>1. CASE n < 16
        BY <1>4, <2>1, <2>3, <3>1
      <3>2. CASE n >= 16 /\ H
        <4>1. Level(s, n) = IF A # L THEN 15 ELSE 0
          BY <2>1, <2>3, <3>2
        <4>2. ~(n < 16) /\ z
          BY <1>4, <2>3, <3>2
        <4>3. (x # y) <=> (A # L)
          BY <1>4, <2>2, <2>3, Zenon
        <4> QED BY <4>1, <4>2, <4>3, Zenon
      <3>3. CASE n >= 16 /\ ~H
        <4>1. Level(s, n) = IF A # (L /\ odd) THEN n % 16 ELSE 15 - (n % 16)
          BY <2>1, <2>3, <3>3
        <4>2. ~(n < 16) /\ ~z
          BY <1>4, <2>3, <3>3
        <4>3. (x # (y /\ odd)) <=> (A # (L /\ odd))
          BY <1>4, <2>2, <2>3, Zenon
        <4> QED BY <4>1, <4>2, <4>3, Zenon DEF odd
      <3> QED BY <3>1, <3>2, <3>3
    <2>4. CASE s < 8
      <3>1. ~(s >= 8) /\ (n < 16 \/ n >= 16)
        BY <2>4
      <3>2. z /\ ~(x # y)
        BY <1>4, <2>4, Zenon
      <3>3. CASE n < 16
        BY <1>4, <2>1, <2>4, <3>1, <3>3
      <3>4. CASE n >= 16
        <4>1. Level(s, n) = 0 /\ ~(n < 16)
          BY <2>1, <3>1, <3>4
        <4> QED BY <3>2, <4>1, Zenon
      <3> QED BY <3>1, <3>3, <3>4
    <2> QED BY <2>3, <2>4
  <1>7. /\ Ay13(s) \in Shape
        /\ \A n \in 0..47 :
             Level(s, n) =
               LET turned == a.alt /\ (n \div 16) % 2 = 1
               IN  IF n < 16 THEN (IF a.att THEN n ELSE 15 - n)
                   ELSE IF a.hold THEN (IF a.att # a.alt THEN 15 ELSE 0)
                   ELSE IF a.att # turned THEN n % 16 ELSE 15 - (n % 16)
    BY <1>5, <1>6, Zenon DEF a
  <1> QED BY <1>7, Zenon DEF a

(* One step of the envelope. *)
LEMMA EnvelopeSteps ==
  ASSUME NEW c \in Chip, NEW s \in 0..15, NEW k \in 0..48, Ramp(s, k, c.envx, c.ay13, c.envv)
  PROVE  LET d == EStep(c)
             j == IF k = 48 THEN 17 ELSE k + 1
         IN  /\ d \in Chip /\ d.ayr = c.ayr /\ d.toneCount = c.toneCount /\ d.tons = c.tons
             /\ d.envc = c.envc /\ d.noic = c.noic /\ d.noiv = c.noiv /\ d.noir = c.noir
             /\ d.ayreg = c.ayreg /\ Ramp(s, j, d.envx, d.ay13, d.envv)
  <1> DEFINE a == Ay13(s)
             d == EStep(c)
             j == IF k = 48 THEN 17 ELSE k + 1
             wrapped == c.envx = 16
             att == IF wrapped /\ c.ay13.alt THEN ~c.ay13.att ELSE c.ay13.att
             x == IF wrapped THEN 0 ELSE c.envx
             v == IF att THEN x ELSE 15 - x
             bits == [c.ay13 EXCEPT !.att = att]
  <1>1. /\ c.envv \in 0..15 /\ c.envx \in 0..16 /\ c.ay13 \in Shape
    BY ChipFields
  <1>2. /\ c.ay13.att \in BOOLEAN /\ c.ay13.alt \in BOOLEAN /\ c.ay13.hold \in BOOLEAN
    BY <1>1 DEF Shape
  <1>3. a \in Shape
    BY Shapes
  <1>4. a.att \in BOOLEAN /\ a.alt \in BOOLEAN /\ a.hold \in BOOLEAN
    BY <1>3 DEF Shape
  <1>5. \A n \in 0..47 :
          Level(s, n) =
            LET turned == a.alt /\ (n \div 16) % 2 = 1
            IN  IF n < 16 THEN (IF a.att THEN n ELSE 15 - n)
                ELSE IF a.hold THEN (IF a.att # a.alt THEN 15 ELSE 0)
                ELSE IF a.att # turned THEN n % 16 ELSE 15 - (n % 16)
    BY Shapes
  <1> HIDE DEF a
  <1>6. /\ c.ay13.alt = a.alt /\ c.ay13.hold = a.hold
        /\ k <= 16 => c.envx = k /\ c.ay13.att = a.att
        /\ k > 16 /\ a.hold => c.envx = 16 /\ c.ay13.att = a.att
        /\ k > 16 /\ ~a.hold =>
             /\ c.envx = ((k - 1) % 16) + 1
             /\ c.ay13.att = (a.att # (a.alt /\ ((k - 1) \div 16) % 2 = 1))
    BY DEF Ramp, a
  <1>7. j \in 1..48 /\ j - 1 \in 0..47
    OBVIOUS
  <1>8. CASE wrapped /\ c.ay13.hold
    <2>1. d = [c EXCEPT !.envv = Held(c)]
      BY <1>8 DEF EStep
    <2>2. Held(c) \in 0..15
      BY DEF Held
    <2>3. /\ d \in Chip /\ d.ayr = c.ayr /\ d.toneCount = c.toneCount /\ d.tons = c.tons
          /\ d.envc = c.envc /\ d.noic = c.noic /\ d.noiv = c.noiv /\ d.noir = c.noir
          /\ d.ayreg = c.ayreg /\ d.envx = c.envx /\ d.ay13 = c.ay13 /\ d.envv = Held(c)
      <3> DEFINE flat == Held(c)
      <3>1. d = [c EXCEPT !.envv = flat] /\ flat \in 0..15
        BY <2>1, <2>2
      <3> HIDE DEF d, flat
      <3>2. /\ d \in Chip /\ d.ayr = c.ayr /\ d.toneCount = c.toneCount /\ d.tons = c.tons
            /\ d.envc = c.envc /\ d.noic = c.noic /\ d.noiv = c.noiv /\ d.noir = c.noir
            /\ d.ayreg = c.ayreg /\ d.envx = c.envx /\ d.ay13 = c.ay13 /\ d.envv = flat
        <4>1. LeveledTo(c, [c EXCEPT !.envv = flat], flat)
          BY <3>1, ChipWithLevel, Zenon
        <4>2. LeveledTo(c, d, flat)
          BY <3>1, <4>1, Zenon
        <4> QED BY <4>2, Zenon DEF LeveledTo
      <3> QED BY <3>2 DEF flat
    <2>4. k >= 16 /\ j > 16 /\ ~(j - 1 < 16) /\ c.ay13.att = a.att /\ a.hold
      BY <1>6, <1>8
    <2>5. Level(s, j - 1) = IF a.att # a.alt THEN 15 ELSE 0
      BY <1>5, <1>7, <2>4
    <2>6. Held(c) = IF a.att # a.alt THEN 15 ELSE 0
      BY <1>6, <2>4, Zenon DEF Held
    <2>7. Ramp(s, j, d.envx, d.ay13, d.envv)
      <3>1. ~(j <= 16) /\ d.envx = 16 /\ d.envv = Level(s, j - 1)
        BY <1>7, <1>8, <2>3, <2>4, <2>5, <2>6
      <3> HIDE DEF d, j
      <3> QED BY <1>6, <2>3, <2>4, <3>1, Zenon DEF Ramp, a
    <2> QED BY <2>3, <2>7
  <1>9. CASE ~(wrapped /\ c.ay13.hold)
    <2>1. d = [c EXCEPT !.envx = x + 1, !.ay13.att = att, !.envv = v]
      BY <1>9 DEF EStep
    <2>2. x \in 0..15 /\ att \in BOOLEAN
      <3>1. x \in 0..15
        BY <1>1
      <3>2. att \in BOOLEAN
        BY <1>2, Zenon
      <3> QED BY <3>1, <3>2
    <2> HIDE DEF x, att
    <2>3. v \in 0..15 /\ x + 1 \in 0..16
      BY <2>2
    <2>4. /\ bits \in Shape /\ bits.att = att /\ bits.alt = c.ay13.alt /\ bits.hold = c.ay13.hold
      BY <1>1, <2>2 DEF Shape
    <2> HIDE DEF v, bits
    <2>5. d = [c EXCEPT !.envx = x + 1, !.ay13 = bits, !.envv = v]
      BY <2>1 DEF bits
    <2> HIDE DEF d
    <2>6. /\ d \in Chip /\ d.ayr = c.ayr /\ d.toneCount = c.toneCount /\ d.tons = c.tons
          /\ d.envc = c.envc /\ d.noic = c.noic /\ d.noiv = c.noiv /\ d.noir = c.noir
          /\ d.ayreg = c.ayreg /\ d.envx = x + 1 /\ d.ay13 = bits /\ d.envv = v
      BY <2>3, <2>4, <2>5, ZenonT(60) DEF Chip
    <2>7. CASE k < 16
      <3>1. ~wrapped /\ x = k /\ j = k + 1 /\ j <= 16 /\ c.ay13.att = a.att
        BY <1>6, <2>7 DEF x
      <3>2. att = a.att
        BY <3>1, Zenon DEF att
      <3>3. Level(s, j - 1) = IF a.att THEN k ELSE 15 - k
        <4>1. j - 1 = k /\ k \in 0..47 /\ k < 16
          BY <2>7, <3>1
        <4> HIDE DEF j
        <4> QED BY <1>5, <4>1
      <3>4. v = IF a.att THEN k ELSE 15 - k
        BY <3>1, <3>2 DEF v
      <3> HIDE DEF j
      <3> QED BY <1>6, <2>4, <2>6, <3>1, <3>2, <3>3, <3>4 DEF Ramp, d, j, a
    <2>8. CASE k >= 16
      <3> DEFINE turned == a.alt /\ ((j - 1) \div 16) % 2 = 1
                 before == a.alt /\ ((k - 1) \div 16) % 2 = 1
      <3>1. ~a.hold /\ j > 16 /\ ~(j - 1 < 16)
        BY <1>6, <1>9, <2>8
      <3>2. c.envx = ((k - 1) % 16) + 1 /\ c.ay13.att = (a.att # before)
        <4>1. CASE k = 16
          <5>1. ~before /\ before \in BOOLEAN
            BY <4>1
          <5>2. c.envx = 16 /\ c.ay13.att = a.att /\ (k - 1) % 16 = 15
            BY <1>6, <4>1
          <5>3. (a.att # before) = a.att
            BY <1>4, <5>1, Zenon
          <5> HIDE DEF before
          <5> QED BY <5>2, <5>3
        <4>2. CASE k > 16
          BY <1>6, <3>1, <4>2
        <4> QED BY <2>8, <4>1, <4>2
      <3>3. x = (j - 1) % 16
        <4>1. CASE k \in {16, 32, 48}
          BY <3>2, <4>1 DEF x
        <4>2. CASE k \notin {16, 32, 48}
          <5>1. (k - 1) % 16 # 15 /\ j = k + 1 /\ k % 16 = ((k - 1) % 16) + 1
            BY <2>8, <4>2
          <5>2. ~wrapped
            BY <3>2, <5>1
          <5> QED BY <3>2, <5>1, <5>2 DEF x
        <4> QED BY <4>1, <4>2
      <3>4. att = (a.att # turned)
        <4>1. CASE k \in {16, 32, 48}
          <5>1. wrapped /\ (turned <=> a.alt /\ ~before) /\ turned \in BOOLEAN /\ before \in BOOLEAN
            BY <1>4, <3>2, <4>1
          <5>2. att = IF a.alt THEN ~(a.att # before) ELSE (a.att # before)
            BY <1>6, <3>2, <5>1, Zenon DEF att
          <5>3. ~a.alt => ~before
            OBVIOUS
          <5> HIDE DEF turned, before
          <5> QED BY <1>4, <5>1, <5>2, <5>3, Zenon
        <4>2. CASE k \notin {16, 32, 48}
          <5>1. (k - 1) % 16 # 15 /\ j = k + 1 /\ (k \div 16) = ((k - 1) \div 16) /\ (k + 1) - 1 = k
            BY <2>8, <4>2
          <5>2. ~wrapped /\ turned = before
            BY <3>2, <5>1
          <5>3. att = c.ay13.att
            BY <5>2, Zenon DEF att
          <5> QED BY <3>2, <5>2, <5>3, Zenon
        <4> QED BY <4>1, <4>2
      <3>5. Level(s, j - 1) = IF a.att # turned THEN (j - 1) % 16 ELSE 15 - ((j - 1) % 16)
        BY <1>5, <1>7, <3>1
      <3>6. v = Level(s, j - 1)
        <4> HIDE DEF j, turned
        <4> QED BY <3>3, <3>4, <3>5, Zenon DEF v
      <3>7. j > 16 /\ ~a.hold /\ x + 1 = ((j - 1) % 16) + 1
        BY <3>1, <3>3
      <3> HIDE DEF j, v
      <3>8. Ramp(s, j, x + 1, bits, v)
        <4>1. bits.alt = a.alt /\ bits.hold = a.hold /\ bits.att = (a.att # turned)
          BY <1>6, <2>4, <3>4, Zenon
        <4>2. j > 0 /\ ~(j <= 16)
          BY <3>7 DEF j
        <4> QED BY <3>6, <3>7, <4>1, <4>2, Zenon DEF Ramp, a
      <3> QED BY <2>6, <3>8 DEF d, j
    <2> QED BY <2>7, <2>8
  <1> QED BY <1>8, <1>9

(* The tones: the count of the chip and that of the ghost agree.           *)
Tone == [clocks : Nat, same : BOOLEAN, last : {-1} \cup Nat]
HalfOf(period) == IF period = 0 THEN 1 ELSE period
Sounds(t, ticks, period) ==
  /\ t.same => ticks = t.clocks /\ ticks < HalfOf(period)
  /\ t.last # -1 => t.last = HalfOf(period)
Envelopes == [shape : 0..15, steps : 0..48]
SoundInv ==
  /\ ay \in Chip /\ tune \in Tunes /\ envelope \in Envelopes
  /\ Ramp(envelope.shape, envelope.steps, ay.envx, ay.ay13, ay.envv)
  /\ tones \in [Channel -> Tone]
  /\ \A ch \in Channel : Sounds(tones[ch], ay.toneCount[ch], TonePeriod(ch))

LEMMA ToneClock ==
  ASSUME NEW t \in Tone, NEW ticks \in Nat, NEW period \in Nat, Sounds(t, ticks, period)
  PROVE  LET toggles == ticks + 1 >= period
             u == CASE toggles -> [clocks |-> 0, same |-> TRUE,
                                   last |-> IF t.same THEN t.clocks + 1 ELSE -1]
                    [] ~toggles -> [t EXCEPT !.clocks = IF t.same THEN @ + 1 ELSE @]
         IN  u \in Tone /\ Sounds(u, IF toggles THEN 0 ELSE ticks + 1, period)
  <1>1. t.clocks \in Nat /\ t.same \in BOOLEAN /\ t.last \in {-1} \cup Nat
    BY DEF Tone
  <1>2. CASE ticks + 1 >= period
    <2> DEFINE whole == IF t.same THEN t.clocks + 1 ELSE -1
               u == [clocks |-> 0, same |-> TRUE, last |-> whole]
    <2>1. whole \in {-1} \cup Nat
      BY <1>1
    <2>2. whole # -1 => whole = HalfOf(period)
      BY <1>1, <1>2 DEF Sounds, HalfOf
    <2> HIDE DEF whole
    <2>3. u \in Tone /\ u.clocks = 0 /\ u.last = whole
      BY <2>1 DEF Tone
    <2>4. 0 < HalfOf(period)
      BY DEF HalfOf
    <2> HIDE DEF u
    <2> QED BY <1>2, <2>2, <2>3, <2>4 DEF Sounds, u, whole
  <1>3. CASE ~(ticks + 1 >= period)
    <2> DEFINE n == IF t.same THEN t.clocks + 1 ELSE t.clocks
               u == [t EXCEPT !.clocks = n]
    <2>1. n \in Nat
      BY <1>1
    <2> HIDE DEF n
    <2>2. u \in Tone /\ u.same = t.same /\ u.last = t.last /\ u.clocks = n
      BY <2>1 DEF Tone
    <2>3. ticks + 1 < HalfOf(period)
      BY <1>3 DEF HalfOf
    <2> HIDE DEF u
    <2> QED BY <1>3, <2>2, <2>3 DEF Sounds, u, n
  <1> QED BY <1>2, <1>3

LEMMA Clock8910Keeps ==
  ASSUME SoundInv, Clock8910
  PROVE  SoundInv'
  <1> DEFINE e0 == [ay EXCEPT !.envc = ay.envc + 1]
             e1 == [ay EXCEPT !.envc = 0]
             e == EnvelopeClock(ay)
             n == NoiseClock(e)
             d == CStep(n)
             s == envelope.shape
             k == envelope.steps
             m == envelope'
  <1>1. /\ ay \in Chip /\ tune \in Tunes /\ envelope \in Envelopes /\ tones \in [Channel -> Tone]
        /\ Ramp(s, k, ay.envx, ay.ay13, ay.envv)
        /\ \A ch \in Channel : Sounds(tones[ch], ay.toneCount[ch], TonePeriod(ch))
    BY DEF SoundInv
  <1>2. s \in 0..15 /\ k \in 0..48
    BY <1>1 DEF Envelopes
  <1>0. /\ \A c \in Chip, v \in Nat :
             LET x == [c EXCEPT !.envc = v]
             IN  /\ x \in Chip /\ x.ayr = c.ayr /\ x.toneCount = c.toneCount /\ x.envx = c.envx
                 /\ x.ay13 = c.ay13 /\ x.envv = c.envv
        /\ \A c \in Chip, v \in Nat :
             LET x == [c EXCEPT !.noic = v]
             IN  /\ x \in Chip /\ x.ayr = c.ayr /\ x.toneCount = c.toneCount /\ x.envx = c.envx
                 /\ x.ay13 = c.ay13 /\ x.envv = c.envv
    BY ZenonT(60) DEF Chip
  <1>3. /\ ay' = d /\ tune' = tune
        /\ m = IF ay.envc + 1 < EnvelopePeriod THEN envelope
               ELSE [envelope EXCEPT !.steps = IF k = 48 THEN 17 ELSE k + 1]
    BY Zenon DEF Clock8910
  <1>4. EnvelopePeriod \in Nat /\ NoisePeriod \in Nat /\ \A ch \in Channel : TonePeriod(ch) \in Nat
    BY <1>1, Periods
  <1>5. /\ e \in Chip /\ e.ayr = ay.ayr /\ e.toneCount = ay.toneCount /\ e.noic \in Nat
        /\ m \in Envelopes /\ Ramp(m.shape, m.steps, e.envx, e.ay13, e.envv)
    <2>0. ay.envc \in Nat
      BY <1>1, ChipFields
    <2>1. CASE ay.envc + 1 < EnvelopePeriod
      <3>1. e = e0 /\ m = envelope
        BY <1>3, <2>1 DEF EnvelopeClock
      <3>2. /\ e0 \in Chip /\ e0.ayr = ay.ayr /\ e0.toneCount = ay.toneCount /\ e0.envx = ay.envx
            /\ e0.ay13 = ay.ay13 /\ e0.envv = ay.envv
        <4>1. ay.envc + 1 \in Nat
          BY <2>0
        <4> QED BY <1>0, <1>1, <4>1
      <3> HIDE DEF e0, e, m
      <3> QED BY <1>1, <3>1, <3>2, ChipFields
    <2>2. CASE ~(ay.envc + 1 < EnvelopePeriod)
      <3> DEFINE j == IF k = 48 THEN 17 ELSE k + 1
      <3>1. e = EStep(e1) /\ m = [envelope EXCEPT !.steps = j]
        BY <1>3, <2>2 DEF EnvelopeClock
      <3>2. /\ e1 \in Chip /\ e1.ayr = ay.ayr /\ e1.toneCount = ay.toneCount /\ e1.envx = ay.envx
            /\ e1.ay13 = ay.ay13 /\ e1.envv = ay.envv
        BY <1>1 DEF Chip
      <3> HIDE DEF e1, e, m, s, k
      <3>3. /\ e \in Chip /\ e.ayr = e1.ayr /\ e.toneCount = e1.toneCount
            /\ Ramp(s, j, e.envx, e.ay13, e.envv)
        BY <1>1, <1>2, <3>1, <3>2, EnvelopeSteps
      <3>4. j \in 0..48
        BY <1>2
      <3> HIDE DEF j
      <3>5. m \in Envelopes /\ m.steps = j /\ m.shape = s
        BY <1>1, <3>1, <3>4 DEF Envelopes, s
      <3> QED BY <3>2, <3>3, <3>5, ChipFields
    <2> QED BY <2>1, <2>2
  <1> HIDE DEF e, m
  <1>6. /\ n \in Chip /\ n.ayr = e.ayr /\ n.toneCount = e.toneCount /\ n.envx = e.envx /\ n.ay13 = e.ay13
        /\ n.envv = e.envv
    <2>1. e.noir \in 1..(HighTap - 1)
      BY <1>5, ChipFields
    <2>2. CASE e.noic + 1 < NoisePeriod
      <3>1. n = [e EXCEPT !.noic = e.noic + 1]
        BY <2>2 DEF NoiseClock
      <3>2. e.noic + 1 \in Nat
        BY <1>5
      <3> HIDE DEF n
      <3> QED BY <1>0, <1>5, <3>1, <3>2
    <2>3. CASE ~(e.noic + 1 < NoisePeriod)
      <3> DEFINE v == e.noir % 2
                 w == Tapped(e.noir) \div 2
      <3>1. n = [e EXCEPT !.noic = 0, !.noiv = v, !.noir = w]
        BY <2>3 DEF NoiseClock
      <3>2. w \in 1..(HighTap - 1)
        BY <2>1, NoiseLives
      <3>3. v \in 0..1 /\ 0 \in Nat
        BY <2>1, TapFacts
      <3> HIDE DEF n, v, w
      <3> QED BY <1>5, <3>1, <3>2, <3>3 DEF Chip
    <2> QED BY <2>2, <2>3
  <1> HIDE DEF n
  <1> DEFINE counts == [ch \in Channel |-> IF Toggles(ch) THEN 0 ELSE n.toneCount[ch] + 1]
             sides == [ch \in Channel |-> n.tons[ch] # Toggles(ch)]
  <1>7. d = [n EXCEPT !.toneCount = counts, !.tons = sides]
    BY DEF CStep
  <1>8. counts \in [Channel -> Nat] /\ sides \in [Channel -> BOOLEAN]
    <2>1. \A ch \in Channel : n.toneCount[ch] \in Nat
      BY <1>6, ChipFields
    <2>2. counts \in [Channel -> Nat]
      BY <2>1
    <2>3. sides \in [Channel -> BOOLEAN]
      BY Zenon
    <2> QED BY <2>2, <2>3
  <1> HIDE DEF counts, sides, d
  <1>9. /\ d \in Chip /\ d.ayr = ay.ayr /\ d.toneCount = counts /\ d.envx = e.envx /\ d.ay13 = e.ay13
        /\ d.envv = e.envv
    BY <1>5, <1>6, <1>7, <1>8, ZenonT(60) DEF Chip
  <1>10. \A ch \in Channel : TonePeriod(ch)' = TonePeriod(ch)
    BY <1>3, <1>9 DEF TonePeriod
  <1>11. ASSUME NEW ch \in Channel
         PROVE  tones'[ch] \in Tone /\ Sounds(tones'[ch], counts[ch], TonePeriod(ch))
    <2> DEFINE t == tones[ch]
               ticks == ay.toneCount[ch]
               period == TonePeriod(ch)
    <2>1. t \in Tone /\ ticks \in Nat /\ period \in Nat /\ Sounds(t, ticks, period)
      BY <1>1, <1>4, ChipFields
    <2>2. tones'[ch] = CASE ticks + 1 >= period -> [clocks |-> 0, same |-> TRUE,
                                             last |-> IF t.same THEN t.clocks + 1 ELSE -1]
                         [] ~(ticks + 1 >= period) -> [t EXCEPT !.clocks = IF t.same THEN @ + 1 ELSE @]
      BY DEF Clock8910, Toggles
    <2>3. counts[ch] = IF ticks + 1 >= period THEN 0 ELSE ticks + 1
      BY <1>5, <1>6 DEF counts, Toggles
    <2> HIDE DEF t, ticks, period
    <2> QED BY <2>1, <2>2, <2>3, ToneClock DEF period
  <1>12. tones' \in [Channel -> Tone]
    <2>1. tones' = [ch \in Channel |-> tones'[ch]]
      BY DEF Clock8910
    <2> QED BY <1>11, <2>1
  <1> QED BY <1>1, <1>3, <1>5, <1>9, <1>10, <1>11, <1>12 DEF SoundInv, m

LEMMA WriteSelectedKeeps ==
  ASSUME SoundInv, NEW v \in 0..255, WriteSelected(v)
  PROVE  SoundInv'
  <1> DEFINE r == ay.ayreg
             x == v % 16
             y == IF r = SHAPE THEN x ELSE Masked(r, v)
             regs == [ay.ayr EXCEPT ![r] = y]
             written == [ay EXCEPT !.ayr = regs]
             shaped == [written EXCEPT !.envx = 0, !.ay13 = Ay13(x)]
             asked == [shape |-> x, steps |-> 0]
  <1>1. /\ ay \in Chip /\ tune \in Tunes /\ envelope \in Envelopes /\ tones \in [Channel -> Tone]
        /\ Ramp(envelope.shape, envelope.steps, ay.envx, ay.ay13, ay.envv)
        /\ \A ch \in Channel : Sounds(tones[ch], ay.toneCount[ch], TonePeriod(ch))
    BY DEF SoundInv
  <1>2. r \in 0..15 /\ ay.ayr \in [0..15 -> 0..255]
    BY <1>1, ChipFields
  <1>3. x \in 0..15 /\ v % 32 \in 0..255
    OBVIOUS
  <1>4. y \in 0..255
    <2>1. v % 16 \in 0..255 /\ v % 32 \in 0..255
      BY <1>3
    <2> HIDE DEF r
    <2>0. r \in {1, 3, 5, SHAPE} \/ r \in {6, 8, 9, 10} \/ r \in {0, 2, 4, 7, 11, 12, 14, 15}
      BY <1>2 DEF SHAPE
    <2>2. Masked(r, v) \in 0..255
      BY <2>0, <2>1, Zenon DEF Masked
    <2> QED BY <2>1, <2>2, Zenon
  <1>5. /\ ay' = IF r = SHAPE THEN shaped ELSE written
        /\ envelope' = IF r = SHAPE THEN asked ELSE envelope
        /\ tune' = tune
        /\ tones' = [ch \in Channel |->
             IF r \in {2 * ch, 2 * ch + 1} THEN [clocks |-> 0, same |-> FALSE, last |-> -1] ELSE tones[ch]]
    <2>1. r = SHAPE => shaped = [ay EXCEPT !.ayr[SHAPE] = v % 16, !.envx = 0, !.ay13 = Ay13(v % 16)]
      OBVIOUS
    <2>2. r # SHAPE => written = [ay EXCEPT !.ayr[r] = Masked(r, v)]
      OBVIOUS
    <2> QED BY <2>1, <2>2, Zenon DEF WriteSelected
  <1> HIDE DEF y
  <1>6. regs \in [0..15 -> 0..255] /\ \A i \in 0..15 : i # r => regs[i] = ay.ayr[i]
    BY <1>2, <1>4
  <1> HIDE DEF regs
  <1>7. /\ written \in Chip /\ written.ayr = regs /\ written.toneCount = ay.toneCount
        /\ written.envx = ay.envx /\ written.ay13 = ay.ay13 /\ written.envv = ay.envv
    BY <1>1, <1>6 DEF Chip
  <1> HIDE DEF written
  <1>8. /\ shaped \in Chip /\ shaped.ayr = regs /\ shaped.toneCount = ay.toneCount
        /\ shaped.envx = 0 /\ shaped.ay13 = Ay13(x)
    <2>1. Ay13(x) \in Shape
      BY <1>3, Shapes
    <2>2. 0 \in 0..16
      OBVIOUS
    <2> QED BY <1>7, <2>1, <2>2 DEF Chip
  <1> HIDE DEF shaped
  <1>9. Ramp(x, 0, 0, Ay13(x), shaped.envv)
    BY DEF Ramp
  <1>10. asked \in Envelopes /\ asked.shape = x /\ asked.steps = 0
    BY <1>3 DEF Envelopes
  <1> HIDE DEF asked, x
  <1>11. /\ ay' \in Chip /\ envelope' \in Envelopes /\ ay'.ayr = regs /\ ay'.toneCount = ay.toneCount
         /\ Ramp(envelope'.shape, envelope'.steps, ay'.envx, ay'.ay13, ay'.envv)
    <2>1. CASE r = SHAPE
      BY <1>5, <1>8, <1>9, <1>10, <2>1
    <2>2. CASE r # SHAPE
      BY <1>1, <1>5, <1>7, <2>2
    <2> QED BY <2>1, <2>2
  <1>12. ASSUME NEW ch \in Channel
         PROVE  tones'[ch] \in Tone /\ Sounds(tones'[ch], ay.toneCount[ch], TonePeriod(ch)')
    <2> DEFINE fresh == [clocks |-> 0, same |-> FALSE, last |-> -1]
    <2>1. fresh \in Tone /\ ~fresh.same /\ fresh.last = -1
      BY DEF Tone
    <2>2. tones'[ch] = IF r \in {2 * ch, 2 * ch + 1} THEN fresh ELSE tones[ch]
      BY <1>5
    <2> HIDE DEF fresh
    <2>3. CASE r \in {2 * ch, 2 * ch + 1}
      BY <2>1, <2>2, <2>3 DEF Sounds
    <2>4. CASE r \notin {2 * ch, 2 * ch + 1}
      <3>1. 2 * ch \in 0..15 /\ 2 * ch + 1 \in 0..15 /\ 2 * ch # r /\ 2 * ch + 1 # r
        BY <2>4 DEF Channel
      <3>2. TonePeriod(ch)' = TonePeriod(ch)
        BY <1>6, <1>11, <3>1 DEF TonePeriod
      <3> QED BY <1>1, <2>2, <2>4, <3>2
    <2> QED BY <2>3, <2>4
  <1>13. tones' \in [Channel -> Tone]
    <2>1. tones' = [ch \in Channel |-> tones'[ch]]
      BY <1>5
    <2> QED BY <1>12, <2>1
  <1> QED BY <1>1, <1>5, <1>11, <1>12, <1>13 DEF SoundInv

LEMMA SelectKeeps ==
  ASSUME SoundInv, NEW r \in 0..15, Select(r)
  PROVE  SoundInv'
  <1>1. /\ ay \in Chip /\ tune \in Tunes /\ envelope \in Envelopes /\ tones \in [Channel -> Tone]
        /\ Ramp(envelope.shape, envelope.steps, ay.envx, ay.ay13, ay.envv)
        /\ \A ch \in Channel : Sounds(tones[ch], ay.toneCount[ch], TonePeriod(ch))
    BY DEF SoundInv
  <1>2. ay' = [ay EXCEPT !.ayreg = r] /\ tune' = tune /\ envelope' = envelope /\ tones' = tones
    BY DEF Select
  <1>3. /\ ay' \in Chip /\ ay'.ayr = ay.ayr /\ ay'.toneCount = ay.toneCount
        /\ ay'.envx = ay.envx /\ ay'.ay13 = ay.ay13 /\ ay'.envv = ay.envv
    BY <1>1, <1>2 DEF Chip
  <1>4. \A ch \in Channel : TonePeriod(ch)' = TonePeriod(ch)
    BY <1>3 DEF TonePeriod
  <1> QED BY <1>1, <1>2, <1>3, <1>4 DEF SoundInv

LEMMA SilentIsRight ==
  ay = Silent /\ envelope = Sawtooth /\ tones = Unheard /\ tune \in Tunes => SoundInv
  <1> SUFFICES ASSUME ay = Silent, envelope = Sawtooth, tones = Unheard, tune \in Tunes
               PROVE  SoundInv
    OBVIOUS
  <1>1. ay = [ayr |-> ay.ayr, toneCount |-> ay.toneCount, tons |-> ay.tons, envc |-> 0, envv |-> 0, envx |-> 0,
              ay13 |-> Ay13(8), noic |-> 0, noiv |-> 0, noir |-> 1, ayreg |-> 0]
    BY DEF Silent
  <1>2. /\ ay.ayr = [r \in 0..15 |-> 0] /\ ay.toneCount = [ch \in Channel |-> 0]
        /\ ay.tons = [ch \in Channel |-> FALSE]
    BY DEF Silent
  <1>3. /\ ay.ayr \in [0..15 -> 0..255] /\ ay.toneCount \in [Channel -> Nat]
        /\ ay.tons \in [Channel -> BOOLEAN]
    BY <1>2
  <1>4. Ay13(8) \in Shape /\ 8 \in 0..15
    BY Shapes, SMTT(30)
  <1>5. 1 \in 1..(HighTap - 1) /\ 0 \in 0..15 /\ 0 \in 0..16 /\ 0 \in Nat /\ 0 \in 0..1
    BY TapsApart
  <1>6. ay \in Chip
    <2> DEFINE regs == ay.ayr
               counts == ay.toneCount
               sides == ay.tons
               shape == Ay13(8)
    <2>1. /\ ay = [ayr |-> regs, toneCount |-> counts, tons |-> sides, envc |-> 0, envv |-> 0, envx |-> 0,
                   ay13 |-> shape, noic |-> 0, noiv |-> 0, noir |-> 1, ayreg |-> 0]
          /\ regs \in [0..15 -> 0..255] /\ counts \in [Channel -> Nat] /\ sides \in [Channel -> BOOLEAN]
          /\ shape \in Shape
      BY <1>1, <1>3, <1>4, Zenon
    <2> HIDE DEF regs, counts, sides, shape
    <2> QED BY <1>5, <2>1, ChipIs
  <1>7. envelope \in Envelopes /\ envelope.shape = 8 /\ envelope.steps = 0
    BY DEF Sawtooth, Envelopes
  <1>8. ay.envx = 0 /\ ay.ay13 = Ay13(8)
    BY DEF Silent
  <1>9. Ramp(8, 0, 0, Ay13(8), ay.envv)
    BY DEF Ramp
  <1>10. tones \in [Channel -> Tone] /\ \A ch \in Channel : tones[ch] = [clocks |-> 0, same |-> TRUE, last |-> -1]
    BY DEF Unheard, Tone
  <1>11. ASSUME NEW ch \in Channel PROVE Sounds(tones[ch], ay.toneCount[ch], TonePeriod(ch))
    <2>1. ay.toneCount[ch] = 0 /\ tones[ch].clocks = 0 /\ tones[ch].last = -1
      BY <1>2, <1>10
    <2>2. 2 * ch \in 0..15 /\ 2 * ch + 1 \in 0..15
      BY DEF Channel
    <2>3. TonePeriod(ch) = 0
      BY <1>2, <2>2 DEF TonePeriod
    <2> QED BY <2>1, <2>3 DEF Sounds, HalfOf
  <1> QED BY <1>6, <1>7, <1>8, <1>9, <1>10, <1>11 DEF SoundInv

LEMMA SilentNext ==
  (ay = Silent /\ envelope = Sawtooth /\ tones = Unheard /\ tune \in Tunes)' => SoundInv'
  BY SilentIsRight, PTL

LEMMA SoundStep == SoundInv /\ [SoundNext]_soundVars => SoundInv'
  <1> SUFFICES ASSUME SoundInv, [SoundNext]_soundVars PROVE SoundInv'
    OBVIOUS
  <1>1. tune \in Tunes /\ \A w \in tune : w[1] \in 0..15 /\ w[2] \in 0..255
    BY SoundAssumption DEF SoundInv
  <1>2. CASE Clock8910
    BY <1>2, Clock8910Keeps
  <1>3. CASE SoundReset
    <2>1. ay' = Silent /\ envelope' = Sawtooth /\ tones' = Unheard /\ tune' \in Tunes
      BY <1>1, <1>3 DEF SoundReset
    <2> QED BY <2>1, SilentNext
  <1>4. ASSUME NEW w \in tune, Select(w[1]) PROVE SoundInv'
    BY <1>1, <1>4, SelectKeeps
  <1>5. ASSUME NEW w \in tune, WriteSelected(w[2]) PROVE SoundInv'
    BY <1>1, <1>5, WriteSelectedKeeps
  <1>6. CASE UNCHANGED soundVars
    BY <1>6 DEF soundVars, SoundInv, TonePeriod
  <1> QED BY <1>2, <1>3, <1>4, <1>5, <1>6 DEF SoundNext

LEMMA SoundSays == SoundInv => SoundExact /\ SoundTypeOK
  <1> SUFFICES ASSUME SoundInv PROVE SoundExact /\ SoundTypeOK
    OBVIOUS
  <1>1. ay \in Chip
    BY DEF SoundInv
  <1>2. SoundTypeOK
    <2>1. /\ ay.ayr \in [0..15 -> 0..255] /\ ay.toneCount \in [Channel -> Nat] /\ ay.tons \in [Channel -> BOOLEAN]
          /\ ay.envv \in 0..15 /\ ay.envx \in 0..16 /\ ay.noiv \in 0..1 /\ ay.noir \in 1..(HighTap - 1)
          /\ ay.ayreg \in 0..15
      BY <1>1, ChipHasFacts, Zenon DEF ChipFacts
    <2>2. ay.noir \in 0..(HighTap - 1)
      <3>1. ay.noir \in 1..(HighTap - 1)
        BY <2>1
      <3> QED BY <3>1
    <2> QED BY <2>1, <2>2, Zenon DEF SoundTypeOK
  <1>3. envelope.steps > 0 => ay.envv = Level(envelope.shape, envelope.steps - 1)
    BY DEF SoundInv, Ramp
  <1>4. ay.noir # 0
    <2>1. ay.noir \in 1..(HighTap - 1)
      BY <1>1, ChipHasFacts, Zenon DEF ChipFacts
    <2> QED BY <2>1, TapsApart
  <1>5. \A ch \in Channel : tones[ch].last # -1 => tones[ch].last = HalfOf(TonePeriod(ch))
    BY DEF SoundInv, Sounds
  <1> QED BY <1>2, <1>3, <1>4, <1>5 DEF SoundExact, HalfOf

LEMMA SoundInitially == SoundInit => SoundInv
  BY SilentIsRight DEF SoundInit

SoundSpec == SoundInit /\ [][SoundNext]_soundVars

(* The envelope follows the shape it was given through all its wraps and   *)
(* turns, half a tone lasts its period, and the noise register never dies  *)
(* (EStep(), CStep(), Clock(), Write()).                                   *)
THEOREM SoundHeardExact == SoundSpec => []SoundExact
  BY SoundInitially, SoundStep, SoundSays, PTL DEF SoundSpec

-----------------------------------------------------------------------------
(* The trace log: from where in pattern and value on they agree. *)
Piece(pattern, value, ends, j) ==
  IF pattern[j] = STAR THEN ends[j - 1] <= ends[j]
  ELSE ends[j] = ends[j - 1] + 1 /\ value[ends[j]] = pattern[j]
Fits(pattern, value, ends, i, k) ==
  /\ ends[i] = k /\ ends[Len(pattern)] = Len(value)
  /\ \A j \in i + 1..Len(pattern) : Piece(pattern, value, ends, j)
RestFits(pattern, value, i, k) ==
  \E ends \in [0..Len(pattern) -> 0..Len(value)] : Fits(pattern, value, ends, i, k)

LEMMA MeansIsFit ==
  ASSUME NEW pattern, NEW value, Len(pattern) \in Nat
  PROVE  Means(pattern, value) <=> RestFits(pattern, value, 0, 0)
  BY DEF Means, RestFits, Fits, Piece

LEMMA FitClimbs ==
  ASSUME NEW pattern, NEW value, Len(pattern) \in Nat, Len(value) \in Nat,
         NEW ends \in [0..Len(pattern) -> 0..Len(value)], NEW i \in 0..Len(pattern), NEW k \in Nat,
         Fits(pattern, value, ends, i, k)
  PROVE  /\ \A j \in i..Len(pattern) : ends[j] >= k
         /\ \A j \in i..Len(pattern) :
              (\A l \in i + 1..j : pattern[l] # STAR) => ends[j] = k + (j - i)
  <1> DEFINE L == Len(pattern)
             Up(t) == /\ ends[i + t] >= k
                      /\ (\A l \in i + 1..i + t : pattern[l] # STAR) => ends[i + t] = k + t
             S == {t \in 0..L - i : Up(t)}
  <1>1. L \in Nat /\ L - i \in Nat /\ i \in Nat
    OBVIOUS
  <1>2. \A j \in 0..L : ends[j] \in Nat
    OBVIOUS
  <1>3. ends[i] = k /\ \A j \in i + 1..L : Piece(pattern, value, ends, j)
    BY DEF Fits
  <1> HIDE DEF L
  <1>4. 0 \in S
    BY <1>1, <1>3
  <1>5. ASSUME NEW t \in 0..(L - i) - 1, t \in S
        PROVE  t + 1 \in S
    <2>1. t \in Nat /\ t + 1 \in 0..L - i /\ i + t \in 0..L /\ i + (t + 1) \in i + 1..L /\ (i + (t + 1)) - 1 = i + t
          /\ i + (t + 1) \in 0..L
      BY <1>1
    <2>2. Up(t)
      BY <1>5
    <2>3. Piece(pattern, value, ends, i + (t + 1))
      BY <1>3, <2>1
    <2> DEFINE j == i + (t + 1)
    <2>4. ends[j] \in Nat /\ ends[i + t] \in Nat
      BY <1>2, <2>1
    <2>5. pattern[j] = STAR => ends[i + t] <= ends[j]
      BY <2>1, <2>3 DEF Piece
    <2>6. pattern[j] # STAR => ends[j] = ends[i + t] + 1
      BY <2>1, <2>3 DEF Piece
    <2>7. ends[j] >= k
      BY <2>2, <2>4, <2>5, <2>6
    <2>8. ASSUME \A l \in i + 1..j : pattern[l] # STAR
          PROVE  ends[j] = k + (t + 1)
      <3>1. pattern[j] # STAR /\ \A l \in i + 1..i + t : pattern[l] # STAR
        BY <1>1, <2>1, <2>8
      <3> QED BY <2>1, <2>2, <2>6, <3>1
    <2> QED BY <2>1, <2>7, <2>8
  <1> HIDE DEF S
  <1>6. \A t \in 0..L - i : t \in S
    BY <1>1, <1>4, <1>5, Induct
  <1>7. ASSUME NEW j \in i..L
        PROVE  /\ ends[j] >= k
               /\ (\A l \in i + 1..j : pattern[l] # STAR) => ends[j] = k + (j - i)
    <2>1. j - i \in 0..L - i /\ i + (j - i) = j
      BY <1>1
    <2>2. Up(j - i)
      BY <1>6, <2>1 DEF S
    <2> QED BY <2>1, <2>2
  <1> QED BY <1>7 DEF L

LEMMA FitAtCharacter ==
  ASSUME NEW pattern, NEW value, Len(pattern) \in Nat, Len(value) \in Nat,
         NEW i \in 1..Len(pattern), NEW k \in 0..Len(value), pattern[i] # STAR
  PROVE  RestFits(pattern, value, i - 1, k) <=>
           k < Len(value) /\ value[k + 1] = pattern[i] /\ RestFits(pattern, value, i, k + 1)
  <1>1. ASSUME RestFits(pattern, value, i - 1, k)
        PROVE  k < Len(value) /\ value[k + 1] = pattern[i] /\ RestFits(pattern, value, i, k + 1)
    <2>1. PICK ends \in [0..Len(pattern) -> 0..Len(value)] : Fits(pattern, value, ends, i - 1, k)
      BY <1>1 DEF RestFits
    <2>2. Piece(pattern, value, ends, i) /\ ends[i - 1] = k
      BY <2>1 DEF Fits
    <2>3. ends[i] = k + 1 /\ value[k + 1] = pattern[i] /\ ends[i] \in 0..Len(value)
      BY <2>2 DEF Piece
    <2>4. Fits(pattern, value, ends, i, k + 1)
      BY <2>1, <2>3 DEF Fits
    <2> QED BY <2>3, <2>4 DEF RestFits
  <1>2. ASSUME k < Len(value), value[k + 1] = pattern[i], RestFits(pattern, value, i, k + 1)
        PROVE  RestFits(pattern, value, i - 1, k)
    <2>1. PICK ends \in [0..Len(pattern) -> 0..Len(value)] : Fits(pattern, value, ends, i, k + 1)
      BY <1>2 DEF RestFits
    <2> DEFINE all == [ends EXCEPT ![i - 1] = k]
    <2>2. /\ all \in [0..Len(pattern) -> 0..Len(value)] /\ all[i - 1] = k
          /\ \A j \in i..Len(pattern) : all[j] = ends[j]
      OBVIOUS
    <2> HIDE DEF all
    <2>3. ends[i] = k + 1 /\ ends[Len(pattern)] = Len(value)
          /\ \A j \in i + 1..Len(pattern) : Piece(pattern, value, ends, j)
      BY <2>1 DEF Fits
    <2>4. Piece(pattern, value, all, i)
      BY <1>2, <2>2, <2>3 DEF Piece
    <2>5. ASSUME NEW j \in i + 1..Len(pattern) PROVE Piece(pattern, value, all, j)
      <3>1. all[j] = ends[j] /\ all[j - 1] = ends[j - 1]
        BY <2>2
      <3> QED BY <2>3, <3>1 DEF Piece
    <2>6. Fits(pattern, value, all, i - 1, k)
      <3>1. \A j \in (i - 1) + 1..Len(pattern) : j = i \/ j \in i + 1..Len(pattern)
        OBVIOUS
      <3> QED BY <2>2, <2>3, <2>4, <2>5, <3>1 DEF Fits
    <2> QED BY <2>2, <2>6 DEF RestFits
  <1> QED BY <1>1, <1>2

LEMMA FitAtStar ==
  ASSUME NEW pattern, NEW value, Len(pattern) \in Nat, Len(value) \in Nat,
         NEW i \in 1..Len(pattern), NEW k \in 0..Len(value), pattern[i] = STAR
  PROVE  RestFits(pattern, value, i - 1, k) <=>
           \E m \in k..Len(value) : RestFits(pattern, value, i, m)
  <1>1. ASSUME RestFits(pattern, value, i - 1, k)
        PROVE  \E m \in k..Len(value) : RestFits(pattern, value, i, m)
    <2>1. PICK ends \in [0..Len(pattern) -> 0..Len(value)] : Fits(pattern, value, ends, i - 1, k)
      BY <1>1 DEF RestFits
    <2>2. Piece(pattern, value, ends, i) /\ ends[i - 1] = k
      BY <2>1 DEF Fits
    <2>3. k <= ends[i] /\ ends[i] \in 0..Len(value)
      BY <2>2 DEF Piece
    <2>4. Fits(pattern, value, ends, i, ends[i])
      BY <2>1, <2>3 DEF Fits
    <2> QED BY <2>3, <2>4 DEF RestFits
  <1>2. ASSUME NEW m \in k..Len(value), RestFits(pattern, value, i, m)
        PROVE  RestFits(pattern, value, i - 1, k)
    <2>1. PICK ends \in [0..Len(pattern) -> 0..Len(value)] : Fits(pattern, value, ends, i, m)
      BY <1>2 DEF RestFits
    <2> DEFINE all == [ends EXCEPT ![i - 1] = k]
    <2>2. /\ all \in [0..Len(pattern) -> 0..Len(value)] /\ all[i - 1] = k
          /\ \A j \in i..Len(pattern) : all[j] = ends[j]
      OBVIOUS
    <2> HIDE DEF all
    <2>3. ends[i] = m /\ ends[Len(pattern)] = Len(value)
          /\ \A j \in i + 1..Len(pattern) : Piece(pattern, value, ends, j)
      BY <2>1 DEF Fits
    <2>4. Piece(pattern, value, all, i)
      BY <1>2, <2>2, <2>3 DEF Piece
    <2>5. ASSUME NEW j \in i + 1..Len(pattern) PROVE Piece(pattern, value, all, j)
      <3>1. all[j] = ends[j] /\ all[j - 1] = ends[j - 1]
        BY <2>2
      <3> QED BY <2>3, <3>1 DEF Piece
    <2>6. Fits(pattern, value, all, i - 1, k)
      <3>1. \A j \in (i - 1) + 1..Len(pattern) : j = i \/ j \in i + 1..Len(pattern)
        OBVIOUS
      <3> QED BY <2>2, <2>3, <2>4, <2>5, <3>1 DEF Fits
    <2> QED BY <2>2, <2>6 DEF RestFits
  <1> QED BY <1>1, <1>2

LEMMA FitAtEnd ==
  ASSUME NEW pattern, NEW value, Len(pattern) \in Nat, Len(value) \in Nat
  PROVE  /\ \A k : RestFits(pattern, value, Len(pattern), k) => k = Len(value)
         /\ \A i \in 0..Len(pattern) :
              RestFits(pattern, value, i, Len(value)) <=> \A j \in i + 1..Len(pattern) : pattern[j] = STAR
  <1> DEFINE L == Len(pattern)
             V == Len(value)
  <1>1. ASSUME NEW k, RestFits(pattern, value, L, k) PROVE k = V
    BY <1>1 DEF RestFits, Fits
  <1>2. ASSUME NEW i \in 0..L, \A j \in i + 1..L : pattern[j] = STAR
        PROVE  RestFits(pattern, value, i, V)
    <2> DEFINE all == [j \in 0..L |-> V]
    <2>1. all \in [0..L -> 0..V] /\ \A j \in 0..L : all[j] = V
      OBVIOUS
    <2> HIDE DEF all
    <2>2. \A j \in i + 1..L : j \in 0..L /\ j - 1 \in 0..L
      OBVIOUS
    <2>3. \A j \in i + 1..L : Piece(pattern, value, all, j)
      BY <1>2, <2>1, <2>2 DEF Piece
    <2>4. Fits(pattern, value, all, i, V)
      BY <2>1, <2>3 DEF Fits
    <2> QED BY <2>1, <2>4 DEF RestFits
  <1>3. ASSUME NEW i \in 0..L, RestFits(pattern, value, i, V), NEW j \in i + 1..L
        PROVE  pattern[j] = STAR
    <2>1. PICK ends \in [0..L -> 0..V] : Fits(pattern, value, ends, i, V)
      BY <1>3 DEF RestFits
    <2>2. \A l \in i..L : ends[l] >= V
      BY <2>1, FitClimbs
    <2>3. j - 1 \in i..L /\ j \in i..L /\ ends[j - 1] \in 0..V /\ ends[j] \in 0..V
      OBVIOUS
    <2>4. ends[j - 1] = V /\ ends[j] = V
      BY <2>2, <2>3
    <2>5. Piece(pattern, value, ends, j)
      BY <2>1 DEF Fits
    <2> QED BY <2>4, <2>5 DEF Piece
  <1> QED BY <1>1, <1>2, <1>3

(* What the search knows: the value means the pattern if the rest does, or *)
(* if the last star takes more; where it has gone back to, the star took   *)
(* the fewest that are left.                                               *)
Searches(pattern, value) ==
  [p : 1..Len(pattern) + 1, v : 1..Len(value) + 1, star : 0..Len(pattern), starV : 0..Len(value) + 1,
   failed : BOOLEAN]
StarTakesMore(pattern, value, g) ==
  g.star # 0 /\ \E m \in g.starV..Len(value) : RestFits(pattern, value, g.star, m)
SinceStar(pattern, g) ==
  IF g.star = 0 THEN g.starV = 0
  ELSE /\ g.star < g.p /\ g.starV \in 1..g.v /\ g.v - g.starV = g.p - 1 - g.star
       /\ \A j \in g.star + 1..g.p - 1 : pattern[j] # STAR
SearchRight(pattern, value, g) ==
  /\ g \in Searches(pattern, value) /\ SinceStar(pattern, g)
  /\ IF g.failed THEN ~RestFits(pattern, value, 0, 0)
     ELSE RestFits(pattern, value, 0, 0) <=>
            RestFits(pattern, value, g.p - 1, g.v - 1) \/ StarTakesMore(pattern, value, g)

LEMMA SearchFields ==
  ASSUME NEW pattern, NEW value, NEW g \in Searches(pattern, value)
  PROVE  /\ g.p \in 1..Len(pattern) + 1 /\ g.v \in 1..Len(value) + 1 /\ g.star \in 0..Len(pattern)
         /\ g.starV \in 0..Len(value) + 1 /\ g.failed \in BOOLEAN
  BY DEF Searches

(* Once another star is reached, or the end, nothing is lost with the last.*)
LEMMA LastStarTakesNoMore ==
  ASSUME NEW pattern, NEW value, Len(pattern) \in Nat, Len(value) \in Nat,
         NEW g, SearchRight(pattern, value, g), StarTakesMore(pattern, value, g)
  PROVE  \E ends \in [0..Len(pattern) -> 0..Len(value)] :
            /\ ends[Len(pattern)] = Len(value) /\ ends[g.p - 1] >= g.v
            /\ \A j \in g.p..Len(pattern) : Piece(pattern, value, ends, j)
  <1>1. /\ g.p \in 1..Len(pattern) + 1 /\ g.v \in 1..Len(value) + 1 /\ g.star \in 0..Len(pattern)
        /\ g.starV \in 0..Len(value) + 1
    BY SearchFields DEF SearchRight
  <1>2. /\ g.star # 0 /\ g.star < g.p /\ g.starV \in 1..g.v /\ g.v - g.starV = g.p - 1 - g.star
        /\ \A j \in g.star + 1..g.p - 1 : pattern[j] # STAR
    BY DEF SearchRight, SinceStar, StarTakesMore
  <1>3. PICK m \in g.starV..Len(value) : RestFits(pattern, value, g.star, m)
    BY DEF StarTakesMore
  <1>4. PICK ends \in [0..Len(pattern) -> 0..Len(value)] : Fits(pattern, value, ends, g.star, m)
    BY <1>3 DEF RestFits
  <1>5. m \in Nat /\ g.p - 1 \in g.star..Len(pattern)
    BY <1>1, <1>2, <1>3, SMTT(30)
  <1>6. ends[g.p - 1] = m + ((g.p - 1) - g.star)
    BY <1>2, <1>4, <1>5, FitClimbs
  <1>7. ends[g.p - 1] >= g.v
    BY <1>1, <1>2, <1>3, <1>5, <1>6, SMTT(30)
  <1>8. ends[Len(pattern)] = Len(value) /\ \A j \in g.p..Len(pattern) : Piece(pattern, value, ends, j)
    <2>1. \A j \in g.p..Len(pattern) : j \in g.star + 1..Len(pattern)
      BY <1>1, <1>2
    <2> QED BY <1>4, <2>1 DEF Fits
  <1> QED BY <1>7, <1>8

LEMMA Distributes ==
  ASSUME NEW i \in Int, NEW j \in Int, NEW k \in Int
  PROVE  (i + j) * k = i * k + j * k
  OBVIOUS

LEMMA BothMove ==
  ASSUME NEW i \in Int, NEW j \in Int, NEW k \in Int, NEW l \in Int, i - j = k - 1 - l
  PROVE  (i + 1) - j = (k + 1) - 1 - l
  OBVIOUS

AtCharacter(pattern, value, g) == g.p <= Len(pattern) /\ pattern[g.p] # STAR /\ pattern[g.p] = value[g.v]
AtStar(pattern, g) == g.p <= Len(pattern) /\ pattern[g.p] = STAR
AtMismatch(pattern, value, g) == g.p > Len(pattern) \/ pattern[g.p] \notin {STAR, value[g.v]}
Further(g) == [g EXCEPT !.p = g.p + 1, !.v = g.v + 1]
Starred(g) == [g EXCEPT !.p = g.p + 1, !.star = g.p, !.starV = g.v]
Backed(g) == [g EXCEPT !.p = g.star + 1, !.v = g.starV + 1, !.starV = g.starV + 1]
GivenUp(g) == [g EXCEPT !.failed = TRUE]

LEMMA SearchSteps ==
  ASSUME NEW pattern, NEW value, NEW g
  PROVE  LET matches == AtCharacter(pattern, value, g)
             star == AtStar(pattern, g)
             back == AtMismatch(pattern, value, g) /\ g.star # 0
             h == GlobStep(pattern, value, g)
         IN  /\ matches /\ ~star /\ ~back => h = Further(g)
             /\ ~matches /\ star /\ ~back => h = Starred(g)
             /\ ~matches /\ ~star /\ back => h = Backed(g)
             /\ ~matches /\ ~star /\ ~back => h = GivenUp(g)
  <1> DEFINE h == GlobStep(pattern, value, g)
             matches == AtCharacter(pattern, value, g)
             star == AtStar(pattern, g)
             back == AtMismatch(pattern, value, g) /\ g.star # 0
  <1>1. h = CASE matches -> Further(g) [] star -> Starred(g) [] back -> Backed(g) [] OTHER -> GivenUp(g)
    BY Zenon DEF GlobStep, AtCharacter, AtStar, AtMismatch, Further, Starred, Backed, GivenUp
  <1> HIDE DEF h, matches, star, back
  <1>2. /\ matches /\ ~star /\ ~back => h = Further(g)
        /\ ~matches /\ star /\ ~back => h = Starred(g)
        /\ ~matches /\ ~star /\ back => h = Backed(g)
        /\ ~matches /\ ~star /\ ~back => h = GivenUp(g)
    BY <1>1
  <1> QED BY <1>2, Zenon DEF h, matches, star, back

LEMMA SearchGoesOn ==
  ASSUME NEW pattern, NEW value, Len(pattern) \in Nat, Len(value) \in Nat,
         NEW g, SearchRight(pattern, value, g), ~g.failed, g.v <= Len(value)
  PROVE  LET h == GlobStep(pattern, value, g)
         IN  /\ SearchRight(pattern, value, h)
             /\ h.failed \/ h.starV * (Len(pattern) + 2) + h.p >= g.starV * (Len(pattern) + 2) + g.p + 1
  <1> DEFINE L == Len(pattern)
             V == Len(value)
             h == GlobStep(pattern, value, g)
             whole == RestFits(pattern, value, 0, 0)
             K == L + 2
             Farther(x) == x.starV * K + x.p >= g.starV * K + g.p + 1
  <1>0. L \in Nat /\ V \in Nat
    OBVIOUS
  <1>1. g \in Searches(pattern, value) /\ SinceStar(pattern, g)
        /\ (whole <=> RestFits(pattern, value, g.p - 1, g.v - 1) \/ StarTakesMore(pattern, value, g))
    BY DEF SearchRight
  <1>2. g.p \in 1..L + 1 /\ g.v \in 1..V /\ g.star \in 0..L /\ g.starV \in 0..V + 1 /\ g.failed = FALSE
    BY <1>0, <1>1, SearchFields
  <1>3. (g.v - 1) + 1 = g.v /\ g.v - 1 \in 0..V
    BY <1>0, <1>2
  <1>4. CASE g.p <= L /\ pattern[g.p] # STAR /\ pattern[g.p] = value[g.v]
    <2> DEFINE x == [g EXCEPT !.p = g.p + 1, !.v = g.v + 1]
    <2>1. h = x
      <3>1. AtCharacter(pattern, value, g) /\ ~AtStar(pattern, g) /\ ~AtMismatch(pattern, value, g)
        BY <1>0, <1>2, <1>4 DEF AtCharacter, AtStar, AtMismatch
      <3>2. h = Further(g)
        BY <3>1, SearchSteps, Zenon
      <3> QED BY <3>2, Zenon DEF Further
    <2>2. /\ x \in Searches(pattern, value) /\ x.p = g.p + 1 /\ x.v = g.v + 1 /\ x.star = g.star
          /\ x.starV = g.starV /\ x.failed = FALSE
      <3>1. g.p + 1 \in 1..L + 1 /\ g.v + 1 \in 1..V + 1
        BY <1>0, <1>2, <1>4
      <3> QED BY <1>1, <1>2, <3>1 DEF Searches
    <2> HIDE DEF x, h
    <2>3. SinceStar(pattern, x)
      <3>1. \A j \in g.star + 1..(g.p + 1) - 1 : j \in g.star + 1..g.p - 1 \/ j = g.p
        BY <1>2
      <3>2. CASE g.star = 0
        BY <1>1, <2>2, <3>2 DEF SinceStar
      <3>3. CASE g.star # 0
        <4>1. /\ g.star < g.p /\ g.starV \in 1..g.v /\ g.v - g.starV = g.p - 1 - g.star
              /\ \A j \in g.star + 1..g.p - 1 : pattern[j] # STAR
          BY <1>1, <3>3 DEF SinceStar
        <4>2. g.star < g.p + 1 /\ g.starV \in 1..g.v + 1 /\ (g.v + 1) - g.starV = (g.p + 1) - 1 - g.star
          <5>1. g.star < g.p /\ g.starV \in 1..g.v /\ g.v - g.starV = g.p - 1 - g.star
            BY <4>1
          <5>2. g.star \in Int /\ g.p \in Int /\ g.v \in Int
            BY <1>0, <1>2
          <5>3. g.starV \in Int /\ 1 <= g.starV /\ g.starV <= g.v
            BY <5>1, <5>2
          <5>4. g.star < g.p + 1
            BY <5>1, <5>2
          <5>5. g.starV \in 1..g.v + 1
            BY <5>2, <5>3
          <5>6. (g.v + 1) - g.starV = (g.p + 1) - 1 - g.star
            <6> DEFINE a == g.v
                       b == g.starV
                       c == g.p
                       d == g.star
            <6>1. a \in Int /\ b \in Int /\ c \in Int /\ d \in Int
              BY <5>2, <5>3
            <6>2. a - b = c - 1 - d
              BY <5>1
            <6> HIDE DEF a, b, c, d
            <6>3. (a + 1) - b = (c + 1) - 1 - d
              BY <6>1, <6>2, BothMove
            <6> QED BY <6>3 DEF a, b, c, d
          <5> QED BY <5>4, <5>5, <5>6
        <4>3. \A j \in g.star + 1..(g.p + 1) - 1 : pattern[j] # STAR
          BY <1>4, <3>1, <4>1
        <4> QED BY <2>2, <3>3, <4>2, <4>3 DEF SinceStar
      <3> QED BY <3>2, <3>3
    <2>4. RestFits(pattern, value, g.p - 1, g.v - 1) <=> RestFits(pattern, value, g.p, g.v)
      <3>1. g.p \in 1..L
        BY <1>2, <1>4
      <3> HIDE DEF L, V
      <3>2. RestFits(pattern, value, g.p - 1, g.v - 1) <=>
              g.v - 1 < V /\ value[(g.v - 1) + 1] = pattern[g.p] /\ RestFits(pattern, value, g.p, (g.v - 1) + 1)
        BY <1>0, <1>3, <1>4, <3>1, FitAtCharacter DEF L, V
      <3> QED BY <1>0, <1>2, <1>3, <1>4, <3>2
    <2>5. StarTakesMore(pattern, value, g) <=> StarTakesMore(pattern, value, x)
      BY <2>2 DEF StarTakesMore
    <2>6. x.p - 1 = g.p /\ x.v - 1 = g.v
      BY <1>2, <2>2
    <2>7. SearchRight(pattern, value, x)
      BY <1>1, <2>2, <2>3, <2>4, <2>5, <2>6 DEF SearchRight
    <2>8. Farther(x)
      <3>1. g.starV * K \in Int
        BY <1>0, <1>2
      <3> HIDE DEF K
      <3> QED BY <1>2, <2>2, <3>1
    <2> QED BY <2>1, <2>7, <2>8 DEF h
  <1>5. CASE g.p <= L /\ pattern[g.p] = STAR
    <2> DEFINE x == [g EXCEPT !.p = g.p + 1, !.star = g.p, !.starV = g.v]
    <2>1. h = x
      <3>1. ~AtCharacter(pattern, value, g) /\ AtStar(pattern, g) /\ ~AtMismatch(pattern, value, g)
        BY <1>0, <1>2, <1>5 DEF AtCharacter, AtStar, AtMismatch
      <3>2. h = Starred(g)
        BY <3>1, SearchSteps, Zenon
      <3> QED BY <3>2, Zenon DEF Starred
    <2>2. /\ x \in Searches(pattern, value) /\ x.p = g.p + 1 /\ x.v = g.v /\ x.star = g.p
          /\ x.starV = g.v /\ x.failed = FALSE
      <3>1. g.p + 1 \in 1..L + 1 /\ g.p \in 0..L /\ g.v \in 0..V + 1
        BY <1>0, <1>2, <1>5
      <3> QED BY <1>1, <1>2, <3>1 DEF Searches
    <2> HIDE DEF x, h
    <2>3. SinceStar(pattern, x)
      <3>1. g.p # 0 /\ g.p < g.p + 1 /\ g.v \in 1..g.v /\ g.v - g.v = (g.p + 1) - 1 - g.p
            /\ ~\E j : j \in g.p + 1..(g.p + 1) - 1
        BY <1>2
      <3> QED BY <2>2, <3>1 DEF SinceStar
    <2>4. RestFits(pattern, value, g.p - 1, g.v - 1) <=>
            \E m \in g.v - 1..V : RestFits(pattern, value, g.p, m)
      <3>1. g.p \in 1..L
        BY <1>2, <1>5
      <3> HIDE DEF L, V
      <3> QED BY <1>0, <1>3, <1>5, <3>1, FitAtStar DEF L, V
    <2>5. RestFits(pattern, value, g.p - 1, g.v - 1) <=>
            RestFits(pattern, value, g.p, g.v - 1) \/ \E m \in g.v..V : RestFits(pattern, value, g.p, m)
      <3>1. \A m \in g.v - 1..V : m = g.v - 1 \/ m \in g.v..V
        BY <1>2
      <3>2. g.v - 1 \in g.v - 1..V /\ \A m \in g.v..V : m \in g.v - 1..V
        BY <1>0, <1>2
      <3> QED BY <2>4, <3>1, <3>2
    <2>6. StarTakesMore(pattern, value, g) => \E m \in g.v..V : RestFits(pattern, value, g.p, m)
      <3> SUFFICES ASSUME StarTakesMore(pattern, value, g) PROVE \E m \in g.v..V : RestFits(pattern, value, g.p, m)
        OBVIOUS
      <3>1. PICK ends \in [0..L -> 0..V] :
              /\ ends[L] = V /\ ends[g.p - 1] >= g.v
              /\ \A j \in g.p..L : Piece(pattern, value, ends, j)
        BY LastStarTakesNoMore
      <3>2. g.p \in g.p..L /\ g.p \in 0..L /\ g.p - 1 \in 0..L
        BY <1>2, <1>5
      <3>3. ends[g.p - 1] <= ends[g.p] /\ ends[g.p] \in 0..V /\ ends[g.p - 1] \in 0..V
        BY <1>5, <3>1, <3>2 DEF Piece
      <3>4. ends[g.p] \in g.v..V
        BY <1>2, <3>1, <3>3
      <3>5. \A j \in g.p + 1..L : j \in g.p..L
        BY <1>2
      <3>6. Fits(pattern, value, ends, g.p, ends[g.p])
        BY <3>1, <3>5 DEF Fits
      <3> QED BY <3>4, <3>6 DEF RestFits
    <2>7. StarTakesMore(pattern, value, x) <=> \E m \in g.v..V : RestFits(pattern, value, g.p, m)
      BY <1>2, <2>2 DEF StarTakesMore
    <2>8. x.p - 1 = g.p /\ x.v - 1 = g.v - 1
      BY <1>2, <2>2
    <2>9. SearchRight(pattern, value, x)
      <3> HIDE DEF L, V
      <3> QED BY <1>1, <2>2, <2>3, <2>5, <2>6, <2>7, <2>8 DEF SearchRight
    <2>10. Farther(x)
      <3>1. g.starV <= g.v
        BY <1>1, <1>2 DEF SinceStar
      <3>2. g.v = g.starV + (g.v - g.starV) /\ g.v - g.starV \in Nat /\ g.starV \in Int
        BY <1>0, <1>2, <3>1
      <3>3. K \in Nat /\ (g.v - g.starV) * K \in Nat /\ g.starV * K \in Int
        BY <1>0, <1>2, <3>2, SMTT(30)
      <3>4. g.v * K = g.starV * K + (g.v - g.starV) * K
        <4> HIDE DEF K
        <4> DEFINE d == g.v - g.starV
        <4>1. d \in Int /\ g.v = g.starV + d /\ K \in Int
          BY <3>2, <3>3
        <4> HIDE DEF d
        <4>2. (g.starV + d) * K = g.starV * K + d * K
          BY <3>2, <4>1, Distributes
        <4> QED BY <4>1, <4>2 DEF d
      <3>5. g.p \in Int
        BY <1>0, <1>2
      <3> DEFINE a == g.v * K
                 b == g.starV * K
                 c == (g.v - g.starV) * K
      <3> HIDE DEF K, a, b, c
      <3>6. a = b + c /\ b \in Int /\ c \in Nat
        BY <3>3, <3>4 DEF a, b, c
      <3>7. a + (g.p + 1) >= b + g.p + 1
        BY <3>5, <3>6
      <3> QED BY <2>2, <3>7 DEF a, b
    <2> QED BY <2>1, <2>9, <2>10 DEF h
  <1>6. CASE ~(g.p <= L) \/ pattern[g.p] \notin {STAR, value[g.v]}
    <2>1. ~RestFits(pattern, value, g.p - 1, g.v - 1)
      <3>1. CASE ~(g.p <= L)
        <4>1. g.p - 1 = L /\ g.v - 1 # V
          BY <1>0, <1>2, <3>1
        <4> QED BY <4>1, FitAtEnd
      <3>2. CASE g.p <= L
        <4>1. g.p \in 1..L
          BY <1>2, <3>2
        <4>2. pattern[g.p] # STAR /\ value[g.v] # pattern[g.p]
          BY <1>6, <3>2
        <4> HIDE DEF L, V
        <4> QED BY <1>0, <1>3, <4>1, <4>2, FitAtCharacter DEF L, V
      <3> QED BY <3>1, <3>2
    <2>2. ~(g.p <= L /\ pattern[g.p] # STAR /\ pattern[g.p] = value[g.v]) /\ ~(g.p <= L /\ pattern[g.p] = STAR)
          /\ (g.p > L \/ pattern[g.p] \notin {STAR, value[g.v]})
      BY <1>0, <1>2, <1>6
    <2>3. CASE g.star # 0
      <3> DEFINE x == [g EXCEPT !.p = g.star + 1, !.v = g.starV + 1, !.starV = g.starV + 1]
      <3>1. h = x
        <4>1. ~AtCharacter(pattern, value, g) /\ ~AtStar(pattern, g) /\ AtMismatch(pattern, value, g) /\ g.star # 0
          BY <2>2, <2>3 DEF AtCharacter, AtStar, AtMismatch
        <4>2. h = Backed(g)
          BY <4>1, SearchSteps, Zenon
        <4> QED BY <4>2, Zenon DEF Backed
      <3>2. /\ g.star < g.p /\ g.starV \in 1..g.v /\ g.v - g.starV = g.p - 1 - g.star
        BY <1>1, <2>3 DEF SinceStar
      <3>3. /\ x \in Searches(pattern, value) /\ x.p = g.star + 1 /\ x.v = g.starV + 1 /\ x.star = g.star
            /\ x.starV = g.starV + 1 /\ x.failed = FALSE
        <4>1. g.star + 1 \in 1..L + 1
          <5> HIDE DEF L
          <5> QED BY <1>0, <1>2
        <4>2. g.starV <= V /\ g.starV \in Nat
          <5> HIDE DEF V
          <5> QED BY <1>0, <1>2, <3>2
        <4>3. g.starV + 1 \in 1..V + 1 /\ g.starV + 1 \in 0..V + 1
          <5> HIDE DEF V
          <5> QED BY <1>0, <4>2
        <4> QED BY <1>1, <1>2, <4>1, <4>3 DEF Searches
      <3> HIDE DEF x, h
      <3>4. SinceStar(pattern, x)
        <4>1. g.star < g.star + 1 /\ g.starV + 1 \in 1..g.starV + 1
              /\ (g.starV + 1) - (g.starV + 1) = (g.star + 1) - 1 - g.star
              /\ ~\E j : j \in g.star + 1..(g.star + 1) - 1
          BY <1>2
        <4> QED BY <2>3, <3>3, <4>1 DEF SinceStar
      <3>5. StarTakesMore(pattern, value, g) <=>
              RestFits(pattern, value, g.star, g.starV) \/ StarTakesMore(pattern, value, x)
        <4>1. \A m \in g.starV..V : m = g.starV \/ m \in g.starV + 1..V
          BY <1>2
        <4>2. g.starV \in g.starV..V /\ \A m \in g.starV + 1..V : m \in g.starV..V
          BY <1>0, <1>2, <3>2
        <4> QED BY <2>3, <3>3, <4>1, <4>2 DEF StarTakesMore
      <3>6. x.p - 1 = g.star /\ x.v - 1 = g.starV
        BY <1>2, <3>3
      <3>7. SearchRight(pattern, value, x)
        BY <1>1, <2>1, <3>3, <3>4, <3>5, <3>6 DEF SearchRight
      <3>8. Farther(x)
        <4>1. K \in Int /\ g.starV * K \in Int /\ (g.starV + 1) * K = g.starV * K + K
          BY <1>0, <1>2
        <4>2. K + g.star + 1 >= g.p + 1
          BY <1>0, <1>2
        <4>3. g.p \in Int /\ g.star \in Int
          BY <1>0, <1>2
        <4> DEFINE b == g.starV * K
                   c == (g.starV + 1) * K
        <4> HIDE DEF K, b, c
        <4>4. c = b + K /\ b \in Int /\ K \in Int
          BY <4>1 DEF b, c
        <4>5. c + (g.star + 1) >= b + g.p + 1
          BY <4>2, <4>3, <4>4, SMTT(30)
        <4> QED BY <3>3, <4>5 DEF b, c
      <3> QED BY <3>1, <3>7, <3>8 DEF h
    <2>4. CASE g.star = 0
      <3> DEFINE x == [g EXCEPT !.failed = TRUE]
      <3>1. h = x
        <4>1. ~AtCharacter(pattern, value, g) /\ ~AtStar(pattern, g) /\ ~(g.star # 0)
          BY <2>2, <2>4 DEF AtCharacter, AtStar, AtMismatch
        <4>2. h = GivenUp(g)
          BY <4>1, SearchSteps, Zenon
        <4> QED BY <4>2, Zenon DEF GivenUp
      <3>2. x \in Searches(pattern, value) /\ x.failed /\ x.star = g.star /\ x.starV = g.starV
        BY <1>1 DEF Searches
      <3> HIDE DEF x, h
      <3>3. ~whole
        BY <1>1, <2>1, <2>4 DEF StarTakesMore
      <3>4. SinceStar(pattern, x)
        BY <1>1, <2>4, <3>2 DEF SinceStar
      <3>5. SearchRight(pattern, value, x)
        BY <3>2, <3>3, <3>4 DEF SearchRight
      <3> QED BY <3>1, <3>2, <3>5 DEF h
    <2> QED BY <2>3, <2>4
  <1> QED BY <1>4, <1>5, <1>6

LEMMA SearchEnds ==
  ASSUME NEW pattern, NEW value, Len(pattern) \in Nat, Len(value) \in Nat,
         NEW g, SearchRight(pattern, value, g),
         g.failed \/ g.v > Len(value)
  PROVE  (~g.failed /\ \A i \in g.p..Len(pattern) : pattern[i] = STAR) <=> RestFits(pattern, value, 0, 0)
  <1> DEFINE L == Len(pattern)
             V == Len(value)
  <1>1. g.p \in 1..L + 1 /\ g.v \in 1..V + 1 /\ g.failed \in BOOLEAN
    BY SearchFields DEF SearchRight
  <1>2. CASE g.failed
    BY <1>2 DEF SearchRight
  <1>3. CASE ~g.failed
    <2>1. g.v - 1 = V /\ g.p - 1 \in 0..L /\ (g.p - 1) + 1 = g.p
      BY <1>1, <1>3
    <2>2. RestFits(pattern, value, g.p - 1, g.v - 1) <=> \A j \in g.p..L : pattern[j] = STAR
      BY <2>1, FitAtEnd
    <2>3. ~StarTakesMore(pattern, value, g)
      <3> SUFFICES ASSUME StarTakesMore(pattern, value, g) PROVE FALSE
        OBVIOUS
      <3>1. PICK ends \in [0..L -> 0..V] : ends[g.p - 1] >= g.v
        BY LastStarTakesNoMore
      <3>2. ends[g.p - 1] \in 0..V
        BY <2>1
      <3> QED BY <1>1, <2>1, <3>1, <3>2
    <2> QED BY <1>3, <2>2, <2>3 DEF SearchRight
  <1> QED BY <1>1, <1>2, <1>3

(* The search always ends within the steps the model gives it, and finds   *)
(* out whether the value means the pattern (GlobMatches()).                *)
LEMMA GlobIsMeaning ==
  ASSUME NEW pattern, NEW value, Len(pattern) \in Nat, Len(value) \in Nat
  PROVE  GlobMatches(pattern, value) <=> Means(pattern, value)
  <1> DEFINE L == Len(pattern)
             V == Len(value)
             K == L + 2
             n == K * (V + 2)
             first == [p |-> 1, v |-> 1, star |-> 0, starV |-> 0, failed |-> FALSE]
             Searched(g) == g.failed \/ g.v > V
             Round(g) == IF g.failed \/ g.v > V THEN g ELSE GlobStep(pattern, value, g)
             Eq(f) == f = [m \in 0..n |-> IF m = 0 THEN first
                                           ELSE IF f[m - 1].failed \/ f[m - 1].v > V THEN f[m - 1]
                                           ELSE GlobStep(pattern, value, f[m - 1])]
             after == CHOOSE f : Eq(f)
             T == {g \in Searches(pattern, value) : SearchRight(pattern, value, g)}
             round == [m \in 1..n |-> [g \in T |-> Round(g)]]
  <1>0. L \in Nat /\ V \in Nat /\ K \in Nat /\ K > L + 1 /\ n \in Nat
    <2>1. K \in Nat /\ V + 2 \in Nat
      OBVIOUS
    <2>2. K * (V + 2) \in Nat
      <3> HIDE DEF K
      <3> QED BY <2>1
    <2> QED BY <2>1, <2>2
  <1>1. GlobMatches(pattern, value) <=>
          ~after[n].failed /\ \A i \in after[n].p..L : pattern[i] = STAR
    BY Zenon DEF GlobMatches
  <1> HIDE DEF n
  <1>2. first \in T
    <2>1. first \in Searches(pattern, value)
      BY <1>0 DEF Searches
    <2>2. first.p - 1 = 0 /\ first.v - 1 = 0 /\ first.star = 0 /\ first.starV = 0 /\ first.failed = FALSE
      OBVIOUS
    <2> HIDE DEF first
    <2>3. SinceStar(pattern, first) /\ ~StarTakesMore(pattern, value, first)
      BY <2>2 DEF SinceStar, StarTakesMore
    <2> QED BY <2>1, <2>2, <2>3 DEF SearchRight
  <1>3. ASSUME NEW g \in T PROVE Round(g) \in T
    <2>1. SearchRight(pattern, value, g) /\ g \in Searches(pattern, value)
      OBVIOUS
    <2>2. CASE Searched(g)
      BY <2>1, <2>2
    <2>3. CASE ~Searched(g)
      <3>1. g.v \in 1..V + 1
        BY <2>1, SearchFields
      <3>2. ~g.failed /\ g.v <= V
        BY <1>0, <2>3, <3>1
      <3>3. SearchRight(pattern, value, GlobStep(pattern, value, g))
        BY <2>1, <3>2, SearchGoesOn
      <3>4. GlobStep(pattern, value, g) \in T
        BY <3>3 DEF SearchRight
      <3> QED BY <2>3, <3>4
    <2> QED BY <2>2, <2>3
  <1>4. Eq(after)
    <2>1. \A m \in 1..n, g \in T : round[m][g] = Round(g)
      <3> HIDE DEF Round, T
      <3> QED OBVIOUS
    <2>2. round \in [1..n -> [T -> T]]
      <3> HIDE DEF Round, T
      <3> QED BY <1>3
    <2> HIDE DEF first, T, round
    <2>3. Loops(n, T, first, round)
      BY <1>0, <1>2, <2>2, LoopExists
    <2>4. PICK f \in [0..n -> T] : f[0] = first /\ \A m \in 1..n : f[m] = round[m][f[m - 1]]
      BY <2>3, Zenon DEF Loops
    <2> DEFINE Value(m) == IF m = 0 THEN first
                           ELSE IF f[m - 1].failed \/ f[m - 1].v > V THEN f[m - 1]
                           ELSE GlobStep(pattern, value, f[m - 1])
    <2>5. ASSUME NEW m \in 0..n PROVE f[m] = Value(m)
      <3>1. CASE m = 0
        BY <2>4, <3>1
      <3>2. CASE m # 0
        <4>1. m \in 1..n /\ m - 1 \in 0..n
          BY <1>0, <3>2
        <4>2. f[m - 1] \in T
          BY <2>4, <4>1
        <4>3. f[m] = Round(f[m - 1])
          BY <2>1, <2>4, <4>1, <4>2
        <4> QED BY <3>2, <4>3
      <3> QED BY <3>1, <3>2
    <2>6. f = [m \in 0..n |-> Value(m)]
      <3> HIDE DEF Value
      <3> QED BY <2>4, <2>5
    <2>7. Eq(f)
      BY <2>6, Zenon
    <2> HIDE DEF Eq
    <2>8. Eq(CHOOSE g : Eq(g))
      BY <2>7, Zenon
    <2> QED BY <2>8, Zenon
  <1>5. after[0] = first /\ \A m \in 1..n : after[m] = Round(after[m - 1])
    <2> HIDE DEF after, first
    <2>1. \A m \in 0..n : after[m] = IF m = 0 THEN first
                                      ELSE IF after[m - 1].failed \/ after[m - 1].v > V THEN after[m - 1]
                                      ELSE GlobStep(pattern, value, after[m - 1])
      BY <1>4, Zenon
    <2>2. 0 \in 0..n /\ \A m \in 1..n : m \in 0..n /\ m # 0
      BY <1>0
    <2>3. after[0] = first
      BY <2>1, <2>2
    <2>4. ASSUME NEW m \in 1..n PROVE after[m] = Round(after[m - 1])
      <3>1. m \in 0..n /\ m # 0
        BY <2>2
      <3> QED BY <2>1, <3>1
    <2> QED BY <2>3, <2>4
  <1> DEFINE Far(g, m) == Searched(g) \/ g.starV * K + g.p >= m + 1
             S == {m \in 0..n : after[m] \in T /\ Far(after[m], m)}
  <1> HIDE DEF after
  <1>6. 0 \in S
    <2>1. first.starV * K + first.p >= 0 + 1
      BY <1>0
    <2> HIDE DEF first, T
    <2> QED BY <1>0, <1>2, <1>5, <2>1
  <1>7. ASSUME NEW m \in 0..n - 1, m \in S PROVE m + 1 \in S
    <2> DEFINE g == after[m]
               h == after[m + 1]
    <2>1. m + 1 \in 1..n /\ m + 1 \in 0..n /\ (m + 1) - 1 = m /\ m \in Nat
      BY <1>0
    <2>2. h = Round(g)
      BY <1>5, <2>1
    <2>3. g \in T /\ Far(g, m)
      BY <1>7
    <2> HIDE DEF g, h
    <2>4. h \in T
      BY <1>3, <2>2, <2>3
    <2>5. Far(h, m + 1)
      <3>1. CASE Searched(g)
        <4>1. h = g
          BY <2>2, <3>1
        <4> QED BY <3>1, <4>1
      <3>2. CASE ~Searched(g)
        <4>1. SearchRight(pattern, value, g) /\ g \in Searches(pattern, value)
          BY <2>3
        <4>2. g.v \in 1..V + 1
          BY <4>1, SearchFields
        <4>3. ~g.failed /\ g.v <= V /\ h = GlobStep(pattern, value, g)
          BY <1>0, <2>2, <3>2, <4>2
        <4>4. h.failed \/ h.starV * K + h.p >= g.starV * K + g.p + 1
          BY <4>1, <4>3, SearchGoesOn
        <4>5. g.starV * K + g.p >= m + 1
          BY <2>3, <3>2
        <4>6. g.starV * K \in Int /\ h.starV * K \in Int /\ g.p \in Int /\ h.p \in Int
          <5>1. h \in Searches(pattern, value)
            BY <2>4
          <5>2. g.starV \in Int /\ h.starV \in Int /\ g.p \in Int /\ h.p \in Int
            BY <1>0, <4>1, <5>1, SearchFields
          <5> HIDE DEF K
          <5> QED BY <1>0, <5>2
        <4>7. CASE h.failed
          BY <4>7
        <4>8. CASE h.starV * K + h.p >= g.starV * K + g.p + 1
          <5> DEFINE a == g.starV * K
                     b == h.starV * K
                     c == g.p
                     d == h.p
          <5>1. a \in Int /\ b \in Int /\ c \in Int /\ d \in Int
            BY <4>6
          <5>2. b + d >= a + c + 1 /\ a + c >= m + 1
            BY <4>5, <4>8
          <5> HIDE DEF a, b, c, d
          <5>3. b + d >= (m + 1) + 1
            BY <2>1, <5>1, <5>2
          <5> QED BY <5>3 DEF b, d
        <4> QED BY <4>4, <4>7, <4>8
      <3> QED BY <3>1, <3>2
    <2> QED BY <2>1, <2>4, <2>5 DEF h
  <1> HIDE DEF S
  <1>8. n \in S
    <2>1. \A m \in 0..n : m \in S
      BY <1>0, <1>6, <1>7, Induct
    <2> QED BY <1>0, <2>1
  <1>9. after[n] \in T /\ Far(after[n], n)
    BY <1>8 DEF S
  <1>10. Searched(after[n])
    <2> DEFINE g == after[n]
    <2> SUFFICES ASSUME ~Searched(g) PROVE FALSE
      OBVIOUS
    <2>1. g \in Searches(pattern, value) /\ SearchRight(pattern, value, g) /\ g.starV * K + g.p >= n + 1
      BY <1>9
    <2> HIDE DEF g
    <2>2. g.p \in 1..L + 1 /\ g.v \in 1..V + 1 /\ g.starV \in 0..V + 1
      BY <2>1, SearchFields
    <2>3. g.starV <= V
      BY <1>0, <2>1, <2>2 DEF SearchRight, SinceStar
    <2>4. n = g.starV * K + (V - g.starV + 2) * K
      <3> DEFINE a == g.starV
                 b == V - g.starV + 2
      <3>1. a \in Int /\ b \in Int /\ V + 2 = a + b
        BY <1>0, <2>2
      <3>2. n = K * (V + 2)
        BY DEF n
      <3> HIDE DEF a, b, K
      <3>3. (a + b) * K = a * K + b * K
        BY <1>0, <3>1, Distributes
      <3>4. K * (a + b) = (a + b) * K
        BY <1>0, <3>1
      <3>5. n = a * K + b * K
        BY <3>1, <3>2, <3>3, <3>4
      <3> QED BY <3>5 DEF a, b
    <2>5. (V - g.starV + 2) * K >= K
      <3> DEFINE b == V - g.starV + 1
      <3>1. b \in Nat /\ V - g.starV + 2 = b + 1
        BY <1>0, <2>2, <2>3
      <3> HIDE DEF b, K
      <3>2. b * K \in Nat /\ (b + 1) * K = b * K + 1 * K
        BY <1>0, <3>1, Distributes
      <3> QED BY <1>0, <3>1, <3>2
    <2> DEFINE a == g.starV * K
               b == (V - g.starV + 2) * K
    <2>6. a \in Int /\ b \in Int
      <3>1. g.starV \in Int /\ V - g.starV + 2 \in Int
        BY <1>0, <2>2
      <3> HIDE DEF K
      <3> QED BY <1>0, <3>1
    <2>7. n = a + b /\ b >= K /\ a + g.p >= n + 1
      BY <2>1, <2>4, <2>5
    <2>8. g.p \in Int /\ g.p <= L + 1
      BY <1>0, <2>2
    <2> HIDE DEF a, b, K
    <2> QED BY <1>0, <2>6, <2>7, <2>8
  <1>11. SearchRight(pattern, value, after[n])
    BY <1>9
  <1>12. (~after[n].failed /\ \A i \in after[n].p..L : pattern[i] = STAR) <=> RestFits(pattern, value, 0, 0)
    <2> DEFINE g == after[n]
    <2>1. SearchRight(pattern, value, g) /\ (g.failed \/ g.v > V)
      BY <1>10, <1>11
    <2> HIDE DEF g
    <2>2. (~g.failed /\ \A i \in g.p..L : pattern[i] = STAR) <=> RestFits(pattern, value, 0, 0)
      BY <2>1, SearchEnds
    <2> QED BY <2>2 DEF g
  <1> QED BY <1>1, <1>12, MeansIsFit

-----------------------------------------------------------------------------
(* The ring. *)
TraceTypes ==
  /\ log \in [Slot -> Code \cup [addr : {EMPTY_ITEM}, opcode : {0} \cup {i.opcode : i \in Code}]]
  /\ logIdx \in Slot /\ count \in 0..LogSize
  /\ filter.valid \in BOOLEAN /\ cursor.at \in -1..(LogSize - 1) /\ cursor.current \in BOOLEAN
  /\ cursor = [at |-> cursor.at, current |-> cursor.current, told |-> cursor.told]
  /\ livePc \in {0} \cup {i.addr : i \in Code} /\ isRunning \in BOOLEAN
RingHolds ==
  /\ history \in Seq(Code) /\ Len(history) = count
  /\ \A n \in 0..count - 1 : Item(n) = history[n + 1]
  /\ count < LogSize => Item(count).addr = EMPTY_ITEM
CursorHolds == cursor.current => cursor.told = history /\ cursor.at \in 0..count - 1
TraceInv == TraceTypes /\ RingHolds /\ CursorHolds /\ FilterShows

LEMMA LogFacts ==
  /\ LogSize \in Nat /\ LogSize > 1 /\ 0 \in Slot /\ Slot \subseteq Nat /\ EMPTY_ITEM = -1
  /\ CodeSpace \in Nat /\ \A i \in Code : i.addr \in Nat /\ i.addr # EMPTY_ITEM
  <1>1. LogSize \in Nat /\ LogSize > 1 /\ CodeSpace \in Nat /\ EMPTY_ITEM = -1
    BY TraceLogAssumption DEF EMPTY_ITEM
  <1>2. ASSUME NEW i \in Code PROVE i.addr \in Nat /\ i.addr # EMPTY_ITEM
    <2>1. i \in [addr : 0..(CodeSpace - 1), opcode : Opcode]
      BY TraceLogAssumption
    <2>2. i.addr \in 0..(CodeSpace - 1)
      BY <2>1
    <2> QED BY <1>1, <2>2
  <1> QED BY <1>1, <1>2 DEF Slot

LEMMA RoundTheRing ==
  ASSUME NEW i \in 0..(2 * LogSize - 1)
  PROVE  i % LogSize = IF i < LogSize THEN i ELSE i - LogSize
  <1>1. LogSize \in Nat /\ LogSize # 0 /\ i \in Int
    BY LogFacts
  <1>2. PICK q \in Int, r \in 0..LogSize - 1 : i = q * LogSize + r /\ i % LogSize = r
    BY <1>1, Remainder DEF Divided
  <1>3. q = 0 \/ q = 1 \/ q >= 2 \/ q <= -1
    OBVIOUS
  <1>4. CASE q = 0
    BY <1>1, <1>2, <1>4
  <1>5. CASE q = 1
    BY <1>1, <1>2, <1>5
  <1>6. CASE q >= 2
    <2>1. q - 2 \in Nat /\ q = (q - 2) + 2
      BY <1>6
    <2>2. (q - 2) * LogSize \in Nat /\ q * LogSize = (q - 2) * LogSize + 2 * LogSize
      BY <1>1, <2>1
    <2> QED BY <1>1, <1>2, <2>2
  <1>7. CASE q <= -1
    <2> DEFINE m == -1 - q
    <2>1. m \in Nat /\ q = -1 - m
      BY <1>7
    <2> HIDE DEF m
    <2>2. m * LogSize \in Nat /\ q * LogSize = -LogSize - m * LogSize
      BY <1>1, <2>1
    <2> QED BY <1>1, <1>2, <2>2
  <1> QED BY <1>3, <1>4, <1>5, <1>6, <1>7

(* The ring holds nothing when the newest item is empty.                   *)
LEMMA ItemsInSlots ==
  ASSUME logIdx \in Slot, NEW n \in Slot
  PROVE  /\ (logIdx + n) % LogSize \in Slot
         /\ (logIdx + n) % LogSize = IF logIdx + n < LogSize THEN logIdx + n ELSE logIdx + n - LogSize
  BY LogFacts, RoundTheRing DEF Slot

LEMMA ListedIsHistory ==
  ASSUME TraceTypes, RingHolds
  PROVE  Listed = history
  <1>1. count \in 0..LogSize /\ history \in Seq(Code) /\ Len(history) = count
        /\ (\A n \in 0..count - 1 : Item(n) = history[n + 1])
        /\ (count < LogSize => Item(count).addr = EMPTY_ITEM)
    BY DEF TraceTypes, RingHolds
  <1>2. \A n \in 0..count - 1 : Item(n).addr # EMPTY_ITEM
    <2> SUFFICES ASSUME NEW n \in 0..count - 1 PROVE Item(n).addr # EMPTY_ITEM
      OBVIOUS
    <2>1. n + 1 \in 1..Len(history)
      BY <1>1, LogFacts
    <2>2. history[n + 1] \in Code
      BY <1>1, <2>1
    <2> QED BY <1>1, <2>2, LogFacts
  <1>3. Filled = 0..count - 1
    <2>1. ASSUME NEW n \in Slot
          PROVE  (\A m \in 0..n : Item(m).addr # EMPTY_ITEM) <=> n < count
      <3>1. n \in Nat /\ count \in Nat /\ n < LogSize
        BY <1>1, LogFacts DEF Slot
      <3>2. CASE n < count
        <4>1. \A m \in 0..n : m \in 0..count - 1
          BY <3>1, <3>2
        <4> QED BY <1>2, <3>2, <4>1
      <3>3. CASE ~(n < count)
        <4>0. count <= n
          BY <3>1, <3>3
        <4>1. count \in 0..n /\ count < LogSize
          BY <1>1, <3>1, <4>0, LogFacts
        <4> QED BY <1>1, <3>3, <4>1
      <3> QED BY <3>2, <3>3
    <2>2. \A n \in Slot : n < count <=> n \in 0..count - 1
      BY <1>1, LogFacts DEF Slot
    <2>3. \A n \in 0..count - 1 : n \in Slot
      BY <1>1, LogFacts DEF Slot
    <2> QED BY <2>1, <2>2, <2>3 DEF Filled
  <1> DEFINE m == CHOOSE m \in Filled : \A k \in Filled : k <= m
             n == IF Filled = {} THEN 0 ELSE 1 + m
  <1>4. Listed = [i \in 1..n |-> Item(i - 1)]
    BY Zenon DEF Listed
  <1>5. n = count
    <2>1. CASE count = 0
      <3>1. 0..count - 1 = {}
        BY <2>1
      <3> QED BY <1>3, <2>1, <3>1
    <2>2. CASE count # 0
      <3>1. count - 1 \in Filled /\ \A k \in Filled : k <= count - 1
        BY <1>1, <1>3, <2>2
      <3>2. m \in Filled /\ \A k \in Filled : k <= m
        <4> HIDE DEF Filled
        <4> QED BY <3>1, Zenon
      <3> HIDE DEF m
      <3>3. m \in 0..count - 1 /\ count - 1 <= m
        BY <1>3, <3>1, <3>2
      <3>4. m = count - 1 /\ Filled # {}
        BY <1>1, <3>1, <3>3
      <3> QED BY <1>1, <3>4, LogFacts
    <2> QED BY <2>1, <2>2
  <1> HIDE DEF n
  <1>6. \A i \in 1..count : Item(i - 1) = history[i]
    <2> SUFFICES ASSUME NEW i \in 1..count PROVE Item(i - 1) = history[i]
      OBVIOUS
    <2>1. i - 1 \in 0..count - 1 /\ (i - 1) + 1 = i
      BY <1>1, LogFacts
    <2> QED BY <1>1, <2>1
  <1>7. history = [i \in 1..count |-> history[i]]
    BY <1>1
  <1>8. [i \in 1..count |-> Item(i - 1)] = [i \in 1..count |-> history[i]]
    BY <1>6
  <1> QED BY <1>4, <1>5, <1>7, <1>8, Zenon

LEMMA MatchingIsMeaning ==
  ASSUME NEW glob \in Globs
  PROVE  Matching(glob, history) =
           Selected(history, {n \in DOMAIN history : glob = <<>> \/ Means(glob, Printed(history[n].addr))})
  <1>1. Len(glob) \in Nat
    BY TraceLogAssumption
  <1>2. ASSUME NEW n PROVE GlobMatches(glob, Printed(history[n].addr)) <=> Means(glob, Printed(history[n].addr))
    <2> DEFINE value == Printed(history[n].addr)
    <2>1. Len(value) \in Nat
      <3>1. Digits \in Nat
        BY TraceLogAssumption
      <3>2. value = [i \in 1..Digits |-> value[i]]
        BY DEF Printed
      <3> HIDE DEF value
      <3>3. value \in Seq({value[i] : i \in 1..Digits})
        BY <3>1, <3>2
      <3> QED BY <3>3
    <2> HIDE DEF value
    <2>2. GlobMatches(glob, value) <=> Means(glob, value)
      BY <1>1, <2>1, GlobIsMeaning
    <2> QED BY <2>2 DEF value
  <1>3. {n \in DOMAIN history : glob = <<>> \/ GlobMatches(glob, Printed(history[n].addr))}
          = {n \in DOMAIN history : glob = <<>> \/ Means(glob, Printed(history[n].addr))}
    BY <1>2
  <1> QED BY <1>3, Zenon DEF Matching

LEMMA NewestFirst ==
  ASSUME NEW S, S \subseteq Nat, S # {}
  PROVE  First(S) \in S /\ \A n \in S : First(S) <= n
  <1>1. PICK x \in S : \A y \in S : ~ (<<y, x>> \in OpToRel(<, Nat))
    BY WFMin, NatLessThanWellFounded, Zenon
  <1>2. \A y \in S : ~ (y < x)
    BY <1>1, Zenon DEF OpToRel
  <1>3. \A y \in S : x <= y
    BY <1>2
  <1> QED BY <1>3, Zenon DEF First

(* What a search for the caller from an item on finds. *)
CallerAt(from, to, start, at) ==
  /\ at \in start..(count - 1) /\ Item(at).addr \notin from..(to - 1)
  /\ \A n \in start..(at - 1) : Item(n).addr \in from..(to - 1)
LEMMA CallerHow ==
  ASSUME count \in Nat, NEW from, NEW to, NEW start \in Nat
  PROVE  LET found == FindCaller(from, to, start)
         IN  \/ found = NoCursor /\ \A n \in start..(count - 1) : Item(n).addr \in from..(to - 1)
             \/ /\ CallerAt(from, to, start, found.at) /\ found.callerPc = Item(found.at).addr
                /\ found.entrancePc = IF found.at = 0 THEN livePc ELSE Item(found.at - 1).addr
  <1> DEFINE outside == {n \in start..(count - 1) : Item(n).addr \notin from..(to - 1)}
             at == First(outside)
             told == [at |-> at, callerPc |-> Item(at).addr,
                      entrancePc |-> IF at = 0 THEN livePc ELSE Item(at - 1).addr]
             found == FindCaller(from, to, start)
  <1>1. found = IF outside = {} THEN NoCursor ELSE told
    BY Zenon DEF FindCaller, First
  <1>2. CASE outside = {}
    <2>1. found = NoCursor
      BY <1>1, <1>2, Zenon
    <2>2. \A n \in start..(count - 1) : Item(n).addr \in from..(to - 1)
      BY <1>2
    <2> QED BY <2>1, <2>2
  <1>3. CASE outside # {}
    <2>1. found = told
      BY <1>1, <1>3, Zenon
    <2>2. outside \subseteq Nat
      OBVIOUS
    <2>3. at \in outside /\ \A n \in outside : at <= n
      <3> HIDE DEF outside
      <3> QED BY <1>3, <2>2, NewestFirst
    <2> HIDE DEF at, found
    <2>4. at \in start..(count - 1) /\ Item(at).addr \notin from..(to - 1)
      BY <2>3
    <2>5. \A n \in start..(at - 1) : Item(n).addr \in from..(to - 1)
      <3> SUFFICES ASSUME NEW n \in start..(at - 1), Item(n).addr \notin from..(to - 1) PROVE FALSE
        OBVIOUS
      <3>1. n \in start..(count - 1) /\ ~(at <= n)
        BY <2>4
      <3>2. n \in outside
        BY <3>1
      <3> QED BY <2>3, <3>1, <3>2
    <2>6. found.at = at /\ found.callerPc = Item(at).addr
          /\ found.entrancePc = IF at = 0 THEN livePc ELSE Item(at - 1).addr
      <3> DEFINE entrance == IF at = 0 THEN livePc ELSE Item(at - 1).addr
      <3>1. found = [at |-> at, callerPc |-> Item(at).addr, entrancePc |-> entrance]
        BY <2>1
      <3> HIDE DEF entrance
      <3>2. found.at = at /\ found.callerPc = Item(at).addr /\ found.entrancePc = entrance
        BY <3>1
      <3> QED BY <3>2 DEF entrance
    <2> QED BY <2>4, <2>5, <2>6 DEF CallerAt, found
  <1> QED BY <1>2, <1>3

LEMMA CallersAreFound ==
  ASSUME TraceTypes, RingHolds, CursorHolds
  PROVE  CallersFound
  <1>1. count \in 0..LogSize /\ history \in Seq(Code) /\ Len(history) = count
        /\ \A n \in 0..count - 1 : Item(n) = history[n + 1]
    BY DEF TraceTypes, RingHolds
  <1>2. count \in Nat
    BY <1>1, LogFacts
  <1>3. ASSUME NEW range \in Ranges, NEW start \in {0} \cup (IF cursor.current THEN {cursor.at + 1} ELSE {})
        PROVE  LET from == range[1]  to == range[2]
                   found == FindCaller(from, to, start)
                   pc(n) == IF n = 0 THEN livePc ELSE history[n].addr
               IN  IF found.at = -1
                   THEN \A n \in (start + 1)..Len(history) : history[n].addr \in from..(to - 1)
                   ELSE /\ found.callerPc = history[found.at + 1].addr /\ found.entrancePc = pc(found.at)
                        /\ found.callerPc \notin from..(to - 1)
                        /\ \A n \in start..(found.at - 1) : history[n + 1].addr \in from..(to - 1)
                        /\ CallerSuccessor(found.at) =
                             (found.callerPc + GetInstrLen(history[found.at + 1].opcode)) % CodeSpace
    <2> DEFINE from == range[1]
               to == range[2]
               found == FindCaller(from, to, start)
    <2>1. start \in Nat
      <3>1. cursor.current => cursor.at + 1 \in Nat
        BY <1>2 DEF CursorHolds
      <3> QED BY <3>1
    <2>2. \/ found = NoCursor /\ \A n \in start..(count - 1) : Item(n).addr \in from..(to - 1)
          \/ /\ CallerAt(from, to, start, found.at) /\ found.callerPc = Item(found.at).addr
             /\ found.entrancePc = IF found.at = 0 THEN livePc ELSE Item(found.at - 1).addr
      BY <1>2, <2>1, CallerHow, ZenonT(40)
    <2> HIDE DEF found, from, to
    <2>3. CASE found = NoCursor /\ \A n \in start..(count - 1) : Item(n).addr \in from..(to - 1)
      <3>1. found.at = -1
        BY <2>3 DEF NoCursor
      <3>2. \A n \in (start + 1)..Len(history) : history[n].addr \in from..(to - 1)
        <4> SUFFICES ASSUME NEW n \in (start + 1)..count PROVE history[n].addr \in from..(to - 1)
          BY <1>1
        <4>1. n - 1 \in start..(count - 1) /\ n - 1 \in 0..(count - 1) /\ (n - 1) + 1 = n
          BY <1>2, <2>1
        <4>2. Item(n - 1) = history[n]
          BY <1>1, <4>1
        <4> QED BY <2>3, <4>1, <4>2
      <3> QED BY <3>1, <3>2 DEF found, from, to
    <2>4. CASE /\ CallerAt(from, to, start, found.at) /\ found.callerPc = Item(found.at).addr
               /\ found.entrancePc = IF found.at = 0 THEN livePc ELSE Item(found.at - 1).addr
      <3> DEFINE at == found.at
      <3>1. at \in start..(count - 1) /\ Item(at).addr \notin from..(to - 1)
            /\ \A n \in start..(at - 1) : Item(n).addr \in from..(to - 1)
        BY <2>4 DEF CallerAt
      <3> HIDE DEF at
      <3>2. at \in 0..(count - 1) /\ at # -1
        BY <1>2, <2>1, <3>1
      <3>3. Item(at) = history[at + 1]
        BY <1>1, <3>2
      <3>4. at # 0 => Item(at - 1) = history[at]
        <4>1. at # 0 => at - 1 \in 0..(count - 1) /\ (at - 1) + 1 = at
          BY <1>2, <3>2
        <4> QED BY <1>1, <4>1
      <3>5. \A n \in start..(at - 1) : history[n + 1].addr \in from..(to - 1)
        <4> SUFFICES ASSUME NEW n \in start..(at - 1) PROVE history[n + 1].addr \in from..(to - 1)
          OBVIOUS
        <4>1. n \in 0..(count - 1)
          BY <1>2, <2>1, <3>2
        <4>2. Item(n) = history[n + 1]
          BY <1>1, <4>1
        <4> QED BY <3>1, <4>2
      <3>6. found.callerPc = history[at + 1].addr /\ found.callerPc \notin from..(to - 1)
        BY <2>4, <3>1, <3>3 DEF at
      <3>7. found.entrancePc = IF at = 0 THEN livePc ELSE history[at].addr
        BY <2>4, <3>4 DEF at
      <3>8. CallerSuccessor(at) = (found.callerPc + GetInstrLen(history[at + 1].opcode)) % CodeSpace
        BY <3>3, <3>6, Zenon DEF CallerSuccessor
      <3> QED BY <3>2, <3>5, <3>6, <3>7, <3>8, Zenon DEF at, found, from, to
    <2> QED BY <2>2, <2>3, <2>4
  <1>4. count = Len(history) /\ (cursor.current => cursor.told = history)
    BY <1>1 DEF CursorHolds
  <1> QED BY <1>3, <1>4, Zenon DEF CallersFound

-----------------------------------------------------------------------------
(* What the operations leave of the ring. *)
Records == Code \cup [addr : {EMPTY_ITEM}, opcode : {0} \cup {i.opcode : i \in Code}]

LEMMA CursorFields ==
  ASSUME TraceTypes, cursor' = [cursor EXCEPT !.current = FALSE, !.told = <<>>]
  PROVE  /\ cursor'.current = FALSE /\ cursor'.at \in -1..(LogSize - 1)
         /\ cursor' = [at |-> cursor'.at, current |-> cursor'.current, told |-> cursor'.told]
  BY DEF TraceTypes

LEMMA FilterForgotten ==
  ASSUME InvalidateFilter
  PROVE  filter'.valid = FALSE /\ FilterShows'
  BY DEF InvalidateFilter, NoFilter, FilterShows

LEMMA RingKept ==
  ASSUME RingHolds, UNCHANGED <<log, logIdx, count, history>>
  PROVE  RingHolds'
  BY DEF RingHolds, Item

LEMMA FilterKept ==
  ASSUME FilterShows, UNCHANGED <<filter, history>>
  PROVE  FilterShows'
  BY DEF FilterShows

(* A new item goes before the newest; the oldest of a full ring is lost.   *)
LEMMA ItemAdded ==
  ASSUME TraceTypes, RingHolds, NEW i \in Code,
         logIdx' = (logIdx + LogSize - 1) % LogSize,
         log' = [log EXCEPT ![(logIdx + LogSize - 1) % LogSize] = i],
         count' = IF count < LogSize THEN count + 1 ELSE LogSize,
         history' = SubSeq(<<i>> \o history, 1, IF Len(history) < LogSize THEN Len(history) + 1 ELSE LogSize)
  PROVE  /\ RingHolds' /\ logIdx' \in Slot /\ count' \in 0..LogSize
         /\ log' \in [Slot -> Records]
  <1> DEFINE to == (logIdx + LogSize - 1) % LogSize
  <1>1. /\ logIdx \in Slot /\ count \in 0..LogSize /\ log \in [Slot -> Records]
        /\ history \in Seq(Code) /\ Len(history) = count
        /\ \A n \in 0..count - 1 : Item(n) = history[n + 1]
        /\ count < LogSize => Item(count).addr = EMPTY_ITEM
    BY DEF TraceTypes, RingHolds, Records
  <1>2. LogSize \in Nat /\ LogSize > 1 /\ logIdx \in 0..LogSize - 1
    BY <1>1, LogFacts DEF Slot
  <1>3. to = (IF logIdx = 0 THEN LogSize - 1 ELSE logIdx - 1) /\ to \in Slot
    <2> DEFINE x == logIdx + LogSize - 1
    <2>1. x \in 0..(2 * LogSize - 1) /\ to = x % LogSize
      BY <1>2
    <2>2. x < LogSize <=> logIdx = 0
      BY <1>2
    <2>3. (logIdx = 0 => x = LogSize - 1) /\ x - LogSize = logIdx - 1
      BY <1>2
    <2> HIDE DEF to, x
    <2>4. to = IF x < LogSize THEN x ELSE x - LogSize
      BY <2>1, RoundTheRing
    <2>5. to = IF logIdx = 0 THEN LogSize - 1 ELSE logIdx - 1
      BY <2>2, <2>3, <2>4
    <2>6. to \in 0..LogSize - 1
      BY <1>2, <2>5
    <2> QED BY <2>5, <2>6 DEF Slot
  <1>4. logIdx' = to /\ log' = [log EXCEPT ![to] = i]
    OBVIOUS
  <1> HIDE DEF to
  <1>5. log' \in [Slot -> Records] /\ log'[to] = i /\ \A s \in Slot : s # to => log'[s] = log[s]
    BY <1>1, <1>3, <1>4 DEF Records
  <1>6. Item(0)' = i
    <2>1. (to + 0) % LogSize = to
      <3>1. to + 0 = to /\ to \in 0..(2 * LogSize - 1) /\ to < LogSize
        BY <1>2, <1>3 DEF Slot
      <3> QED BY <3>1, RoundTheRing
    <2> QED BY <1>4, <1>5, <2>1 DEF Item
  <1>7. ASSUME NEW n \in 1..LogSize - 1 PROVE Item(n)' = Item(n - 1)
    <2> DEFINE x == to + n
               y == logIdx + (n - 1)
               a == x % LogSize
               b == y % LogSize
    <2>0. to \in 0..LogSize - 1
      BY <1>3 DEF Slot
    <2>1. x \in 0..(2 * LogSize - 1) /\ y \in 0..(2 * LogSize - 1)
      BY <1>2, <2>0
    <2>2. a = IF x < LogSize THEN x ELSE x - LogSize
      <3> HIDE DEF x
      <3> QED BY <2>1, RoundTheRing
    <2>3. b = IF y < LogSize THEN y ELSE y - LogSize
      <3> HIDE DEF y
      <3> QED BY <2>1, RoundTheRing
    <2>4. Item(n)' = log'[a] /\ Item(n - 1) = log[b]
      BY <1>4 DEF Item
    <2> HIDE DEF a, b
    <2>5. a = b /\ a \in 0..LogSize - 1 /\ a # to
      BY <1>2, <1>3, <2>0, <2>2, <2>3
    <2>6. a \in Slot
      BY <2>5 DEF Slot
    <2> QED BY <1>5, <2>4, <2>5, <2>6
  <1>8. count \in Nat /\ count' \in 0..LogSize /\ count' <= count + 1 /\ count' >= 1
        /\ (count' < LogSize => count' = count + 1 /\ count < LogSize)
    <2>1. CASE count < LogSize
      BY <1>1, <1>2, <2>1
    <2>2. CASE ~(count < LogSize)
      BY <1>1, <1>2, <2>2
    <2> QED BY <2>1, <2>2
  <1> DEFINE grown == <<i>> \o history
  <1>9. history' \in Seq(Code) /\ Len(history') = count'
        /\ \A n \in 1..count' : history'[n] = IF n = 1 THEN i ELSE history[n - 1]
    <2>1. grown \in Seq(Code) /\ Len(grown) = count + 1
          /\ \A n \in 1..count + 1 : grown[n] = IF n = 1 THEN i ELSE history[n - 1]
      BY <1>1
    <2>2. history' = SubSeq(grown, 1, count')
      BY <1>1
    <2> HIDE DEF grown
    <2>3. \A n \in 1..count' : n \in 1..count + 1
      BY <1>8
    <2>4. count' <= Len(grown) /\ count' \in Nat
      BY <1>2, <1>8, <2>1
    <2>5. SubSeq(grown, 1, count') \in Seq(Code) /\ Len(SubSeq(grown, 1, count')) = count'
          /\ \A n \in 1..count' : SubSeq(grown, 1, count')[n] = grown[n]
      <3> DEFINE m == count'
      <3>1. m \in Nat /\ m <= Len(grown) /\ grown \in Seq(Code)
        BY <2>1, <2>4
      <3> HIDE DEF m
      <3>2. SubSeq(grown, 1, m) \in Seq(Code) /\ Len(SubSeq(grown, 1, m)) = m
            /\ \A n \in 1..m : SubSeq(grown, 1, m)[n] = grown[n]
        BY <3>1
      <3> QED BY <3>2 DEF m
    <2> QED BY <2>1, <2>2, <2>3, <2>5
  <1> DEFINE New(n) == log'[(logIdx' + n) % LogSize]
  <1>a. New(0) = i /\ \A n \in 1..LogSize - 1 : New(n) = Item(n - 1)
    BY <1>6, <1>7 DEF Item
  <1> HIDE DEF New
  <1>10. \A n \in 0..count' - 1 : New(n) = history'[n + 1]
    <2> SUFFICES ASSUME NEW n \in 0..count' - 1 PROVE New(n) = history'[n + 1]
      OBVIOUS
    <2>1. n \in Nat /\ n + 1 \in 1..count' /\ (n + 1) - 1 = n /\ n < LogSize
      BY <1>2, <1>8
    <2>2. CASE n = 0
      BY <1>a, <1>9, <2>1, <2>2
    <2>3. CASE n # 0
      <3>1. n \in 1..LogSize - 1 /\ n - 1 \in 0..count - 1 /\ (n - 1) + 1 = n /\ n + 1 # 1
        BY <1>2, <1>8, <2>1, <2>3
      <3>2. New(n) = history[n]
        BY <1>1, <1>a, <3>1
      <3>3. history'[n + 1] = history[(n + 1) - 1]
        BY <1>9, <2>1, <3>1
      <3> QED BY <2>1, <3>2, <3>3
    <2> QED BY <2>2, <2>3
  <1>11. count' < LogSize => New(count').addr = EMPTY_ITEM
    <2> SUFFICES ASSUME count' < LogSize PROVE New(count').addr = EMPTY_ITEM
      OBVIOUS
    <2> DEFINE m == count'
    <2>1. m \in 1..LogSize - 1 /\ m - 1 = count /\ count < LogSize
      BY <1>2, <1>8
    <2> HIDE DEF m
    <2>2. New(m) = Item(count)
      BY <1>a, <2>1
    <2>3. New(m).addr = EMPTY_ITEM
      BY <1>1, <2>1, <2>2
    <2> QED BY <2>3 DEF m
  <1>12. RingHolds'
    BY <1>9, <1>10, <1>11 DEF RingHolds, Item, New
  <1> QED BY <1>3, <1>4, <1>5, <1>8, <1>12

LEMMA NewestIsHead ==
  ASSUME TraceTypes, RingHolds, history # <<>>
  PROVE  log[logIdx] = Head(history)
  <1>1. /\ logIdx \in Slot /\ history \in Seq(Code) /\ Len(history) = count
        /\ \A n \in 0..count - 1 : Item(n) = history[n + 1]
    BY DEF TraceTypes, RingHolds
  <1>2. count \in Nat /\ count # 0
    BY <1>1
  <1>3. Item(0) = history[0 + 1] /\ 0 + 1 = 1
    BY <1>1, <1>2
  <1>4. (logIdx + 0) % LogSize = logIdx
    <2>1. 0 \in Slot /\ logIdx + 0 = logIdx /\ logIdx < LogSize
      BY <1>1, LogFacts DEF Slot
    <2> QED BY <1>1, <2>1, ItemsInSlots
  <1>5. Item(0) = log[logIdx]
    BY <1>4 DEF Item
  <1> QED BY <1>1, <1>2, <1>3, <1>5

LEMMA ExecutedKeeps ==
  ASSUME TraceInv, NEW i \in Code, NEW next \in Code, Executed(i, next.addr)
  PROVE  TraceInv'
  <1>1. TraceTypes /\ RingHolds /\ CursorHolds
    BY DEF TraceInv
  <1>2. FilterShows' /\ filter'.valid = FALSE /\ livePc' = next.addr /\ isRunning' = isRunning
    BY FilterForgotten DEF Executed, Update
  <1> DEFINE repeated == i.opcode = OPCODE_HLT /\ log[logIdx].opcode = OPCODE_HLT
             same == i.opcode = OPCODE_HLT /\ Head(history).opcode = OPCODE_HLT
  <1>3. repeated <=> same
    <2>1. i.opcode = OPCODE_HLT => history # <<>>
      BY DEF Executed
    <2> QED BY <1>1, <2>1, NewestIsHead
  <1>4. next.addr \in {j.addr : j \in Code} /\ isRunning \in BOOLEAN
    BY <1>1 DEF TraceTypes
  <1>5. CASE repeated
    <2>1. UNCHANGED <<log, logIdx, count, cursor, history>>
      BY <1>3, <1>5 DEF Executed, Update
    <2>2. RingHolds'
      BY <1>1, <2>1, RingKept
    <2>3. CursorHolds'
      BY <1>1, <2>1 DEF CursorHolds
    <2>4. TraceTypes'
      BY <1>1, <1>2, <1>4, <2>1 DEF TraceTypes
    <2> QED BY <1>2, <2>2, <2>3, <2>4 DEF TraceInv
  <1>6. CASE ~repeated
    <2>1. /\ logIdx' = (logIdx + LogSize - 1) % LogSize
          /\ log' = [log EXCEPT ![(logIdx + LogSize - 1) % LogSize] = i]
          /\ count' = IF count < LogSize THEN count + 1 ELSE LogSize
          /\ cursor' = [cursor EXCEPT !.current = FALSE, !.told = <<>>]
      <3> HIDE DEF same
      <3> QED BY <1>6, Zenon DEF Executed, Update
    <2>2. history' = SubSeq(<<i>> \o history, 1, IF Len(history) < LogSize THEN Len(history) + 1 ELSE LogSize)
      <3>1. ~same
        BY <1>3, <1>6
      <3>2. history' = IF same THEN history
                       ELSE SubSeq(<<i>> \o history, 1, IF Len(history) < LogSize THEN Len(history) + 1 ELSE LogSize)
        BY Zenon DEF Executed
      <3> HIDE DEF same
      <3> QED BY <3>1, <3>2
    <2>3. RingHolds' /\ logIdx' \in Slot /\ count' \in 0..LogSize /\ log' \in [Slot -> Records]
      BY <1>1, <2>1, <2>2, ItemAdded
    <2>4. cursor'.current = FALSE /\ cursor'.at \in -1..(LogSize - 1)
          /\ cursor' = [at |-> cursor'.at, current |-> cursor'.current, told |-> cursor'.told]
      BY <1>1, <2>1, CursorFields
    <2>5. TraceTypes'
      BY <1>2, <1>4, <2>3, <2>4 DEF TraceTypes, Records
    <2>6. CursorHolds'
      BY <2>4 DEF CursorHolds
    <2> QED BY <1>2, <2>3, <2>5, <2>6 DEF TraceInv
  <1> QED BY <1>5, <1>6

LEMMA ResetKeeps ==
  ASSUME TraceInv, TraceReset(0)
  PROVE  TraceInv'
  <1>1. TraceTypes
    BY DEF TraceInv
  <1>2. /\ count' = 0 /\ logIdx' = 0 /\ log' = [log EXCEPT ![0].addr = EMPTY_ITEM]
        /\ cursor' = [cursor EXCEPT !.current = FALSE, !.told = <<>>] /\ InvalidateFilter
        /\ history' = <<>> /\ livePc' = 0 /\ UNCHANGED isRunning
    BY DEF TraceReset
  <1>3. FilterShows' /\ filter'.valid = FALSE
    BY <1>2, FilterForgotten
  <1>4. cursor'.current = FALSE /\ cursor'.at \in -1..(LogSize - 1)
        /\ cursor' = [at |-> cursor'.at, current |-> cursor'.current, told |-> cursor'.told]
    BY <1>1, <1>2, CursorFields
  <1>5. log \in [Slot -> Records] /\ 0 \in Slot
    BY <1>1, LogFacts DEF TraceTypes, Records
  <1>6. [log[0] EXCEPT !.addr = EMPTY_ITEM] \in Records
    <2>1. log[0] \in Records
      BY <1>5
    <2>2. \A j \in Code : j \in [addr : 0..(CodeSpace - 1), opcode : Opcode]
      BY TraceLogAssumption
    <2>3. log[0].opcode \in {0} \cup {j.opcode : j \in Code}
          /\ [log[0] EXCEPT !.addr = EMPTY_ITEM] = [addr |-> EMPTY_ITEM, opcode |-> log[0].opcode]
      <3>1. CASE log[0] \in Code
        BY <2>2, <3>1
      <3>2. CASE log[0] \notin Code
        BY <2>1, <3>2 DEF Records
      <3> QED BY <3>1, <3>2
    <2> QED BY <2>3 DEF Records
  <1>7. log' \in [Slot -> Records] /\ log'[0].addr = EMPTY_ITEM
    <2> DEFINE cleared == [log[0] EXCEPT !.addr = EMPTY_ITEM]
    <2>1. log' = [log EXCEPT ![0] = cleared]
      BY <1>2
    <2>2. cleared.addr = EMPTY_ITEM
      <3>1. log[0] \in Records
        BY <1>5
      <3>2. \A j \in Code : j \in [addr : 0..(CodeSpace - 1), opcode : Opcode]
        BY TraceLogAssumption
      <3> QED BY <3>1, <3>2 DEF Records
    <2>3. cleared \in Records
      BY <1>6
    <2> HIDE DEF cleared
    <2> QED BY <1>5, <2>1, <2>2, <2>3
  <1>8. TraceTypes'
    <2>1. count' \in 0..LogSize /\ isRunning' \in BOOLEAN
      BY <1>1, <1>2, LogFacts DEF TraceTypes
    <2> QED BY <1>2, <1>3, <1>4, <1>5, <1>7, <2>1 DEF TraceTypes, Records
  <1>9. RingHolds'
    <2>1. history' \in Seq(Code) /\ Len(history') = count' /\ 0..count' - 1 = {}
      BY <1>2
    <2>2. log'[(logIdx' + count') % LogSize].addr = EMPTY_ITEM
      <3>1. (0 + 0) % LogSize = 0
        <4>1. 0 \in 0..(2 * LogSize - 1) /\ 0 < LogSize /\ 0 + 0 = 0
          BY LogFacts
        <4> QED BY <4>1, RoundTheRing
      <3>2. (logIdx' + count') % LogSize = 0
        BY <1>2, <3>1
      <3> QED BY <1>7, <3>2
    <2> QED BY <2>1, <2>2 DEF RingHolds, Item
  <1>10. CursorHolds'
    BY <1>4 DEF CursorHolds
  <1> QED BY <1>3, <1>8, <1>9, <1>10 DEF TraceInv

LEMMA CallerKeeps ==
  ASSUME TraceInv, NEW from, NEW to, NEW continued \in BOOLEAN, QueryCaller(from, to, continued)
  PROVE  TraceInv'
  <1>1. TraceTypes /\ RingHolds /\ CursorHolds /\ FilterShows
    BY DEF TraceInv
  <1>2. UNCHANGED <<log, logIdx, count, filter, livePc, isRunning, history>>
    BY DEF QueryCaller, Query
  <1>3. count \in 0..LogSize /\ count \in Nat
    BY <1>1, LogFacts DEF TraceTypes
  <1> DEFINE start == IF continued THEN cursor.at + 1 ELSE 0
             found == FindCaller(from, to, start)
  <1>4. start \in Nat
    <2>1. continued => cursor.current
      BY DEF QueryCaller
    <2>2. CASE continued
      BY <1>1, <1>3, <2>1, <2>2 DEF CursorHolds
    <2>3. CASE ~continued
      BY <2>3
    <2> QED BY <2>2, <2>3
  <1>5. cursor' = IF found.at = -1 THEN NoCursor ELSE [at |-> found.at, current |-> TRUE, told |-> history]
    BY Zenon DEF QueryCaller
  <1> HIDE DEF start
  <1>6. \/ found = NoCursor
        \/ CallerAt(from, to, start, found.at)
    BY <1>3, <1>4, CallerHow, Zenon
  <1> HIDE DEF found
  <1>7. /\ cursor'.at \in -1..(LogSize - 1) /\ cursor'.current \in BOOLEAN
        /\ cursor' = [at |-> cursor'.at, current |-> cursor'.current, told |-> cursor'.told]
        /\ (cursor'.current => cursor'.told = history /\ cursor'.at \in 0..count - 1)
    <2>1. CASE found.at = -1
      <3>1. cursor' = [at |-> -1, current |-> FALSE, told |-> <<>>]
        BY <1>5, <2>1 DEF NoCursor
      <3> QED BY <3>1, LogFacts
    <2>2. CASE found.at # -1
      <3> DEFINE at == found.at
      <3>1. cursor' = [at |-> at, current |-> TRUE, told |-> history]
        BY <1>5, <2>2
      <3>2. at \in start..(count - 1)
        <4>1. found # NoCursor
          BY <2>2 DEF NoCursor
        <4> QED BY <1>6, <4>1 DEF CallerAt
      <3> HIDE DEF at
      <3>3. at \in 0..count - 1 /\ at \in -1..(LogSize - 1)
        BY <1>3, <1>4, <3>2, LogFacts
      <3> QED BY <3>1, <3>3
    <2> QED BY <2>1, <2>2
  <1>8. TraceTypes'
    BY <1>1, <1>2, <1>7 DEF TraceTypes
  <1>9. CursorHolds'
    BY <1>2, <1>7 DEF CursorHolds
  <1>10. RingHolds' /\ FilterShows'
    BY <1>1, <1>2, RingKept, FilterKept
  <1> QED BY <1>8, <1>9, <1>10 DEF TraceInv

LEMMA FilterKeeps ==
  ASSUME TraceInv, NEW glob \in Globs, CreateFilter(glob)
  PROVE  TraceInv'
  <1>1. TraceTypes /\ RingHolds /\ CursorHolds
    BY DEF TraceInv
  <1>2. UNCHANGED <<log, logIdx, count, cursor, livePc, isRunning, history>>
        /\ filter' = [valid |-> TRUE, glob |-> glob, entries |-> Matching(glob, Listed)]
    BY DEF CreateFilter, Query
  <1>3. Matching(glob, Listed) =
          Selected(history, {n \in DOMAIN history : glob = <<>> \/ Means(glob, Printed(history[n].addr))})
    BY <1>1, ListedIsHistory, MatchingIsMeaning
  <1>4. filter'.valid = TRUE /\ filter'.glob = glob /\ filter'.entries = Matching(glob, Listed)
    <2> DEFINE entries == Matching(glob, Listed)
    <2> HIDE DEF entries
    <2>1. filter' = [valid |-> TRUE, glob |-> glob, entries |-> entries]
      BY <1>2 DEF entries
    <2>2. filter'.valid = TRUE /\ filter'.glob = glob /\ filter'.entries = entries
      BY <2>1
    <2> QED BY <2>2 DEF entries
  <1>5. FilterShows'
    <2>1. filter'.entries =
            Selected(history', {n \in DOMAIN history' : filter'.glob = <<>> \/ Means(filter'.glob, Printed(history'[n].addr))})
      BY <1>2, <1>3, <1>4, Zenon
    <2> QED BY <2>1, Zenon DEF FilterShows
  <1>6. TraceTypes'
    BY <1>1, <1>2, <1>4 DEF TraceTypes
  <1>7. RingHolds'
    BY <1>1, <1>2, RingKept
  <1>8. CursorHolds'
    BY <1>1, <1>2 DEF CursorHolds
  <1> QED BY <1>5, <1>6, <1>7, <1>8 DEF TraceInv

(* The trace log keeps its invariant, whatever else the step does.         *)
LEMMA TraceStep ==
  ASSUME TraceInv, [TraceNext]_traceVars
  PROVE  TraceInv'
  <1>0. TraceTypes /\ RingHolds /\ CursorHolds /\ FilterShows
    BY DEF TraceInv
  <1>1. CASE \E i \in Code, next \in Code : Executed(i, next.addr)
    BY <1>1, ExecutedKeeps
  <1>2. CASE TraceReset(0)
    BY <1>2, ResetKeeps
  <1>3. CASE RunMachine
    <2>1. RingHolds' /\ FilterShows'
      BY <1>0, <1>3, RingKept, FilterKept DEF RunMachine
    <2>2. TraceTypes' /\ CursorHolds'
      BY <1>0, <1>3 DEF RunMachine, TraceTypes, CursorHolds
    <2> QED BY <2>1, <2>2 DEF TraceInv
  <1>4. CASE StopMachine
    <2>1. RingHolds' /\ FilterShows' /\ filter'.valid = FALSE
      BY <1>0, <1>4, RingKept, FilterForgotten DEF StopMachine
    <2>2. TraceTypes' /\ CursorHolds'
      BY <1>0, <1>4, <2>1 DEF StopMachine, TraceTypes, CursorHolds
    <2> QED BY <2>1, <2>2 DEF TraceInv
  <1>5. CASE \E range \in Ranges, continued \in BOOLEAN : QueryCaller(range[1], range[2], continued)
    BY <1>5, CallerKeeps
  <1>6. CASE \E glob \in Globs : CreateFilter(glob)
    BY <1>6, FilterKeeps
  <1>7. CASE UNCHANGED traceVars
    <2>1. UNCHANGED <<log, logIdx, count, filter, cursor, livePc, isRunning, history>>
      BY <1>7 DEF traceVars
    <2>2. RingHolds' /\ FilterShows'
      BY <1>0, <2>1, RingKept, FilterKept
    <2>3. TraceTypes' /\ CursorHolds'
      BY <1>0, <2>1 DEF TraceTypes, CursorHolds
    <2> QED BY <2>2, <2>3 DEF TraceInv
  <1> QED BY <1>1, <1>2, <1>3, <1>4, <1>5, <1>6, <1>7 DEF TraceNext

LEMMA TraceInitially ==
  ASSUME TraceInit
  PROVE  TraceInv
  <1>1. /\ log = [n \in Slot |-> [addr |-> EMPTY_ITEM, opcode |-> 0]] /\ logIdx = 0 /\ count = 0
        /\ filter = NoFilter /\ cursor = NoCursor /\ livePc = 0 /\ isRunning = FALSE /\ history = <<>>
    BY DEF TraceInit
  <1>2. \A n \in Slot : log[n].addr = EMPTY_ITEM
    BY <1>1
  <1>3. RingHolds
    <2>1. history \in Seq(Code) /\ Len(history) = count /\ 0..count - 1 = {}
      BY <1>1
    <2>2. Item(count).addr = EMPTY_ITEM
      <3>1. logIdx \in Slot /\ count \in Slot
        BY <1>1, LogFacts
      <3>2. (logIdx + count) % LogSize \in Slot
        BY <3>1, ItemsInSlots
      <3> QED BY <1>2, <3>2 DEF Item
    <2> QED BY <2>1, <2>2 DEF RingHolds
  <1>4. cursor.at = -1 /\ cursor.current = FALSE /\ cursor = [at |-> cursor.at, current |-> cursor.current, told |-> cursor.told]
    BY <1>1 DEF NoCursor
  <1>5. filter.valid = FALSE
    BY <1>1 DEF NoFilter
  <1>6. TraceTypes
    <2>1. logIdx \in Slot /\ count \in 0..LogSize /\ cursor.at \in -1..(LogSize - 1)
      BY <1>1, <1>4, LogFacts
    <2>2. log \in [Slot -> Code \cup [addr : {EMPTY_ITEM}, opcode : {0} \cup {i.opcode : i \in Code}]]
      BY <1>1
    <2> QED BY <1>1, <1>4, <1>5, <2>1, <2>2 DEF TraceTypes
  <1> QED BY <1>3, <1>4, <1>5, <1>6 DEF TraceInv, CursorHolds, FilterShows

LEMMA TraceSays ==
  ASSUME TraceInv
  PROVE  TraceAnswers /\ TraceTypeOK
  <1>1. CallersFound /\ FilterShows
    BY CallersAreFound DEF TraceInv
  <1> QED BY <1>1 DEF TraceAnswers, TraceInv, TraceTypes, TraceTypeOK

TraceSpec == TraceInit /\ [][TraceNext]_traceVars

(* What a client is told of the trace log, the callers it finds and the    *)
(* windows of its filter, is about the instructions executed since the     *)
(* last reset, newest first, however often the ring has wrapped            *)
(* (UpdateLogBuffer(), FindCaller(), CreateFilter(), GlobMatches()).       *)
THEOREM TraceLogAnswers == TraceSpec => []TraceAnswers
  <1>1. TraceInit => TraceInv
    BY TraceInitially
  <1>2. TraceInv /\ [TraceNext]_traceVars => TraceInv'
    BY TraceStep
  <1>3. TraceInv => TraceAnswers
    BY TraceSays
  <1> QED BY <1>1, <1>2, <1>3, PTL DEF TraceSpec

-----------------------------------------------------------------------------
(* The machine: whichever part moves, the invariants of all hold, and the  *)
(* others' steps are stutters of each part.                                *)
EachMoves ==
  /\ [CpuNext]_cpuVars /\ [MemoryNext]_memVars /\ [PortsNext]_portVars /\ [DisplayNext]_displayVars
  /\ [TimerNext]_timerVars /\ [SoundNext]_soundVars /\ [FdcNext]_fdcVars
  /\ [ScriptsNext]_scriptVars /\ [PerfNext]_perfVars /\ [TraceNext]_traceVars

LEMMA PartsMove == [MachineNext]_machineVars => EachMoves
  <1> SUFFICES ASSUME [MachineNext]_machineVars PROVE EachMoves
    OBVIOUS
  <1> USE DEF Board, Picturing, Sounding, Storing, Debugging, EachMoves
  <1>1. CASE UNCHANGED machineVars
    BY <1>1, Zenon DEF machineVars
  <1>2. CASE MachineNext
    BY <1>2, Zenon DEF MachineNext
  <1> QED BY <1>1, <1>2

MachineInv ==
  /\ MemoryInv /\ PortsInv /\ DisplayInv /\ TimerInv /\ SoundInv /\ FdcInv
  /\ ScriptsInv /\ PerfInv /\ TraceInv

LEMMA MachineStarts == MachineInit => MachineInv
  BY MemoryInitially, PortsInitially, DisplayInitially, TimerInitially, SoundInitially,
     FdcInitially, ScriptsInitially, PerfInitially, TraceInitially
     DEF MachineInit, AtRest, MachineInv

LEMMA MachineStep == MachineInv /\ EachMoves => MachineInv'
  <1> SUFFICES ASSUME MachineInv, EachMoves PROVE MachineInv'
    OBVIOUS
  <1>1. MemoryInv' /\ PortsInv' /\ DisplayInv' /\ TimerInv'
    BY MemoryStep, PortsStep, DisplayStep, TimerStep DEF MachineInv, EachMoves
  <1>2. SoundInv' /\ FdcInv' /\ ScriptsInv' /\ PerfInv' /\ TraceInv'
    BY SoundStep, FdcStep, ScriptsStep, PerfStep, TraceStep DEF MachineInv, EachMoves
  <1> QED BY <1>1, <1>2 DEF MachineInv

(* The processor's steps keep its invariant for programs without the       *)
(* opcodes whose routines do not fit their tables (Odd).                   *)
LEMMA ProcessorKeeps ==
  ASSUME Program \cap Odd = {}
  PROVE  MachineSpec => []CpuInv
  <1>1. MachineInit => CpuInv
    BY CpuStarted DEF MachineInit, AtRest
  <1>2. CpuInv /\ [MachineNext]_machineVars => CpuInv'
    BY PartsMove, CpuSteps DEF EachMoves
  <1> QED BY <1>1, <1>2, PTL DEF MachineSpec

LEMMA MachineKeeps == MachineSpec => []MachineInv
  BY MachineStarts, MachineStep, PartsMove, PTL DEF MachineSpec

(* Every part's state keeps its shape in the whole machine, for programs   *)
(* without those opcodes (the members of CpuI8080::State, Memory, IO,      *)
(* Keyboard, Display, TimerI8253, SoundAY8910, Fdc1793, Scripts, DebugData *)
(* and TraceLog).                                                          *)
THEOREM MachineTypesCorrect ==
  ASSUME Program \cap Odd = {}
  PROVE  MachineSpec => []TypeOK
  <1>1. ASSUME MachineInv, CpuInv PROVE TypeOK
    <2>1. CpuTypeOK
      BY <1>1, Typed
    <2>2. MemTypeOK /\ PortsTypeOK /\ DisplayTypeOK
      BY <1>1, MemoryTyped, PortsTyped, DisplayTyped DEF MachineInv
    <2>3. TimerTypeOK /\ SoundTypeOK /\ FdcTypeOK
      BY <1>1, TimerSays, SoundSays, FdcTyped DEF MachineInv
    <2>4. ScriptsTypeOK /\ PerfTypeOK /\ TraceTypeOK
      BY <1>1, ScriptsAreTyped, PerfsAreTyped, TraceSays DEF MachineInv
    <2> QED BY <2>1, <2>2, <2>3, <2>4 DEF TypeOK
  <1> QED BY <1>1, MachineKeeps, ProcessorKeeps, PTL

(* A program that reads the ports finds what its latches and the keys held *)
(* say, as the 8255's control word has set the ports (PortInHandling(),    *)
(* PortOutHandling(), Keyboard::Read()).                                   *)
THEOREM MachinePorts == MachineSpec => []PortsKept
  <1>1. MachineInv => PortsKept
    BY PortsSays DEF MachineInv, PortsKept
  <1> QED BY <1>1, MachineKeeps, PTL

(* Whatever part of the frame is drawn, an OUT is over when the next       *)
(* machine cycle has been, and its colour went to the palette entry of the *)
(* pixel drawn at its commit time (PortOut(), TryToCommit()).              *)
THEOREM MachineCommits == MachineSpec => OutTakesEffect
  <1>1. MachineInv /\ [MachineNext]_machineVars => [OutIsOver]_displayVars
    BY PartsMove, DisplayEnds DEF MachineInv, EachMoves
  <1> QED BY <1>1, MachineKeeps, PTL DEF MachineSpec, OutTakesEffect

(* A machine cycle draws the 16 pixels of its place, each from the border  *)
(* or from the planes as the latched scroll moves them, and the interrupt, *)
(* the frame count and the scroll latch come at their pixels; a frame      *)
(* drawn at once is the same picture (Rasterize(), FillBorder(),           *)
(* FillActiveArea256(), FillActiveArea512(), FrameBuffUpdate()).           *)
THEOREM MachineDraws == MachineSpec => FrameExact
  <1>1. MachineInv /\ [MachineNext]_machineVars => [FrameDrawn]_displayVars
    BY PartsMove, DisplayDraws DEF MachineInv, EachMoves
  <1> QED BY <1>1, MachineKeeps, PTL DEF MachineSpec, FrameExact

(* The processor beside the other parts does what the instruction set      *)
(* tells of each instruction (ExecuteMachineCycle(), Decode()).            *)
THEOREM MachineExecutes ==
  ASSUME Program \cap Odd = {}
  PROVE  MachineSpec => ImplementsIsa
  <1>1. MachineInit => CpuInit
    BY DEF MachineInit, AtRest
  <1>2. [MachineNext]_machineVars => [CpuNext]_cpuVars
    BY PartsMove DEF EachMoves
  <1> QED BY <1>1, <1>2, CpuIsIsa, PTL DEF MachineSpec

(* Whatever else the machine does, the counters and the chip sound as they *)
(* were set (CounterUnit::Clock(), Latch(), EStep(), CStep()).             *)
THEOREM MachineSounds == MachineSpec => []SoundKept
  <1>1. MachineInv => SoundKept
    BY TimerSays, SoundSays DEF MachineInv, SoundKept
  <1> QED BY <1>1, MachineKeeps, PTL

(* Clients of scripts and of code performance are told what is so, in the  *)
(* whole machine (m_updates, GetOverlayUpdatesJson(), CheckPerf(), Edit()).*)
THEOREM MachineTells == MachineSpec => []ClientTold
  <1>1. MachineInv => ClientTold
    BY DEF MachineInv, ScriptsInv, PerfInv, ClientTold
  <1> QED BY <1>1, MachineKeeps, PTL

(* Whatever else the machine does and whichever drive is selected in a     *)
(* transfer, its next byte is the next of the sectors it was asked for, a  *)
(* busy controller ends, and what was written is marked for saving, but on *)
(* a disk no command has marked since the host saved it (the FDC's         *)
(* ExecuteCommand(), Read(), Write() and ResetUpdate()).                   *)
THEOREM MachineStores == MachineSpec => []TransfersExact
  <1>1. MachineInv => TransfersExact
    BY FdcExact DEF MachineInv
  <1> QED BY <1>1, MachineKeeps, PTL

(* Whatever else the machine does, clients are told the callers and the    *)
(* matches that are in the trace log (FindCaller(), CreateFilter()).       *)
THEOREM MachineTraces == MachineSpec => []TraceAnswers
  <1>1. MachineInv => TraceAnswers
    BY TraceSays DEF MachineInv
  <1> QED BY <1>1, MachineKeeps, PTL
=============================================================================
