----------------------------- MODULE MatchProofs -----------------------------
(***************************************************************************)
(* What Match promises, for any number of players, any scores, windows     *)
(* and batches, and any number of calls and failing commands: take is a    *)
(* lock, and without failures nobody is lost and nobody loses seniority.   *)
(***************************************************************************)
EXTENDS Match, TLAPS, FiniteSetTheorems, SequenceTheorems, WellFoundedInduction

-----------------------------------------------------------------------------
(***************************************************************************)
(* The inductive invariant.                                                *)
(***************************************************************************)
\* A sorted set: finitely many members, each with a score that V allows it.
ZSet(z, V) ==
    /\ DOMAIN z \subseteq Player /\ IsFiniteSet(DOMAIN z)
    /\ z = [p \in DOMAIN z |-> z[p]]
    /\ \A p \in DOMAIN z : z[p] \in V[p]

Stamps == [p \in Player |-> Ages]

Entry == [id : Player, waited : Ages, age : Ages]

\* The matcher holds the score of a, the opponent b, or both.
Chosen == {"takeA", "takeA2", "takeB", "takeB2", "restore", "restore2"}
Holding == {"takeA2", "takeB", "takeB2", "restore", "restore2"}

\* The batch has the score that the queue had, and for every member an age that
\* the member's own time stamp, should it be newer, has not reached.
PassInv ==
    /\ pc \in Chosen \cup {"range"} => aScore \in Scores[a]
    /\ pc \in Chosen => b \in Player
    /\ \A k \in DOMAIN zs : zs[k].id \in DOMAIN time => time[zs[k].id] <= zs[k].age
    /\ \A j, k \in DOMAIN zs : zs[j].id = zs[k].id => zs[j].age = zs[k].age

Sets ==
    /\ ZSet(rating, Scores) /\ ZSet(time, Stamps)
    /\ credit \in [Player -> Int] /\ faults \in Nat

MatchIInv == MatchInv /\ NobodyLost /\ PassInv /\ Sets

-----------------------------------------------------------------------------
(***************************************************************************)
(* Sorted sets.                                                            *)
(***************************************************************************)
LEMMA ZAddKeeps ==
    ASSUME NEW V, NEW z, ZSet(z, V), NEW p \in Player, NEW s \in V[p]
    PROVE  /\ ZSet(ZAdd(z, p, s), V) /\ DOMAIN ZAdd(z, p, s) = DOMAIN z \cup {p}
           /\ \A q \in DOMAIN z \cup {p} :
                 ZAdd(z, p, s)[q] = IF q = p THEN s ELSE z[q]
<1>1. IsFiniteSet(DOMAIN z \cup {p})
  BY FS_AddElement DEF ZSet
<1> QED
  BY <1>1 DEF ZSet, ZAdd

LEMMA ZRemKeeps ==
    ASSUME NEW V, NEW z, ZSet(z, V), NEW p
    PROVE  /\ ZSet(ZRem(z, p), V) /\ DOMAIN ZRem(z, p) = DOMAIN z \ {p}
           /\ \A q \in DOMAIN z \ {p} : ZRem(z, p)[q] = z[q]
           /\ ZRem(z, p) # z <=> p \in DOMAIN z
<1>1. IsFiniteSet(DOMAIN z \ {p})
  BY FS_Subset DEF ZSet
<1>2. DOMAIN ZRem(z, p) = DOMAIN z \ {p}
  BY DEF ZRem
<1>3. \A q \in DOMAIN z \ {p} : ZRem(z, p)[q] = z[q]
  BY DEF ZRem
<1>4. ZSet(ZRem(z, p), V)
  BY <1>1 DEF ZSet, ZRem
<1>5. p \notin DOMAIN z => ZRem(z, p) = z
  BY DEF ZSet, ZRem
<1> QED
  BY <1>2, <1>3, <1>4, <1>5

LEMMA ZAddNXKeeps ==
    ASSUME NEW V, NEW z, ZSet(z, V), NEW p \in Player, NEW s \in V[p]
    PROVE  /\ ZSet(ZAddNX(z, p, s), V) /\ DOMAIN ZAddNX(z, p, s) = DOMAIN z \cup {p}
           /\ \A q \in DOMAIN z : ZAddNX(z, p, s)[q] = z[q]
           /\ p \notin DOMAIN z => ZAddNX(z, p, s)[p] = s
           /\ ZAddNX(z, p, s) # z <=> p \notin DOMAIN z
<1>1. CASE p \in DOMAIN z
  BY <1>1 DEF ZAddNX
<1>2. CASE p \notin DOMAIN z
  <2>1. ZAddNX(z, p, s) = ZAdd(z, p, s)
    BY <1>2 DEF ZAddNX
  <2> QED
    BY <1>2, <2>1, ZAddKeeps
<1> QED
  BY <1>1, <1>2

\* How often p is in S: what the lock counts with.
In(p, S) == IF p \in S THEN 1 ELSE 0

LEMMA OneOrNone == \A p, S : Cardinality({p} \cap S) = In(p, S)
<1> TAKE p, S
<1>1. CASE p \in S
  <2>1. {p} \cap S = {p}
    BY <1>1
  <2> QED
    BY <1>1, <2>1, FS_Singleton DEF In
<1>2. CASE p \notin S
  <2>1. {p} \cap S = {}
    BY <1>2
  <2> QED
    BY <1>2, <2>1, FS_EmptySet DEF In
<1> QED
  BY <1>1, <1>2

-----------------------------------------------------------------------------
(***************************************************************************)
(* The batch.                                                              *)
(***************************************************************************)
LEMMA Batched ==
    ASSUME MatchIInv, pc # "idle"
    PROVE  /\ zs \in Seq(Entry) /\ zs # <<>> /\ Len(zs) \in Nat /\ 0 < Len(zs)
           /\ Len(zs) <= Batch /\ DOMAIN zs = 1 .. Len(zs)
           /\ Head(zs) = zs[1] /\ Head(zs) \in Entry /\ a \in Player
           /\ Head(zs).age \in Ages
<1>1. zs \in Seq(Entry) /\ zs # <<>> /\ Len(zs) <= Batch
  BY DEF MatchIInv, MatchInv, TypeOK, Entry
<1>2. Len(zs) \in Nat /\ 0 < Len(zs) /\ DOMAIN zs = 1 .. Len(zs) /\ Head(zs) = zs[1]
  BY <1>1, EmptySeq, HeadTailProperties
<1>3. zs[1] \in Entry
  BY <1>1, <1>2, ElementOfSeq
<1> QED
  BY <1>1, <1>2, <1>3 DEF a, Entry

\* However a pass goes on after a member of the batch or ends, what is left of the
\* batch is a tail of it.
LEMMA MovesOn ==
    ASSUME MatchIInv, pc # "idle", NEW done \in SUBSET Player, Continue(done) \/ EndPass
    PROVE  /\ pc' \in {"idle", "score"} /\ (pc' = "idle" <=> zs' = <<>>)
           /\ zs' \in Seq(Entry) /\ Len(zs') <= Batch
           /\ \A k \in DOMAIN zs' : k + 1 \in DOMAIN zs /\ zs'[k] = zs[k + 1]
           /\ paired' \subseteq Player /\ b' \in Player \cup {Nobody}
           /\ Held' = {}
<1>1. Batch \in Nat
  BY MatchConstants
<1>2. CASE EndPass
  BY <1>1, <1>2 DEF EndPass, Held
<1>3. CASE ~EndPass
  <2>1. /\ Len(zs) # 1 /\ pc' = "score" /\ zs' = Tail(zs) /\ paired' = done
        /\ b' = Nobody
    BY <1>3 DEF Continue
  <2>2. /\ zs \in Seq(Entry) /\ zs # <<>> /\ Len(zs) \in Nat /\ 0 < Len(zs)
        /\ Len(zs) <= Batch /\ DOMAIN zs = 1 .. Len(zs)
    BY Batched
  <2>3. /\ zs' \in Seq(Entry) /\ Len(zs') = Len(zs) - 1
        /\ \A k \in 1 .. Len(zs) - 1 : zs'[k] = zs[k + 1]
    BY <2>1, <2>2, HeadTailProperties
  <2>4. DOMAIN zs' = 1 .. Len(zs) - 1 /\ Len(zs') # 0
    BY <2>1, <2>2, <2>3
  <2>5. zs' # <<>>
    BY <2>4
  <2>6. Held' = {}
    BY <2>1 DEF Held
  <2> QED
    BY <1>1, <2>1, <2>2, <2>3, <2>4, <2>5, <2>6
<1> QED
  BY <1>2, <1>3

\* The ages of the batch stay ahead of the time stamps, whatever is removed, newly
\* stamped or restored.
LEMMA AgesAhead ==
    ASSUME MatchIInv,
           zs' = zs \/ \A k \in DOMAIN zs' : k + 1 \in DOMAIN zs /\ zs'[k] = zs[k + 1],
           \A p \in DOMAIN time' :
              \/ time'[p] = 0
              \/ p \in DOMAIN time /\ time'[p] = time[p]
              \/ pc # "idle" /\ p = a /\ time'[p] = Head(zs).age
    PROVE  /\ \A k \in DOMAIN zs' :
                 zs'[k].id \in DOMAIN time' => time'[zs'[k].id] <= zs'[k].age
           /\ \A j, k \in DOMAIN zs' : zs'[j].id = zs'[k].id => zs'[j].age = zs'[k].age
<1>1. \A k \in DOMAIN zs' : \E j \in DOMAIN zs : zs'[k] = zs[j]
  OBVIOUS
<1>2. \A j \in DOMAIN zs : zs[j] \in Entry /\ zs[j].age \in Nat
  <2>1. zs \in Seq(Entry)
    BY DEF MatchIInv, MatchInv, TypeOK, Entry
  <2>2. \A j \in DOMAIN zs : zs[j] \in Entry
    BY <2>1, ElementOfSeq
  <2> QED
    BY <2>2, MatchConstants DEF Entry, Ages
<1>3. ASSUME NEW k \in DOMAIN zs', zs'[k].id \in DOMAIN time'
      PROVE  time'[zs'[k].id] <= zs'[k].age
  <2>1. PICK j \in DOMAIN zs : zs'[k] = zs[j]
    BY <1>1
  <2> DEFINE p == zs[j].id
  <2>2. CASE time'[p] = 0
    BY <1>2, <2>1, <2>2
  <2>3. CASE p \in DOMAIN time /\ time'[p] = time[p]
    BY <2>1, <2>3 DEF MatchIInv, PassInv
  <2>4. CASE pc # "idle" /\ p = a /\ time'[p] = Head(zs).age
    <3>1. Head(zs) = zs[1] /\ 1 \in DOMAIN zs /\ zs[1].id = a
      BY <2>4, Batched DEF a
    <3>2. zs[j].age = zs[1].age
      BY <2>4, <3>1 DEF MatchIInv, PassInv
    <3> QED
      BY <1>2, <2>1, <2>4, <3>1, <3>2
  <2> QED
    BY <1>3, <2>1, <2>2, <2>3, <2>4
<1>4. ASSUME NEW j \in DOMAIN zs', NEW k \in DOMAIN zs', zs'[j].id = zs'[k].id
      PROVE  zs'[j].age = zs'[k].age
  BY <1>1, <1>4 DEF MatchIInv, PassInv
<1> QED
  BY <1>3, <1>4

\* The matcher's locals after a step that took it on to the next member.
LEMMA OnInv ==
    ASSUME MatchIInv, pc # "idle", NEW done \in SUBSET Player, Continue(done) \/ EndPass,
           \A p \in DOMAIN time' :
              \/ p \in DOMAIN time /\ time'[p] = time[p]
              \/ p = a /\ time'[p] = Head(zs).age
    PROVE  /\ PassInv' /\ Held' = {}
           /\ pc' \in {"idle", "score"} /\ (pc' = "idle" <=> zs' = <<>>)
           /\ zs' \in Seq(Entry) /\ Len(zs') <= Batch
           /\ paired' \subseteq Player /\ b' \in Player \cup {Nobody}
<1>1. /\ pc' \in {"idle", "score"} /\ (pc' = "idle" <=> zs' = <<>>)
      /\ zs' \in Seq(Entry) /\ Len(zs') <= Batch
      /\ \A k \in DOMAIN zs' : k + 1 \in DOMAIN zs /\ zs'[k] = zs[k + 1]
      /\ paired' \subseteq Player /\ b' \in Player \cup {Nobody}
      /\ Held' = {}
  BY MovesOn
<1>2. /\ \A k \in DOMAIN zs' :
            zs'[k].id \in DOMAIN time' => time'[zs'[k].id] <= zs'[k].age
      /\ \A j, k \in DOMAIN zs' : zs'[j].id = zs'[k].id => zs'[j].age = zs'[k].age
  BY <1>1, AgesAhead
<1>3. pc' \notin Chosen \cup {"range"}
  BY <1>1 DEF Chosen
<1> QED
  BY <1>1, <1>2, <1>3 DEF PassInv

\* The matcher's locals after a step that stayed with the member and its score.
LEMMA StaysInv ==
    ASSUME MatchIInv, UNCHANGED <<zs, paired>>, pc # "idle",
           pc' \in Chosen \cup {"range"}, aScore' \in Scores[a],
           pc' \in Chosen => b' \in Player, b' \in Player \cup {Nobody},
           \A p \in DOMAIN time' : p \in DOMAIN time /\ time'[p] = time[p]
    PROVE  /\ PassInv'
           /\ pc' \in {"idle", "score", "range", "takeA", "takeA2", "takeB", "takeB2",
                       "restore", "restore2"}
           /\ (pc' = "idle" <=> zs' = <<>>)
           /\ zs' \in Seq(Entry) /\ Len(zs') <= Batch
           /\ paired' \subseteq Player /\ b' \in Player \cup {Nobody}
<1>1. /\ \A k \in DOMAIN zs' :
            zs'[k].id \in DOMAIN time' => time'[zs'[k].id] <= zs'[k].age
      /\ \A j, k \in DOMAIN zs' : zs'[j].id = zs'[k].id => zs'[j].age = zs'[k].age
  BY AgesAhead
<1>2. a' = a
  BY DEF a
<1>3. PassInv'
  BY <1>1, <1>2 DEF PassInv
<1>4. zs' \in Seq(Entry) /\ zs' # <<>> /\ Len(zs') <= Batch /\ paired' \subseteq Player
  BY Batched DEF MatchIInv, MatchInv, TypeOK
<1> QED
  BY <1>3, <1>4 DEF Chosen

\* The invariant, from its parts.
LEMMA Together ==
    ASSUME Sets', PassInv', NobodyLost',
           joining' \in [Player -> Nat],
           intent' \in [Player -> {"away", "queued", "matched", "left"}],
           pc' \in {"idle", "score", "range", "takeA", "takeA2", "takeB", "takeB2",
                    "restore", "restore2"},
           zs' \in Seq(Entry), Len(zs') <= Batch, pc' = "idle" <=> zs' = <<>>,
           paired' \subseteq Player, b' \in Player \cup {Nobody},
           \A p \in Player : credit'[p] >= In(p, DOMAIN rating') + In(p, Held')
    PROVE  MatchIInv'
<1>1. /\ DOMAIN rating' \subseteq Player
      /\ \A p \in DOMAIN rating' : rating'[p] \in Scores[p]
      /\ DOMAIN time' \subseteq Player /\ \A p \in DOMAIN time' : time'[p] \in Ages
  BY DEF Sets, ZSet, Stamps
<1>2. TypeOK'
  BY <1>1 DEF TypeOK, Entry
<1>3. OnePairPerEntry'
  BY OneOrNone DEF OnePairPerEntry
<1> QED
  BY <1>2, <1>3 DEF MatchIInv, MatchInv

\* What the invariant says of the clients, the sets and the lock.
LEMMA Before ==
    ASSUME MatchIInv
    PROVE  /\ ZSet(rating, Scores) /\ ZSet(time, Stamps)
           /\ credit \in [Player -> Int] /\ faults \in Nat
           /\ joining \in [Player -> Nat]
           /\ intent \in [Player -> {"away", "queued", "matched", "left"}]
           /\ \A p \in Player : credit[p] >= In(p, DOMAIN rating) + In(p, Held)
           /\ faults = 0 =>
                 \A p \in Player : intent[p] = "queued" => p \in DOMAIN rating \cup Held
           /\ \A p \in Player : Scores[p] \subseteq Int /\ Stamps[p] = Ages
           /\ 0 \in Ages /\ AgeCap \in Nat
<1>1. 0 \in Ages /\ AgeCap \in Nat
  BY MatchConstants DEF Ages
<1>2. \A p \in Player : credit[p] >= In(p, DOMAIN rating) + In(p, Held)
  BY OneOrNone DEF MatchIInv, MatchInv, OnePairPerEntry
<1>3. \A p \in Player : Scores[p] \subseteq Int
  BY MatchConstants
<1> QED
  BY <1>1, <1>2, <1>3 DEF MatchIInv, MatchInv, TypeOK, NobodyLost, Sets, Stamps

-----------------------------------------------------------------------------
(***************************************************************************)
(* The connections.                                                        *)
(***************************************************************************)
LEMMA InitInv == Init => MatchIInv
<1> SUFFICES ASSUME Init
             PROVE  MatchIInv
  OBVIOUS
<1>1. DOMAIN rating = {} /\ DOMAIN time = {} /\ DOMAIN zs = {}
  BY DEF Init
<1>2. rating = [p \in DOMAIN rating |-> rating[p]] /\ time = [p \in DOMAIN time |-> time[p]]
  BY DEF Init
<1>3. Sets
  BY <1>1, <1>2, FS_EmptySet DEF Init, Sets, ZSet
<1>4. TypeOK
  <2>1. zs \in Seq([id : Player, waited : Ages, age : Ages]) /\ Len(zs) = 0
    BY DEF Init
  <2> QED
    BY <1>1, <2>1, MatchConstants DEF Init, TypeOK
<1>5. PassInv
  BY <1>1 DEF Init, PassInv, Chosen
<1>6. NobodyLost
  BY DEF Init, NobodyLost
<1>7. OnePairPerEntry
  <2>1. Held = {}
    BY DEF Init, Held
  <2> QED
    BY <1>1, <2>1, OneOrNone DEF Init, OnePairPerEntry, In
<1> QED
  BY <1>3, <1>4, <1>5, <1>6, <1>7 DEF MatchIInv, MatchInv

LEMMA EnqueueInv ==
    ASSUME MatchIInv, NEW p \in Player, Enqueue(p)
    PROVE  MatchIInv'
<1>p. PICK score \in Scores[p] : JoinRating(p, score)
  BY DEF Enqueue
<1> DEFINE then == ZAddNX(rating, p, score)
<1>0. faults + 1 # faults
  BY Before
<1>1. /\ UNCHANGED <<time, pc, zs, paired, aScore, b, bScore>>
      /\ rating' = rating \/ rating' = then
      /\ joining' = joining \/ joining' = [joining EXCEPT ![p] = joining[p] + 1]
      /\ intent' = intent \/ intent' = [intent EXCEPT ![p] = "queued"]
      /\ faults' = faults \/ (faults' = faults + 1 /\ intent' = intent)
      /\ intent' # intent \/ faults' = faults => rating' = then
      /\ credit' = IF rating' # rating THEN [credit EXCEPT ![p] = credit[p] + 1] ELSE credit
  BY <1>0, <1>p DEF JoinRating, Works, Fails, Failed, pass
<1>2. /\ ZSet(then, Scores) /\ DOMAIN then = DOMAIN rating \cup {p}
      /\ then # rating <=> p \notin DOMAIN rating
  <2>1. ZSet(rating, Scores) /\ score \in Scores[p]
    BY Before
  <2>2. ZSet(then, Scores)
    BY <2>1, ZAddNXKeeps
  <2>3. DOMAIN then = DOMAIN rating \cup {p}
    BY DEF ZAddNX, ZAdd
  <2>4. then # rating <=> p \notin DOMAIN rating
    BY <2>3 DEF ZAddNX
  <2> HIDE DEF then
  <2> QED
    BY <2>2, <2>3, <2>4
<1> HIDE DEF then
<1>3. Sets'
  BY <1>1, <1>2, Before DEF Sets
<1>4. Held' = Held
  BY <1>1 DEF Held, a
<1>5. PassInv'
  BY <1>1 DEF MatchIInv, PassInv, a
<1>6. NobodyLost'
  <2>1. SUFFICES ASSUME faults' = 0, NEW q \in Player, intent'[q] = "queued"
                 PROVE  q \in DOMAIN rating' \cup Held'
    BY DEF NobodyLost
  <2>2. faults = 0 /\ rating' = then
    BY <1>1, <2>1, Before
  <2>3. q # p => intent[q] = "queued"
    BY <1>1, <2>1, Before
  <2> QED
    BY <1>2, <1>4, <2>2, <2>3, Before
<1>7. \A q \in Player : credit'[q] >= In(q, DOMAIN rating') + In(q, Held')
  <2> TAKE q \in Player
  <2>1. credit[q] \in Int /\ credit[q] >= In(q, DOMAIN rating) + In(q, Held)
    BY Before
  <2>2. CASE rating' = rating
    BY <1>1, <1>4, <2>1, <2>2
  <2>3. CASE rating' = then /\ then # rating
    <3>1. credit'[q] = IF q = p THEN credit[q] + 1 ELSE credit[q]
      BY <1>1, <2>3, Before
    <3>2. In(q, DOMAIN rating') = IF q = p THEN In(q, DOMAIN rating) + 1
                                  ELSE In(q, DOMAIN rating)
      BY <1>2, <2>3 DEF In
    <3>3. In(q, DOMAIN rating) \in Int /\ In(q, Held) \in Int
      BY DEF In
    <3> QED
      BY <1>4, <2>1, <3>1, <3>2, <3>3
  <2> QED
    BY <1>1, <2>2, <2>3
<1>8. /\ joining' \in [Player -> Nat]
      /\ intent' \in [Player -> {"away", "queued", "matched", "left"}]
  BY <1>1, Before
<1>9. /\ pc' \in {"idle", "score", "range", "takeA", "takeA2", "takeB", "takeB2",
                  "restore", "restore2"}
      /\ zs' \in Seq(Entry) /\ Len(zs') <= Batch /\ (pc' = "idle" <=> zs' = <<>>)
      /\ paired' \subseteq Player /\ b' \in Player \cup {Nobody}
  BY <1>1 DEF MatchIInv, MatchInv, TypeOK, Entry
<1> QED
  BY <1>3, <1>5, <1>6, <1>7, <1>8, <1>9, Together

LEMMA JoinTimeInv ==
    ASSUME MatchIInv, NEW p \in Player, JoinTime(p)
    PROVE  MatchIInv'
<1> DEFINE then == ZAddNX(time, p, 0)
<1>1. /\ UNCHANGED <<rating, intent, credit, pc, zs, paired, aScore, b, bScore>>
      /\ time' = time \/ time' = then
      /\ joining' = [joining EXCEPT ![p] = joining[p] - 1] /\ joining[p] > 0
      /\ (faults' = faults \/ faults' = faults + 1)
  BY DEF JoinTime, Works, Fails, Failed, pass
<1>2. /\ ZSet(then, Stamps) /\ DOMAIN then = DOMAIN time \cup {p}
      /\ \A q \in DOMAIN time : then[q] = time[q]
      /\ p \notin DOMAIN time => then[p] = 0
  <2>1. ZSet(time, Stamps) /\ 0 \in Stamps[p]
    BY Before
  <2> QED
    BY <2>1, ZAddNXKeeps
<1> HIDE DEF then
<1>3. Sets'
  BY <1>1, <1>2, Before DEF Sets
<1>4. Held' = Held
  BY <1>1 DEF Held, a
<1>5. PassInv'
  <2>1. \A q \in DOMAIN time' : time'[q] = 0 \/ (q \in DOMAIN time /\ time'[q] = time[q])
    BY <1>1, <1>2
  <2>2. /\ \A k \in DOMAIN zs' :
              zs'[k].id \in DOMAIN time' => time'[zs'[k].id] <= zs'[k].age
        /\ \A j, k \in DOMAIN zs' : zs'[j].id = zs'[k].id => zs'[j].age = zs'[k].age
    BY <1>1, <2>1, AgesAhead
  <2> QED
    BY <1>1, <2>2 DEF MatchIInv, PassInv, a
<1>6. NobodyLost'
  BY <1>1, <1>4, Before DEF NobodyLost
<1>7. \A q \in Player : credit'[q] >= In(q, DOMAIN rating') + In(q, Held')
  BY <1>1, <1>4, Before
<1>8. joining' \in [Player -> Nat]
  <2>1. joining[p] \in Nat /\ joining[p] - 1 \in Nat
    BY <1>1, Before
  <2> QED
    BY <1>1, <2>1, Before
<1>9. /\ pc' \in {"idle", "score", "range", "takeA", "takeA2", "takeB", "takeB2",
                  "restore", "restore2"}
      /\ zs' \in Seq(Entry) /\ Len(zs') <= Batch /\ (pc' = "idle" <=> zs' = <<>>)
      /\ paired' \subseteq Player /\ b' \in Player \cup {Nobody}
      /\ intent' \in [Player -> {"away", "queued", "matched", "left"}]
  BY <1>1 DEF MatchIInv, MatchInv, TypeOK, Entry
<1> QED
  BY <1>3, <1>5, <1>6, <1>7, <1>8, <1>9, Together

LEMMA LeaveInv ==
    ASSUME MatchIInv, NEW p \in Player, Leave(p)
    PROVE  MatchIInv'
<1> DEFINE then == ZRem(rating, p)
           later == ZRem(time, p)
<1>0. faults + 1 # faults /\ (faults' = 0 => faults' # faults + 1)
  BY Before
<1>1. /\ UNCHANGED <<joining, pc, zs, paired, aScore, b, bScore>>
      /\ (rating' = rating /\ time' = time) \/ (rating' = then /\ time' = later)
      /\ \/ /\ faults' = faults /\ intent' = [intent EXCEPT ![p] = "left"]
            /\ rating' = then
         \/ faults' = faults + 1 /\ intent' = intent
      /\ credit' = IF rating' # rating THEN [credit EXCEPT ![p] = credit[p] - 1] ELSE credit
  BY DEF Leave, Works, Fails, pass, queue
<1>2. /\ ZSet(then, Scores) /\ DOMAIN then = DOMAIN rating \ {p}
      /\ then # rating <=> p \in DOMAIN rating
      /\ ZSet(later, Stamps) /\ DOMAIN later = DOMAIN time \ {p}
      /\ \A q \in DOMAIN time \ {p} : later[q] = time[q]
  <2>1. ZSet(rating, Scores) /\ ZSet(time, Stamps)
    BY Before
  <2>2. /\ ZSet(then, Scores) /\ DOMAIN then = DOMAIN rating \ {p}
        /\ then # rating <=> p \in DOMAIN rating
    BY <2>1, ZRemKeeps, ZenonT(60)
  <2>3. /\ ZSet(later, Stamps) /\ DOMAIN later = DOMAIN time \ {p}
        /\ \A q \in DOMAIN time \ {p} : later[q] = time[q]
    BY <2>1, ZRemKeeps, ZenonT(60)
  <2> HIDE DEF then, later
  <2> QED
    BY <2>2, <2>3
<1> HIDE DEF then, later
<1>3. Sets'
  BY <1>1, <1>2, Before DEF Sets
<1>4. Held' = Held
  BY <1>1 DEF Held, a
<1>5. PassInv'
  <2>1. \A q \in DOMAIN time' : q \in DOMAIN time /\ time'[q] = time[q]
    BY <1>1, <1>2
  <2>2. /\ \A k \in DOMAIN zs' :
              zs'[k].id \in DOMAIN time' => time'[zs'[k].id] <= zs'[k].age
        /\ \A j, k \in DOMAIN zs' : zs'[j].id = zs'[k].id => zs'[j].age = zs'[k].age
    BY <1>1, <2>1, AgesAhead
  <2> QED
    BY <1>1, <2>2 DEF MatchIInv, PassInv, a
<1>6. NobodyLost'
  <2>1. SUFFICES ASSUME faults' = 0, NEW q \in Player, intent'[q] = "queued"
                 PROVE  q \in DOMAIN rating' \cup Held'
    BY DEF NobodyLost
  <2>2. faults = 0 /\ rating' = then /\ intent' = [intent EXCEPT ![p] = "left"]
    BY <1>0, <1>1, <2>1
  <2>3. q # p /\ intent[q] = "queued"
    BY <2>1, <2>2, Before
  <2> QED
    BY <1>2, <1>4, <2>2, <2>3, Before
<1>7. \A q \in Player : credit'[q] >= In(q, DOMAIN rating') + In(q, Held')
  <2> TAKE q \in Player
  <2>1. credit[q] \in Int /\ credit[q] >= In(q, DOMAIN rating) + In(q, Held)
    BY Before
  <2>2. CASE rating' = rating
    BY <1>1, <1>4, <2>1, <2>2
  <2>3. CASE rating' = then /\ then # rating
    <3>1. credit'[q] = IF q = p THEN credit[q] - 1 ELSE credit[q]
      BY <1>1, <2>3, Before
    <3>2. In(q, DOMAIN rating') = IF q = p THEN In(q, DOMAIN rating) - 1
                                  ELSE In(q, DOMAIN rating)
      BY <1>2, <2>3 DEF In
    <3>3. In(q, DOMAIN rating) \in Int /\ In(q, Held) \in Int
      BY DEF In
    <3> QED
      BY <1>4, <2>1, <3>1, <3>2, <3>3
  <2> QED
    BY <1>1, <2>2, <2>3
<1>8. /\ joining' \in [Player -> Nat]
      /\ intent' \in [Player -> {"away", "queued", "matched", "left"}]
  BY <1>1, Before
<1>9. /\ pc' \in {"idle", "score", "range", "takeA", "takeA2", "takeB", "takeB2",
                  "restore", "restore2"}
      /\ zs' \in Seq(Entry) /\ Len(zs') <= Batch /\ (pc' = "idle" <=> zs' = <<>>)
      /\ paired' \subseteq Player /\ b' \in Player \cup {Nobody}
  BY <1>1 DEF MatchIInv, MatchInv, TypeOK, Entry
<1> QED
  BY <1>3, <1>5, <1>6, <1>7, <1>8, <1>9, Together

-----------------------------------------------------------------------------
(***************************************************************************)
(* matchOnce.                                                              *)
(***************************************************************************)
\* A step of the matcher that touches neither the scores nor the clients: nobody
\* is held before or after it that was not held already.
LEMMA LookInv ==
    ASSUME MatchIInv, UNCHANGED <<rating, joining, intent, credit>>, ZSet(time', Stamps),
           faults' = faults \/ faults' = faults + 1, Held' = Held, PassInv',
           pc' \in {"idle", "score", "range", "takeA", "takeA2", "takeB", "takeB2",
                    "restore", "restore2"},
           zs' \in Seq(Entry), Len(zs') <= Batch, pc' = "idle" <=> zs' = <<>>,
           paired' \subseteq Player, b' \in Player \cup {Nobody}
    PROVE  MatchIInv'
<1>1. Sets'
  BY Before DEF Sets
<1>2. NobodyLost'
  BY Before DEF NobodyLost
<1>3. \A q \in Player : credit'[q] >= In(q, DOMAIN rating') + In(q, Held')
  BY Before
<1>4. /\ joining' \in [Player -> Nat]
      /\ intent' \in [Player -> {"away", "queued", "matched", "left"}]
  BY Before
<1> QED
  BY <1>1, <1>2, <1>3, <1>4, Together

\* A function on the numbers up to m is a sequence of length m.
LEMMA FunctionIsSeq ==
    ASSUME NEW S, NEW m \in Nat, NEW s \in [1 .. m -> S]
    PROVE  s \in Seq(S) /\ Len(s) = m
<1>1. s \in Seq(S)
  BY SeqDef
<1>2. Len(s) \in Nat /\ DOMAIN s = 1 .. Len(s) /\ DOMAIN s = 1 .. m
  BY <1>1
<1>3. m <= Len(s)
  <2>1. m > 0 => m \in 1 .. m
    OBVIOUS
  <2>2. m > 0 => m \in 1 .. Len(s)
    BY <1>2, <2>1
  <2> QED
    BY <1>2, <2>2
<1>4. Len(s) <= m
  <2>1. Len(s) > 0 => Len(s) \in 1 .. Len(s)
    BY <1>2
  <2>2. Len(s) > 0 => Len(s) \in 1 .. m
    BY <1>2, <2>1
  <2> QED
    BY <1>2, <2>2
<1>5. Len(s) \in Int /\ m \in Int
  BY <1>2
<1>6. Len(s) = m
  BY <1>3, <1>4, <1>5
<1> QED
  BY <1>1, <1>6

\* The first n of an ordering of a finite set.
LEMMA Ordered ==
    ASSUME NEW S, IsFiniteSet(S), NEW s \in SetToSeqs(S), NEW n \in Nat
    PROVE  /\ FirstOf(s, n) \in Seq(S) /\ Len(FirstOf(s, n)) <= n
           /\ n > 0 /\ S # {} => FirstOf(s, n) # <<>>
<1>1. PICK m \in Nat : m = Cardinality(S)
  BY FS_CardinalityType
<1>2. s \in [1 .. m -> S]
  BY <1>1 DEF SetToSeqs
<1>3. s \in Seq(S) /\ Len(s) = m
  BY <1>2, FunctionIsSeq
<1>4. S # {} => m # 0
  BY <1>1, FS_EmptySet
<1> DEFINE l == IF m < n THEN m ELSE n
<1>5. l \in Nat /\ l <= m /\ l <= n /\ FirstOf(s, n) = SubSeq(s, 1, l)
  BY <1>3 DEF FirstOf
<1>6. \A k \in 1 .. l : s[k] \in S
  BY <1>2, <1>5
<1> HIDE DEF l
<1>7. SubSeq(s, 1, l) \in Seq(S) /\ Len(SubSeq(s, 1, l)) = l
  BY <1>5, <1>6, SubSeqProperties
<1>8. SubSeq(s, 1, l) = <<>> => l = 0
  BY <1>7
<1> QED
  BY <1>4, <1>5, <1>7, <1>8 DEF l

LEMMA BeginInv ==
    ASSUME MatchIInv, Begin
    PROVE  MatchIInv'
<1>1. /\ pc = "idle" /\ DOMAIN time # {}
      /\ UNCHANGED <<rating, time, joining, intent, credit>>
      /\ \/ /\ faults' = faults /\ pc' = "score" /\ UNCHANGED <<paired, aScore, b, bScore>>
            /\ \E s \in Oldest :
                  zs' = [k \in DOMAIN s |-> [id |-> s[k], waited |-> time[s[k]],
                                             age |-> time[s[k]]]]
         \/ faults' = faults + 1 /\ UNCHANGED <<pc, zs, paired, aScore, b, bScore>>
  BY DEF Begin, Works, Fails, queue, clients, pass
<1>2. ZSet(time, Stamps)
  BY Before
<1>3. CASE faults' = faults + 1 /\ UNCHANGED <<pc, zs, paired, aScore, b, bScore>>
  <2>1. Held' = Held /\ PassInv'
    BY <1>1, <1>3 DEF Held, a, MatchIInv, PassInv
  <2> QED
    BY <1>1, <1>2, <1>3, <2>1, LookInv DEF MatchIInv, MatchInv, TypeOK, Entry
<1>4. CASE faults' = faults /\ pc' = "score" /\ UNCHANGED <<paired, aScore, b, bScore>>
  <2>1. PICK s \in Oldest :
           zs' = [k \in DOMAIN s |-> [id |-> s[k], waited |-> time[s[k]],
                                      age |-> time[s[k]]]]
    BY <1>1, <1>4, Before
  <2>2. PICK u \in SetToSeqs(DOMAIN time) : s = FirstOf(u, Batch)
    BY <2>1 DEF Oldest, Sorted
  <2>3. s \in Seq(DOMAIN time) /\ Len(s) <= Batch /\ s # <<>>
    <3>1. IsFiniteSet(DOMAIN time) /\ DOMAIN time # {}
      BY <1>1, <1>2 DEF ZSet
    <3>2. Batch \in Nat /\ Batch > 0
      BY MatchConstants
    <3> QED
      BY <2>2, <3>1, <3>2, Ordered
  <2>4. /\ Len(s) \in Nat /\ DOMAIN s = 1 .. Len(s)
        /\ \A k \in DOMAIN s : s[k] \in DOMAIN time
    BY <2>3, ElementOfSeq
  <2>5. \A p \in DOMAIN time : p \in Player /\ time[p] \in Ages
    BY <1>2 DEF ZSet, Stamps
  <2>6. \A k \in DOMAIN s : zs'[k] = [id |-> s[k], waited |-> time[s[k]], age |-> time[s[k]]]
    BY <2>1
  <2>7. zs' \in [1 .. Len(s) -> Entry]
    BY <2>1, <2>4, <2>5 DEF Entry
  <2>8. zs' \in Seq(Entry) /\ Len(zs') = Len(s)
    BY <2>4, <2>7, FunctionIsSeq
  <2>9. zs' # <<>>
    BY <2>3, <2>4, <2>8, EmptySeq
  <2>10. DOMAIN zs' = DOMAIN s
    BY <2>1
  <2>11. PassInv'
    <3>1. pc' \notin Chosen \cup {"range"}
      BY <1>4 DEF Chosen
    <3>2. ASSUME NEW k \in DOMAIN s
          PROVE  zs'[k].id = s[k] /\ zs'[k].age = time[s[k]]
      <4>1. zs'[k] = [id |-> s[k], waited |-> time[s[k]], age |-> time[s[k]]]
        BY <2>6
      <4> QED
        BY <4>1
    <3>3. \A k \in DOMAIN s : time[s[k]] <= time[s[k]]
      BY <2>4, <2>5, MatchConstants DEF Ages
    <3> QED
      BY <1>1, <2>10, <3>1, <3>2, <3>3 DEF PassInv
  <2>12. Held' = Held
    BY <1>1, <1>4 DEF Held
  <2> QED
    BY <1>1, <1>2, <1>4, <2>3, <2>8, <2>9, <2>11, <2>12, LookInv
       DEF MatchIInv, MatchInv, TypeOK
<1> QED
  BY <1>1, <1>3, <1>4

LEMMA ReadScoreInv ==
    ASSUME MatchIInv, ReadScore
    PROVE  MatchIInv'
<1>1. /\ pc = "score" /\ UNCHANGED <<rating, time, joining, intent, credit>>
      /\ faults' = faults \/ faults' = faults + 1
      /\ \/ Continue(paired) \/ EndPass
         \/ /\ a \in DOMAIN rating /\ aScore' = rating[a] /\ pc' = "range"
            /\ UNCHANGED <<zs, paired, b>>
  BY DEF ReadScore, Works, Fails, queue, clients
<1>2. ZSet(rating, Scores) /\ ZSet(time, Stamps) /\ Held = {}
  BY <1>1, Before DEF Held
<1>3. CASE Continue(paired) \/ EndPass
  <2>1. paired \in SUBSET Player
    BY DEF MatchIInv, MatchInv, TypeOK
  <2>2. /\ PassInv' /\ Held' = {}
        /\ pc' \in {"idle", "score"} /\ (pc' = "idle" <=> zs' = <<>>)
        /\ zs' \in Seq(Entry) /\ Len(zs') <= Batch
        /\ paired' \subseteq Player /\ b' \in Player \cup {Nobody}
    BY <1>1, <1>3, <2>1, OnInv
  <2> QED
    BY <1>1, <1>2, <2>2, LookInv
<1>4. CASE a \in DOMAIN rating /\ aScore' = rating[a] /\ pc' = "range"
           /\ UNCHANGED <<zs, paired, b>>
  <2>1. rating[a] \in Scores[a]
    BY <1>2, <1>4 DEF ZSet
  <2>2. b \in Player \cup {Nobody} /\ pc' \notin Chosen
    BY <1>4 DEF MatchIInv, MatchInv, TypeOK, Chosen
  <2>3. Held' = {}
    BY <1>4 DEF Held
  <2> QED
    BY <1>1, <1>2, <1>4, <2>1, <2>2, <2>3, StaysInv, LookInv
<1> QED
  BY <1>1, <1>3, <1>4

\* The opponent is listed: in mm:rating, within the window, and not a himself.
LEMMA OpponentListed ==
    ASSUME MatchIInv, ChooseOpponent, ~EndPass, ~Continue(paired)
    PROVE  /\ pc' = "takeA" /\ UNCHANGED <<zs, paired, aScore>>
           /\ b' \in DOMAIN rating /\ InWindow(b') /\ b' # a /\ bScore' = rating[b']
<1> DEFINE S == {p \in DOMAIN rating : InWindow(p)}
<1>1. /\ pc' = "takeA" /\ UNCHANGED <<zs, paired, aScore>>
      /\ \E s \in SetToSeqs(S) :
            LET ids == FirstOf(s, RangeCount)
                k == SelectInSeq(ids, LAMBDA p : p # a /\ p \notin paired)
            IN  k # 0 /\ b' = ids[k] /\ bScore' = rating[ids[k]]
  BY DEF ChooseOpponent, Sorted
<1>2. PICK s \in SetToSeqs(S) :
         LET ids == FirstOf(s, RangeCount)
             k == SelectInSeq(ids, LAMBDA p : p # a /\ p \notin paired)
         IN  k # 0 /\ b' = ids[k] /\ bScore' = rating[ids[k]]
  BY <1>1
<1>3. S \subseteq DOMAIN rating /\ IsFiniteSet(S) /\ \A p \in S : InWindow(p)
  BY Before, FS_Subset DEF ZSet
<1> HIDE DEF S
<1> DEFINE ids == FirstOf(s, RangeCount)
           T == {k \in 1 .. Len(ids) : ids[k] # a /\ ids[k] \notin paired}
<1>4. ids \in Seq(S)
  BY <1>3, Ordered, MatchConstants
<1>5. T # {} /\ b' = ids[Min(T)] /\ bScore' = rating[b']
  BY <1>2 DEF SelectInSeq
<1> HIDE DEF ids
<1>6. T \subseteq Nat
  BY <1>4
<1>7. PICK k \in T : \A j \in T : ~(<<j, k>> \in OpToRel(<, Nat))
  BY <1>5, <1>6, NatLessThanWellFounded, WFMin
<1>8. \A j \in T : k <= j
  <2> TAKE j \in T
  <2>1. k \in Nat /\ j \in Nat
    BY <1>6
  <2>2. ~(j < k)
    BY <1>7, <2>1 DEF OpToRel
  <2> QED
    BY <2>1, <2>2
<1>9. Min(T) \in T
  BY <1>8 DEF Min
<1>10. ids[Min(T)] \in S /\ ids[Min(T)] # a
  BY <1>4, <1>9, ElementOfSeq
<1> QED
  BY <1>1, <1>3, <1>5, <1>10

LEMMA ChooseOpponentInv ==
    ASSUME MatchIInv, ChooseOpponent
    PROVE  MatchIInv'
<1>1. /\ pc = "range" /\ UNCHANGED <<rating, time, joining, intent, credit>>
      /\ faults' = faults \/ faults' = faults + 1
  BY DEF ChooseOpponent, Works, Fails, queue, clients
<1>2. ZSet(rating, Scores) /\ ZSet(time, Stamps) /\ Held = {}
  BY <1>1, Before DEF Held
<1>3. CASE Continue(paired) \/ EndPass
  <2>1. paired \in SUBSET Player
    BY DEF MatchIInv, MatchInv, TypeOK
  <2>2. /\ PassInv' /\ Held' = {}
        /\ pc' \in {"idle", "score"} /\ (pc' = "idle" <=> zs' = <<>>)
        /\ zs' \in Seq(Entry) /\ Len(zs') <= Batch
        /\ paired' \subseteq Player /\ b' \in Player \cup {Nobody}
    BY <1>1, <1>3, <2>1, OnInv
  <2> QED
    BY <1>1, <1>2, <2>2, LookInv
<1>4. CASE ~EndPass /\ ~Continue(paired)
  <2>1. pc' = "takeA" /\ UNCHANGED <<zs, paired, aScore>> /\ b' \in DOMAIN rating
    BY <1>4, OpponentListed
  <2>2. b' \in Player
    BY <1>2, <2>1 DEF ZSet
  <2>3. aScore' \in Scores[a]
    BY <1>1, <2>1 DEF MatchIInv, PassInv
  <2>4. Held' = {} /\ pc' \in Chosen
    BY <2>1 DEF Held, Chosen
  <2> QED
    BY <1>1, <1>2, <2>1, <2>2, <2>3, <2>4, StaysInv, LookInv
<1> QED
  BY <1>3, <1>4

\* The two ways a command of take or restore can end: on to the next member, or on
\* to the next command for the same one.
LEMMA OnTogether ==
    ASSUME MatchIInv, pc # "idle", NEW done \in SUBSET Player, Continue(done) \/ EndPass,
           \A p \in DOMAIN time' :
              \/ p \in DOMAIN time /\ time'[p] = time[p]
              \/ p = a /\ time'[p] = Head(zs).age,
           Sets', NobodyLost', joining' = joining,
           intent' \in [Player -> {"away", "queued", "matched", "left"}],
           \A p \in Player : credit'[p] >= In(p, DOMAIN rating') + In(p, Held')
    PROVE  MatchIInv'
BY OnInv, Before, Together

LEMMA StaysTogether ==
    ASSUME MatchIInv, pc \in Chosen, Goto(pc'), pc' \in Chosen,
           \A p \in DOMAIN time' : p \in DOMAIN time /\ time'[p] = time[p],
           Sets', NobodyLost', joining' = joining, intent' = intent,
           \A p \in Player : credit'[p] >= In(p, DOMAIN rating') + In(p, Held')
    PROVE  MatchIInv'
<1>1. UNCHANGED <<zs, paired, aScore, b, bScore>> /\ pc # "idle"
  BY DEF Goto, Chosen
<1>2. aScore' \in Scores[a] /\ b' \in Player
  BY <1>1 DEF MatchIInv, PassInv
<1> QED
  BY <1>1, <1>2, StaysInv, Before, Together

\* Without failures the one who is taken is held at once.
LEMMA TakeAInv ==
    ASSUME MatchIInv, TakeA
    PROVE  MatchIInv'
<1> DEFINE then == ZRem(rating, a)
<1>1. /\ pc = "takeA" /\ UNCHANGED <<time, joining, intent, credit>>
      /\ rating' = rating \/ rating' = then
      /\ \/ /\ faults' = faults /\ rating' = then /\ a \in DOMAIN rating
            /\ Goto("takeA2")
         \/ faults' = faults /\ a \notin DOMAIN rating /\ Continue(paired)
         \/ faults' = faults + 1 /\ EndPass
  BY DEF TakeA, Works, Fails, Failed, Removed, clients
<1>2. /\ ZSet(then, Scores) /\ DOMAIN then = DOMAIN rating \ {a}
      /\ then # rating <=> a \in DOMAIN rating
  <2>1. ZSet(rating, Scores)
    BY Before
  <2> QED
    BY <2>1, ZRemKeeps, ZenonT(60)
<1>3. paired \in SUBSET Player /\ pc # "idle" /\ pc \in Chosen /\ Held = {}
  BY <1>1 DEF MatchIInv, MatchInv, TypeOK, Chosen, Held
<1> HIDE DEF then
<1>4. Sets'
  BY <1>1, <1>2, Before DEF Sets
<1>5. CASE faults' = faults /\ rating' = then /\ a \in DOMAIN rating /\ Goto("takeA2")
  <2>1. Held' = {a} /\ pc' = "takeA2"
    BY <1>5 DEF Goto, Held, a
  <2>2. NobodyLost'
    BY <1>1, <1>2, <1>3, <1>5, <2>1, Before DEF NobodyLost
  <2>3. \A p \in Player : credit'[p] >= In(p, DOMAIN rating') + In(p, Held')
    BY <1>1, <1>2, <1>3, <1>5, <2>1, Before DEF In
  <2> QED
    BY <1>1, <1>3, <1>4, <1>5, <2>1, <2>2, <2>3, StaysTogether DEF Chosen
<1>6. CASE \/ faults' = faults /\ a \notin DOMAIN rating /\ Continue(paired)
           \/ faults' = faults + 1 /\ EndPass
  <2>1. Continue(paired) \/ EndPass
    BY <1>6
  <2>2. Held' = {}
    BY <1>3, <2>1, MovesOn
  <2>3. NobodyLost'
    <3>1. faults' = 0 => rating' = rating /\ faults = 0
      BY <1>1, <1>2, <1>6, Before
    <3> QED
      BY <1>1, <1>3, <2>2, <3>1, Before DEF NobodyLost
  <2>4. \A p \in Player : credit'[p] >= In(p, DOMAIN rating') + In(p, Held')
    BY <1>1, <1>2, <1>3, <2>2, Before DEF In
  <2>5. \A p \in DOMAIN time' : p \in DOMAIN time /\ time'[p] = time[p]
    BY <1>1
  <2> QED
    BY <1>1, <1>3, <1>4, <2>1, <2>3, <2>4, <2>5, Before, OnTogether
<1> QED
  BY <1>1, <1>5, <1>6

LEMMA TakeA2Inv ==
    ASSUME MatchIInv, TakeA2
    PROVE  MatchIInv'
<1> DEFINE then == ZRem(time, a)
<1>1. /\ pc = "takeA2" /\ UNCHANGED <<rating, joining, intent, credit>>
      /\ time' = time \/ time' = then
      /\ faults' = faults \/ faults' = faults + 1
      /\ Goto("takeB")
  BY DEF TakeA2, Works, Fails, Failed, clients
<1>2. /\ ZSet(then, Stamps) /\ DOMAIN then = DOMAIN time \ {a}
      /\ \A q \in DOMAIN time \ {a} : then[q] = time[q]
  <2>1. ZSet(time, Stamps)
    BY Before
  <2> QED
    BY <2>1, ZRemKeeps
<1> HIDE DEF then
<1>3. Sets'
  BY <1>1, <1>2, Before DEF Sets
<1>4. Held' = Held /\ pc' = "takeB"
  BY <1>1 DEF Goto, Held, a
<1>5. NobodyLost' /\ \A p \in Player : credit'[p] >= In(p, DOMAIN rating') + In(p, Held')
  BY <1>1, <1>4, Before DEF NobodyLost
<1>6. \A p \in DOMAIN time' : p \in DOMAIN time /\ time'[p] = time[p]
  BY <1>1, <1>2
<1>7. pc \in Chosen /\ pc' \in Chosen
  BY <1>1, <1>4 DEF Chosen
<1> QED
  BY <1>1, <1>3, <1>4, <1>5, <1>6, <1>7, StaysTogether

LEMMA TakeBInv ==
    ASSUME MatchIInv, TakeB
    PROVE  MatchIInv'
<1> DEFINE then == ZRem(rating, b)
<1>1. /\ pc = "takeB" /\ UNCHANGED <<time, joining, intent, credit>>
      /\ rating' = rating \/ rating' = then
      /\ \/ /\ faults' = faults /\ rating' = then /\ b \in DOMAIN rating
            /\ Goto("takeB2")
         \/ faults' = faults /\ b \notin DOMAIN rating /\ Goto("restore")
         \/ faults' = faults + 1 /\ Goto("restore")
  BY DEF TakeB, Works, Fails, Failed, Removed, AfterTakeB, clients
<1>2. /\ ZSet(then, Scores) /\ DOMAIN then = DOMAIN rating \ {b}
      /\ then # rating <=> b \in DOMAIN rating
  <2>1. ZSet(rating, Scores)
    BY Before
  <2> QED
    BY <2>1, ZRemKeeps, ZenonT(60)
<1>3. pc \in Chosen /\ Held = {a}
  BY <1>1 DEF Chosen, Held
<1> HIDE DEF then
<1>4. Sets'
  BY <1>1, <1>2, Before DEF Sets
<1>5. CASE faults' = faults /\ rating' = then /\ b \in DOMAIN rating /\ Goto("takeB2")
  <2>1. Held' = {a, b} /\ pc' = "takeB2"
    BY <1>5 DEF Goto, Held, a
  <2>2. NobodyLost'
    BY <1>1, <1>2, <1>3, <1>5, <2>1, Before DEF NobodyLost
  <2>3. \A p \in Player : credit'[p] >= In(p, DOMAIN rating') + In(p, Held')
    BY <1>1, <1>2, <1>3, <1>5, <2>1, Before DEF In
  <2> QED
    BY <1>1, <1>3, <1>4, <1>5, <2>1, <2>2, <2>3, StaysTogether DEF Chosen
<1>6. CASE /\ faults' = faults + 1 \/ (faults' = faults /\ b \notin DOMAIN rating)
           /\ Goto("restore")
  <2>1. Held' = {a} /\ pc' = "restore"
    BY <1>6 DEF Goto, Held, a
  <2>2. NobodyLost'
    <3>1. faults' = 0 => rating' = rating /\ faults = 0
      BY <1>1, <1>2, <1>6, Before
    <3> QED
      BY <1>1, <1>3, <2>1, <3>1, Before DEF NobodyLost
  <2>3. \A p \in Player : credit'[p] >= In(p, DOMAIN rating') + In(p, Held')
    BY <1>1, <1>2, <1>3, <2>1, Before DEF In
  <2> QED
    BY <1>1, <1>3, <1>4, <1>6, <2>1, <2>2, <2>3, StaysTogether DEF Chosen
<1> QED
  BY <1>1, <1>5, <1>6

\* The pair uses up what the lock held for its two players.
LEMMA TakeB2Inv ==
    ASSUME MatchIInv, TakeB2
    PROVE  MatchIInv'
<1> DEFINE then == ZRem(time, b)
<1>1. /\ pc = "takeB2" /\ UNCHANGED <<rating, joining>>
      /\ time' = time \/ time' = then
      /\ faults' = faults \/ faults' = faults + 1
      /\ intent' = [p \in Player |-> IF p \in {a, b} THEN "matched" ELSE intent[p]]
      /\ credit' = [p \in Player |-> IF p \in {a, b} THEN credit[p] - 1 ELSE credit[p]]
      /\ Continue(paired \cup {a, b})
  BY DEF TakeB2, Works, Fails, Failed
<1>2. /\ ZSet(then, Stamps) /\ DOMAIN then = DOMAIN time \ {b}
      /\ \A q \in DOMAIN time \ {b} : then[q] = time[q]
  <2>1. ZSet(time, Stamps)
    BY Before
  <2> QED
    BY <2>1, ZRemKeeps, ZenonT(60)
<1>3. pc # "idle" /\ Held = {a, b} /\ b \in Player /\ paired \subseteq Player
  BY <1>1 DEF Held, MatchIInv, MatchInv, TypeOK, PassInv, Chosen
<1>4. paired \cup {a, b} \in SUBSET Player
  BY <1>3, Batched
<1> HIDE DEF then
<1>5. credit' \in [Player -> Int]
  BY <1>1, Before
<1>6. Sets'
  BY <1>1, <1>2, <1>5, Before DEF Sets
<1>7. Held' = {}
  BY <1>1, <1>3, <1>4, MovesOn
<1>8. NobodyLost'
  BY <1>1, <1>3, <1>7, Before DEF NobodyLost
<1>9. \A p \in Player : credit'[p] >= In(p, DOMAIN rating') + In(p, Held')
  BY <1>1, <1>3, <1>7, Before DEF In
<1>10. intent' \in [Player -> {"away", "queued", "matched", "left"}]
  BY <1>1, Before
<1>11. \A p \in DOMAIN time' : p \in DOMAIN time /\ time'[p] = time[p]
  BY <1>1, <1>2
<1> QED
  BY <1>1, <1>3, <1>4, <1>6, <1>8, <1>9, <1>10, <1>11, OnTogether

\* restore puts back what take had removed.
LEMMA RestoreInv ==
    ASSUME MatchIInv, Restore
    PROVE  MatchIInv'
<1> DEFINE then == ZAdd(rating, a, aScore)
<1>1. /\ pc = "restore" /\ UNCHANGED <<time, joining, intent, credit>>
      /\ rating' = rating \/ rating' = then
      /\ \/ faults' = faults /\ rating' = then /\ Goto("restore2")
         \/ faults' = faults + 1 /\ Continue(paired)
  BY DEF Restore, Works, Fails, Failed, clients
<1>2. /\ pc \in Chosen /\ pc # "idle" /\ Held = {a} /\ paired \in SUBSET Player
      /\ a \in Player /\ aScore \in Scores[a]
  BY <1>1, Batched DEF Chosen, Held, MatchIInv, MatchInv, TypeOK, PassInv
<1>3. /\ ZSet(then, Scores) /\ DOMAIN then = DOMAIN rating \cup {a}
  <2>1. ZSet(rating, Scores) /\ aScore \in Scores[a]
    BY <1>2, Before
  <2> QED
    BY <1>2, <2>1, ZAddKeeps
<1> HIDE DEF then
<1>4. Sets'
  BY <1>1, <1>3, Before DEF Sets
<1>5. CASE faults' = faults /\ rating' = then /\ Goto("restore2")
  <2>1. Held' = {} /\ pc' = "restore2"
    BY <1>5 DEF Goto, Held
  <2>2. NobodyLost'
    BY <1>1, <1>2, <1>3, <1>5, <2>1, Before DEF NobodyLost
  <2>3. \A p \in Player : credit'[p] >= In(p, DOMAIN rating') + In(p, Held')
    BY <1>1, <1>2, <1>3, <1>5, <2>1, Before DEF In
  <2> QED
    BY <1>1, <1>2, <1>4, <1>5, <2>1, <2>2, <2>3, StaysTogether DEF Chosen
<1>6. CASE faults' = faults + 1 /\ Continue(paired)
  <2>1. Held' = {}
    BY <1>2, <1>6, MovesOn
  <2>2. NobodyLost'
    BY <1>6, Before DEF NobodyLost
  <2>3. \A p \in Player : credit'[p] >= In(p, DOMAIN rating') + In(p, Held')
    BY <1>1, <1>2, <1>3, <2>1, Before DEF In
  <2>4. \A p \in DOMAIN time' : p \in DOMAIN time /\ time'[p] = time[p]
    BY <1>1
  <2> QED
    BY <1>1, <1>2, <1>4, <1>6, <2>2, <2>3, <2>4, Before, OnTogether
<1> QED
  BY <1>1, <1>5, <1>6

LEMMA Restore2Inv ==
    ASSUME MatchIInv, Restore2
    PROVE  MatchIInv'
<1> DEFINE then == ZAdd(time, a, Head(zs).age)
<1>1. /\ pc = "restore2" /\ UNCHANGED <<rating, joining, intent, credit>>
      /\ time' = time \/ time' = then
      /\ faults' = faults \/ faults' = faults + 1
      /\ Continue(paired)
  BY DEF Restore2, Works, Fails, Failed, clients
<1>2. /\ pc # "idle" /\ Held = {} /\ paired \in SUBSET Player
      /\ a \in Player /\ Head(zs).age \in Ages
  BY <1>1, Batched DEF Held, MatchIInv, MatchInv, TypeOK
<1>3. /\ ZSet(then, Stamps) /\ DOMAIN then = DOMAIN time \cup {a}
      /\ \A q \in DOMAIN time \cup {a} : then[q] = IF q = a THEN Head(zs).age ELSE time[q]
  <2>1. ZSet(time, Stamps) /\ Head(zs).age \in Stamps[a]
    BY <1>2, Before
  <2> QED
    BY <1>2, <2>1, ZAddKeeps
<1> HIDE DEF then
<1>4. Sets'
  BY <1>1, <1>3, Before DEF Sets
<1>5. Held' = {}
  BY <1>1, <1>2, MovesOn
<1>6. NobodyLost' /\ \A p \in Player : credit'[p] >= In(p, DOMAIN rating') + In(p, Held')
  BY <1>1, <1>2, <1>5, Before DEF NobodyLost
<1>7. \A p \in DOMAIN time' :
         \/ p \in DOMAIN time /\ time'[p] = time[p]
         \/ p = a /\ time'[p] = Head(zs).age
  BY <1>1, <1>3
<1> QED
  BY <1>1, <1>2, <1>4, <1>6, <1>7, Before, OnTogether

-----------------------------------------------------------------------------
(***************************************************************************)
(* Time and restarts.                                                      *)
(***************************************************************************)
LEMMA OlderGrows ==
    /\ \A x \in Ages : Older(x) \in Ages /\ x <= Older(x)
    /\ \A x, y \in Ages : x <= y => Older(x) <= Older(y)
BY MatchConstants DEF Older, Ages

\* What a tick does to the batch.
LEMMA TickBatch ==
    ASSUME MatchIInv, Tick
    PROVE  /\ zs' \in Seq(Entry) /\ Len(zs') = Len(zs) /\ DOMAIN zs' = DOMAIN zs
           /\ \A k \in DOMAIN zs : /\ zs[k] \in Entry /\ zs'[k].id = zs[k].id
                                   /\ zs'[k].age = Older(zs[k].age)
           /\ (zs' = <<>> <=> zs = <<>>)
           /\ pc # "idle" => a' = a /\ Head(zs').age = Older(Head(zs).age)
<1>1. zs \in Seq(Entry) /\ zs' = [k \in DOMAIN zs |-> [zs[k] EXCEPT !.age = Older(zs[k].age)]]
  BY DEF MatchIInv, MatchInv, TypeOK, Entry, Tick
<1>2. /\ Len(zs) \in Nat /\ DOMAIN zs = 1 .. Len(zs)
      /\ \A k \in DOMAIN zs : zs[k] \in Entry
  BY <1>1, ElementOfSeq
<1>3. \A k \in DOMAIN zs : /\ zs'[k] \in Entry /\ zs'[k].id = zs[k].id
                           /\ zs'[k].age = Older(zs[k].age)
  <2> TAKE k \in DOMAIN zs
  <2>1. zs[k] \in Entry /\ zs'[k] = [zs[k] EXCEPT !.age = Older(zs[k].age)]
    BY <1>1, <1>2
  <2>2. Older(zs[k].age) \in Ages
    BY <2>1, OlderGrows DEF Entry
  <2> QED
    BY <2>1, <2>2 DEF Entry
<1>4. zs' \in [1 .. Len(zs) -> Entry]
  BY <1>1, <1>2, <1>3
<1>5. zs' \in Seq(Entry) /\ Len(zs') = Len(zs)
  BY <1>2, <1>4, FunctionIsSeq
<1>6. DOMAIN zs' = DOMAIN zs
  BY <1>1
<1>7. zs' = <<>> <=> zs = <<>>
  <2>1. zs = <<>> <=> Len(zs) = 0
    BY <1>1, EmptySeq
  <2>2. zs' = <<>> <=> Len(zs') = 0
    BY <1>5, EmptySeq
  <2> QED
    BY <1>5, <2>1, <2>2
<1>8. pc # "idle" => a' = a /\ Head(zs').age = Older(Head(zs).age)
  <2> SUFFICES ASSUME pc # "idle"
               PROVE  a' = a /\ Head(zs').age = Older(Head(zs).age)
    OBVIOUS
  <2>1. zs # <<>> /\ Head(zs) = zs[1] /\ 1 \in DOMAIN zs
    BY Batched
  <2>2. Head(zs') = zs'[1]
    BY <1>5, <1>7, <2>1, HeadTailProperties
  <2> QED
    BY <1>3, <2>1, <2>2 DEF a
<1> QED
  BY <1>2, <1>3, <1>5, <1>6, <1>7, <1>8

LEMMA TickInv ==
    ASSUME MatchIInv, Tick
    PROVE  MatchIInv'
<1>1. /\ UNCHANGED <<rating, joining, intent, credit, pc, paired, aScore, b, bScore, calls, faults>>
      /\ time' = [p \in DOMAIN time |-> Older(time[p])]
  BY DEF Tick, clients, bounds
<1>2. /\ zs' \in Seq(Entry) /\ Len(zs') = Len(zs) /\ DOMAIN zs' = DOMAIN zs
      /\ \A k \in DOMAIN zs : /\ zs[k] \in Entry /\ zs'[k].id = zs[k].id
                              /\ zs'[k].age = Older(zs[k].age)
      /\ (zs' = <<>> <=> zs = <<>>)
      /\ pc # "idle" => a' = a
  BY TickBatch
<1>3. \A p \in DOMAIN time : time[p] \in Ages /\ time'[p] = Older(time[p])
  <2>1. \A p \in DOMAIN time : time[p] \in Ages
    BY DEF MatchIInv, MatchInv, TypeOK
  <2> QED
    BY <1>1, <2>1
<1>4. ZSet(time', Stamps)
  <2>1. DOMAIN time' = DOMAIN time /\ time' = [p \in DOMAIN time' |-> time'[p]]
    BY <1>1
  <2>2. \A p \in DOMAIN time' : time'[p] \in Ages
    BY <1>3, <2>1, OlderGrows
  <2> QED
    BY <2>1, <2>2, Before DEF ZSet, Stamps
<1>5. Held' = Held
  BY <1>1, <1>2 DEF Held
<1>6. PassInv'
  <2>1. (pc \in Chosen \cup {"range"} => aScore \in Scores[a])'
    BY <1>1, <1>2 DEF MatchIInv, PassInv, Chosen
  <2>2. ASSUME NEW k \in DOMAIN zs, zs[k].id \in DOMAIN time
        PROVE  time'[zs[k].id] <= Older(zs[k].age)
    <3>1. time[zs[k].id] <= zs[k].age
      BY <2>2 DEF MatchIInv, PassInv
    <3>2. zs[k].age \in Ages
      BY <1>2 DEF Entry
    <3> QED
      BY <1>3, <2>2, <3>1, <3>2, OlderGrows
  <2>3. DOMAIN time' = DOMAIN time
    BY <1>1
  <2>4. \A k \in DOMAIN zs' : zs'[k].id \in DOMAIN time' => time'[zs'[k].id] <= zs'[k].age
    BY <1>2, <2>2, <2>3
  <2>5. \A j, k \in DOMAIN zs' : zs'[j].id = zs'[k].id => zs'[j].age = zs'[k].age
    BY <1>2 DEF MatchIInv, PassInv
  <2> QED
    BY <1>1, <2>1, <2>4, <2>5 DEF MatchIInv, PassInv
<1> QED
  BY <1>1, <1>2, <1>4, <1>5, <1>6, LookInv DEF MatchIInv, MatchInv, TypeOK

\* The queue outlives a restart; whoever was held is lost to it.
LEMMA RestartInv ==
    ASSUME MatchIInv, Restart
    PROVE  MatchIInv'
<1>1. /\ UNCHANGED <<rating, time, intent, credit>>
      /\ faults' = faults + 1 /\ EndPass /\ joining' = [p \in Player |-> 0]
  BY DEF Restart, Fails, queue
<1>2. Sets'
  BY <1>1, Before DEF Sets
<1>3. /\ pc' = "idle" /\ zs' = <<>> /\ paired' = {} /\ b' = Nobody
  BY <1>1 DEF EndPass
<1>4. Held' = {}
  BY <1>3 DEF Held
<1>5. NobodyLost'
  BY <1>1, Before DEF NobodyLost
<1>6. \A p \in Player : credit'[p] >= In(p, DOMAIN rating') + In(p, Held')
  BY <1>1, <1>4, Before DEF In
<1>7. zs' \in Seq(Entry) /\ Len(zs') <= Batch /\ DOMAIN zs' = {}
  BY <1>3, MatchConstants
<1>8. PassInv'
  BY <1>3, <1>7 DEF PassInv, Chosen
<1> QED
  BY <1>1, <1>2, <1>3, <1>5, <1>6, <1>7, <1>8, Before, Together

LEMMA StepInv == MatchIInv /\ [Next]_vars => MatchIInv'
<1> SUFFICES ASSUME MatchIInv, [Next]_vars
             PROVE  MatchIInv'
  OBVIOUS
<1>1. CASE \E p \in Player : Enqueue(p) \/ JoinTime(p) \/ Leave(p)
  BY <1>1, EnqueueInv, JoinTimeInv, LeaveInv
<1>2. CASE MatchOnce
  BY <1>2, BeginInv, ReadScoreInv, ChooseOpponentInv, TakeAInv, TakeA2Inv, TakeBInv,
     TakeB2Inv, RestoreInv, Restore2Inv DEF MatchOnce
<1>3. CASE Tick \/ Restart
  BY <1>3, TickInv, RestartInv
<1>4. CASE UNCHANGED vars
  <2>1. /\ UNCHANGED <<rating, time, joining, intent, credit, pc, zs, paired, aScore, b,
                      faults>>
    BY <1>4 DEF vars, queue, clients, pass, bounds
  <2>2. PassInv' /\ Held' = Held
    BY <2>1 DEF MatchIInv, PassInv, Held, a
  <2> QED
    BY <2>1, <2>2, Before, LookInv DEF MatchIInv, MatchInv, TypeOK, Entry
<1> QED
  BY <1>1, <1>2, <1>3, <1>4 DEF Next

THEOREM MatchIInvariant == Spec => []MatchIInv
<1>1. Init => MatchIInv
  BY InitInv
<1>2. MatchIInv /\ [Next]_vars => MatchIInv'
  BY StepInv
<1> QED
  BY <1>1, <1>2, PTL DEF Spec

\* The matcher's books, and take as a lock: no entry of the queue serves two pairs,
\* through failures, restarts, restores and concurrent re-enqueues alike.
THEOREM MatchSafe == Spec => []MatchInv
<1>1. MatchIInv => MatchInv
  BY DEF MatchIInv
<1> QED
  BY <1>1, MatchIInvariant, PTL

\* take and restore: while no command fails, whoever waits is in the queue or in
\* the matcher's hands.
THEOREM NobodyIsLost == Spec => []NobodyLost
<1>1. MatchIInv => NobodyLost
  BY DEF MatchIInv
<1> QED
  BY <1>1, MatchIInvariant, PTL

-----------------------------------------------------------------------------
(***************************************************************************)
(* Seniority.                                                              *)
(***************************************************************************)
Stamp(p) == IF p \in DOMAIN time THEN time[p] ELSE 0


\* The same batch and command, and no time stamp set back.
LEMMA SamePass ==
    ASSUME MatchIInv, UNCHANGED <<pc, zs>>, NEW p \in Player,
           p \in DOMAIN time => p \in DOMAIN time' /\ time'[p] = time[p],
           p \in DOMAIN time' => time'[p] \in Ages
    PROVE  Seniority(p)' >= Seniority(p)
<1>1. a' = a
  BY DEF a
<1>2. CASE pc \in Holding /\ p = a
  <2>1. Head(zs).age \in Nat
    BY <1>2, Batched DEF Holding, Ages
  <2> QED
    BY <1>1, <1>2, <2>1 DEF Seniority, Holding
<1>3. CASE ~(pc \in Holding /\ p = a)
  <2>1. Seniority(p) = Stamp(p) /\ Seniority(p)' = Stamp(p)'
    BY <1>1, <1>3 DEF Seniority, Holding, Stamp
  <2>2. p \in DOMAIN time => time[p] \in Ages
    BY DEF MatchIInv, MatchInv, TypeOK
  <2> QED
    BY <2>1, <2>2 DEF Stamp, Ages
<1> QED
  BY <1>2, <1>3

\* Neither before nor after does the matcher hold a.
LEMMA NotHeld ==
    ASSUME MatchIInv, pc \notin Holding, pc' \notin Holding, NEW p \in Player,
           p \in DOMAIN time => p \in DOMAIN time' /\ time'[p] = time[p],
           p \in DOMAIN time' => time'[p] \in Ages
    PROVE  Seniority(p)' >= Seniority(p)
<1>1. Seniority(p) = Stamp(p) /\ Seniority(p)' = Stamp(p)'
  BY DEF Seniority, Holding, Stamp
<1>2. p \in DOMAIN time => time[p] \in Ages
  BY DEF MatchIInv, MatchInv, TypeOK
<1> QED
  BY <1>1, <1>2 DEF Stamp, Ages

LEMMA ClientsKeepSeniority ==
    ASSUME MatchIInv, faults' = 0, NEW q \in Player,
           Enqueue(q) \/ JoinTime(q) \/ Leave(q),
           NEW p \in Player, intent[p] = "queued", intent'[p] = "queued"
    PROVE  Seniority(p)' >= Seniority(p)
<1>1. pc' = pc /\ zs' = zs
  BY DEF Enqueue, JoinRating, JoinTime, Leave, pass
<1>2. \A r \in DOMAIN time' : time'[r] \in Ages
  BY StepInv DEF Next, MatchIInv, MatchInv, TypeOK
<1>3. p \in DOMAIN time => p \in DOMAIN time' /\ time'[p] = time[p]
  <2> SUFFICES ASSUME p \in DOMAIN time
               PROVE  p \in DOMAIN time' /\ time'[p] = time[p]
    OBVIOUS
  <2>1. CASE Enqueue(q)
    BY <2>1 DEF Enqueue, JoinRating
  <2>2. CASE JoinTime(q)
    <3>1. ZSet(time, Stamps) /\ 0 \in Stamps[q]
      BY Before
    <3>2. /\ DOMAIN ZAddNX(time, q, 0) = DOMAIN time \cup {q}
          /\ ZAddNX(time, q, 0)[p] = time[p]
      BY <3>1, ZAddNXKeeps
    <3> QED
      BY <2>2, <3>2 DEF JoinTime, Failed
  <2>3. CASE Leave(q)
    <3>1. faults \in Nat /\ faults + 1 # 0
      BY Before
    <3>2. time' = ZRem(time, q) /\ intent' = [intent EXCEPT ![q] = "left"]
      BY <2>3, <3>1 DEF Leave, Works, Fails
    <3>3. p # q
      BY <3>2, Before
    <3>4. ZSet(time, Stamps)
      BY Before
    <3>5. /\ DOMAIN ZRem(time, q) = DOMAIN time \ {q}
          /\ \A r \in DOMAIN time \ {q} : ZRem(time, q)[r] = time[r]
      BY <3>4, ZRemKeeps, ZenonT(60)
    <3> QED
      BY <3>2, <3>3, <3>5
  <2> QED
    BY <2>1, <2>2, <2>3
<1> QED
  BY <1>1, <1>2, <1>3, SamePass

LEMMA TakesKeepSeniority ==
    ASSUME MatchIInv, faults' = 0, TakeA \/ TakeA2 \/ TakeB \/ TakeB2,
           NEW p \in Player, intent[p] = "queued", intent'[p] = "queued"
    PROVE  Seniority(p)' >= Seniority(p)
<1>1. pc # "idle" /\ pc \in Chosen
  BY DEF TakeA, TakeA2, TakeB, TakeB2, Chosen
<1>2. /\ Head(zs).age \in Nat /\ Head(zs) = zs[1] /\ 1 \in DOMAIN zs /\ a = zs[1].id
      /\ a \in Player
  BY <1>1, Batched DEF Ages, a
<1>3. \A r \in DOMAIN time : time[r] \in Nat
  BY DEF MatchIInv, MatchInv, TypeOK, Ages
<1>4. faults \in Nat /\ faults + 1 # 0 /\ ZSet(time, Stamps)
  BY Before
<1>5. ZSet(time, Stamps)
  BY <1>4
<1>6. CASE TakeA
  <2>1. pc = "takeA" /\ time' = time
    BY <1>6 DEF TakeA
  <2>2. CASE Goto("takeA2")
    <3>1. pc' = "takeA2" /\ zs' = zs /\ a' = a
      BY <2>2 DEF Goto, a
    <3>2. CASE p = a
      <4>1. Seniority(p)' = Head(zs).age
        BY <3>1, <3>2 DEF Seniority
      <4>2. Seniority(p) = Stamp(p)
        BY <2>1 DEF Seniority, Stamp
      <4>3. p \in DOMAIN time => time[p] <= Head(zs).age
        BY <1>2, <3>2 DEF MatchIInv, PassInv
      <4> QED
        BY <1>2, <1>3, <4>1, <4>2, <4>3 DEF Stamp
    <3>3. CASE p # a
      <4>1. Seniority(p)' = Stamp(p)' /\ Seniority(p) = Stamp(p) /\ Stamp(p)' = Stamp(p)
        BY <2>1, <3>1, <3>3 DEF Seniority, Stamp
      <4> QED
        BY <1>3, <4>1 DEF Stamp
    <3> QED
      BY <3>2, <3>3
  <2>3. CASE ~Goto("takeA2")
    <3>1. Continue(paired) \/ EndPass
      BY <1>6, <2>3 DEF TakeA
    <3>2. paired \in SUBSET Player
      BY DEF MatchIInv, MatchInv, TypeOK
    <3>3. pc' \in {"idle", "score"}
      BY <1>1, <3>1, <3>2, MovesOn
    <3> QED
      BY <1>3, <2>1, <3>3, NotHeld DEF Holding, MatchIInv, MatchInv, TypeOK
  <2> QED
    BY <2>2, <2>3
<1>7. CASE TakeA2 \/ TakeB
  <2>1. /\ pc \in Holding /\ pc' \in Holding /\ zs' = zs /\ a' = a
        /\ time' = time \/ time' = ZRem(time, a)
    BY <1>7 DEF TakeA2, TakeB, Goto, AfterTakeB, Failed, Holding, a
  <2>2. CASE p = a
    <3>1. Seniority(p)' = Head(zs).age /\ Seniority(p) = Head(zs).age
      BY <2>1, <2>2 DEF Seniority, Holding
    <3> QED
      BY <1>2, <3>1
  <2>3. CASE p # a
    <3>1. Seniority(p)' = Stamp(p)' /\ Seniority(p) = Stamp(p)
      BY <2>1, <2>3 DEF Seniority, Stamp
    <3>2. /\ DOMAIN ZRem(time, a) = DOMAIN time \ {a}
          /\ \A r \in DOMAIN time \ {a} : ZRem(time, a)[r] = time[r]
      BY <1>5, ZRemKeeps, ZenonT(60)
    <3>3. Stamp(p)' = Stamp(p)
      BY <2>1, <2>3, <3>2 DEF Stamp
    <3> QED
      BY <1>3, <3>1, <3>3 DEF Stamp
  <2> QED
    BY <2>2, <2>3
<1>8. CASE TakeB2
  <2>1. /\ pc = "takeB2" /\ b \in Player /\ paired \subseteq Player
        /\ intent' = [q \in Player |-> IF q \in {a, b} THEN "matched" ELSE intent[q]]
        /\ Continue(paired \cup {a, b})
        /\ time' = time \/ time' = ZRem(time, b)
    BY <1>1, <1>8 DEF TakeB2, Failed, MatchIInv, MatchInv, TypeOK, PassInv
  <2>2. p # a /\ p # b
    BY <2>1
  <2>3. pc' \in {"idle", "score"}
    BY <1>1, <1>2, <2>1, MovesOn
  <2>4. Seniority(p)' = Stamp(p)' /\ Seniority(p) = Stamp(p)
    BY <2>2, <2>3 DEF Seniority, Stamp
  <2>5. /\ DOMAIN ZRem(time, b) = DOMAIN time \ {b}
        /\ \A r \in DOMAIN time \ {b} : ZRem(time, b)[r] = time[r]
    BY <1>5, ZRemKeeps, ZenonT(60)
  <2>6. Stamp(p)' = Stamp(p)
    BY <2>1, <2>2, <2>5 DEF Stamp
  <2> QED
    BY <1>3, <2>4, <2>6 DEF Stamp
<1> QED
  BY <1>6, <1>7, <1>8

LEMMA RestoreKeepsSeniority ==
    ASSUME MatchIInv, faults' = 0, Restore \/ Restore2, NEW p \in Player
    PROVE  Seniority(p)' >= Seniority(p)
<1>1. pc # "idle" /\ pc \in Chosen /\ pc \in Holding
  BY DEF Restore, Restore2, Chosen, Holding
<1>2. Head(zs).age \in Nat /\ a \in Player /\ Head(zs).age \in Ages
  BY <1>1, Batched DEF Ages
<1>3. \A r \in DOMAIN time : time[r] \in Nat
  BY DEF MatchIInv, MatchInv, TypeOK, Ages
<1>4. faults \in Nat /\ faults + 1 # 0 /\ ZSet(time, Stamps) /\ Stamps[a] = Ages
  BY <1>2, Before
<1>5. CASE Restore
  <2>1. pc' = "restore2" /\ zs' = zs /\ time' = time /\ a' = a
    BY <1>4, <1>5 DEF Restore, Works, Failed, Fails, Goto, a
  <2>2. Seniority(p)' = Seniority(p)
    BY <1>1, <2>1 DEF Seniority, Holding
  <2>3. Seniority(p) \in Nat
    BY <1>2, <1>3 DEF Seniority
  <2> QED
    BY <2>2, <2>3
<1>6. CASE Restore2
  <2>1. time' = ZAdd(time, a, Head(zs).age) /\ Continue(paired)
    BY <1>4, <1>6 DEF Restore2, Works, Failed, Fails
  <2>2. paired \in SUBSET Player
    BY DEF MatchIInv, MatchInv, TypeOK
  <2>3. pc' \in {"idle", "score"}
    BY <1>1, <2>1, <2>2, MovesOn
  <2>4. /\ DOMAIN time' = DOMAIN time \cup {a}
        /\ \A q \in DOMAIN time \cup {a} :
              time'[q] = IF q = a THEN Head(zs).age ELSE time[q]
    BY <2>1 DEF ZAdd
  <2>5. Seniority(p)' = Stamp(p)'
    BY <2>3 DEF Seniority, Stamp
  <2>6. CASE p = a
    BY <1>1, <1>2, <2>4, <2>5, <2>6 DEF Seniority, Stamp, Holding
  <2>7. CASE p # a
    BY <1>3, <2>4, <2>5, <2>7 DEF Seniority, Stamp
  <2> QED
    BY <2>6, <2>7
<1> QED
  BY <1>5, <1>6

LEMMA TickKeepsSeniority ==
    ASSUME MatchIInv, Tick, NEW p \in Player
    PROVE  Seniority(p)' >= Seniority(p)
<1>1. pc' = pc /\ time' = [q \in DOMAIN time |-> Older(time[q])]
  BY DEF Tick
<1>2. pc # "idle" => /\ a' = a /\ Head(zs').age = Older(Head(zs).age)
                     /\ Head(zs).age \in Ages
  BY TickBatch, Batched
<1>3. \A q \in DOMAIN time : time[q] \in Ages /\ time'[q] = Older(time[q])
  BY <1>1 DEF MatchIInv, MatchInv, TypeOK
<1>4. \A x \in Ages : x \in Nat /\ Older(x) \in Nat /\ Older(x) >= x
  BY OlderGrows DEF Ages
<1>5. CASE pc \in Holding /\ p = a
  BY <1>1, <1>2, <1>4, <1>5 DEF Seniority, Holding
<1>6. CASE ~(pc \in Holding /\ p = a)
  <2>1. Seniority(p) = Stamp(p) /\ Seniority(p)' = Stamp(p)'
    BY <1>1, <1>2, <1>6 DEF Seniority, Holding, Stamp
  <2>2. DOMAIN time' = DOMAIN time
    BY <1>1
  <2> QED
    BY <1>3, <1>4, <2>1, <2>2 DEF Stamp
<1> QED
  BY <1>5, <1>6

LEMMA SeniorityStep ==
    MatchIInv /\ [Next]_vars =>
        [faults' = 0 => \A p \in Player :
            intent[p] = "queued" /\ intent'[p] = "queued" =>
                Seniority(p)' >= Seniority(p)]_vars
<1> SUFFICES ASSUME MatchIInv, [Next]_vars, faults' = 0, NEW p \in Player,
                    intent[p] = "queued", intent'[p] = "queued", vars' # vars
             PROVE  Seniority(p)' >= Seniority(p)
  OBVIOUS
<1>1. CASE \E q \in Player : Enqueue(q) \/ JoinTime(q) \/ Leave(q)
  BY <1>1, ClientsKeepSeniority
<1>2. CASE Begin \/ ReadScore \/ ChooseOpponent
  <2>1. /\ time' = time /\ pc \in {"idle", "score", "range"}
        /\ pc' \in {"idle", "score", "range", "takeA"}
    BY <1>2 DEF Begin, ReadScore, ChooseOpponent, queue, pass, Continue, EndPass
  <2>2. p \in DOMAIN time => time[p] \in Ages
    BY DEF MatchIInv, MatchInv, TypeOK
  <2> QED
    BY <2>1, <2>2, NotHeld DEF Holding
<1>3. CASE TakeA \/ TakeA2 \/ TakeB \/ TakeB2
  BY <1>3, TakesKeepSeniority
<1>4. CASE Restore \/ Restore2
  BY <1>4, RestoreKeepsSeniority
<1>5. CASE Tick
  BY <1>5, TickKeepsSeniority
<1>6. CASE Restart
  <2>1. faults \in Nat /\ faults' = faults + 1
    BY <1>6, Before DEF Restart, Fails
  <2> QED
    BY <2>1
<1> QED
  BY <1>1, <1>2, <1>3, <1>4, <1>5, <1>6 DEF Next, MatchOnce

\* Join (NX) and restore: as long as a player is waiting and no command has failed,
\* neither another enqueue nor a match that fell through takes away the waiting
\* time that widens his window.
THEOREM SeniorityIsKept == Spec => SeniorityKept
<1>1. MatchIInv /\ [Next]_vars =>
        [faults' = 0 => \A p \in Player :
            intent[p] = "queued" /\ intent'[p] = "queued" =>
                Seniority(p)' >= Seniority(p)]_vars
  BY SeniorityStep
<1> QED
  BY <1>1, MatchIInvariant, PTL DEF Spec, SeniorityKept

-----------------------------------------------------------------------------
(***************************************************************************)
(* The promise.  From the choice of the opponent on, a and b are two       *)
(* players who may be paired; that both are held when OnMatch is called is *)
(* what pays for the pair.                                                 *)
(***************************************************************************)
Compatible == pc \in Chosen => b # a /\ bScore - aScore \in -MaxWindow .. MaxWindow

LEMMA InitCompatible == Init => Compatible
  BY DEF Init, Compatible, Chosen

\* The window never exceeds MaxWindow.
LEMMA WindowIsCapped == \A waited \in Ages : Window(waited) \in 0 .. MaxWindow
<1> SUFFICES ASSUME NEW waited \in Ages PROVE Window(waited) \in 0 .. MaxWindow
  OBVIOUS
<1> DEFINE w == WidenPerSec * waited
<1>1. waited \in Nat /\ BaseWindow \in Nat /\ WidenPerSec \in Nat /\ MaxWindow \in Nat
  BY MatchConstants DEF Ages
<1>2. w \in Nat
  BY <1>1
<1> HIDE DEF w
<1>3. BaseWindow + w > MaxWindow \/ BaseWindow + w \in 0 .. MaxWindow
  BY <1>1, <1>2
<1> QED
  BY <1>1, <1>3 DEF Window, w

LEMMA CompatibleStep == MatchIInv /\ Compatible /\ [Next]_vars => Compatible'
<1> SUFFICES ASSUME MatchIInv, Compatible, [Next]_vars
             PROVE  Compatible'
  OBVIOUS
<1>1. CASE UNCHANGED pass
  BY <1>1 DEF pass, Compatible, a
<1>2. CASE ChooseOpponent
  <2>1. CASE EndPass \/ Continue(paired)
    BY <2>1 DEF EndPass, Continue, Compatible, Chosen
  <2>2. CASE ~EndPass /\ ~Continue(paired)
    <3>1. /\ UNCHANGED zs /\ b' \in DOMAIN rating /\ InWindow(b') /\ b' # a
      BY <1>2, <2>2, OpponentListed
    <3>2. /\ aScore \in Scores[a] /\ rating[b'] \in Scores[b']
          /\ b' \in Player /\ a \in Player
      BY <1>2, <3>1, Batched DEF ChooseOpponent, MatchIInv, MatchInv, TypeOK, PassInv
    <3> DEFINE w == Window(Head(zs).waited)
    <3>3. w \in 0 .. MaxWindow
      <4>1. Head(zs) \in Entry
        BY <1>2, Batched DEF ChooseOpponent
      <4> QED
        BY <4>1, WindowIsCapped DEF Entry
    <3>4. rating[b'] \in aScore - w .. aScore + w
      BY <3>1 DEF InWindow
    <3> HIDE DEF w
    <3>5. aScore \in Int /\ rating[b'] \in Int /\ MaxWindow \in Nat
      BY <3>2, MatchConstants
    <3>6. rating[b'] - aScore \in -MaxWindow .. MaxWindow
      BY <3>3, <3>4, <3>5
    <3>8. bScore' = rating[b'] /\ aScore' = aScore
      BY <1>2, <2>2, OpponentListed
    <3>7. a' = a
      BY <3>1 DEF a
    <3> QED
      BY <3>1, <3>6, <3>7, <3>8 DEF Compatible
  <2> QED
    BY <2>1, <2>2
<1>3. CASE Begin \/ ReadScore
  BY <1>1, <1>3 DEF Begin, ReadScore, Continue, EndPass, Compatible, Chosen, pass
<1>4. CASE TakeA \/ TakeA2 \/ TakeB \/ TakeB2 \/ Restore \/ Restore2
  <2>1. \/ UNCHANGED <<zs, b, aScore, bScore>> /\ pc \in Chosen
        \/ pc' \in {"idle", "score"}
    BY <1>4 DEF TakeA, TakeA2, TakeB, TakeB2, Restore, Restore2, AfterTakeB, Goto,
                Continue, EndPass, Chosen
  <2> QED
    BY <2>1 DEF Compatible, Chosen, a
<1>5. CASE Tick
  <2>1. UNCHANGED <<pc, b, aScore, bScore>> /\ (pc # "idle" => a' = a)
    BY <1>5, TickBatch DEF Tick
  <2> QED
    BY <2>1 DEF Compatible, Chosen
<1>6. CASE Restart
  BY <1>6 DEF Restart, EndPass, Compatible, Chosen
<1>7. CASE \E p \in Player : Enqueue(p) \/ JoinTime(p) \/ Leave(p)
  BY <1>1, <1>7 DEF Enqueue, JoinRating, JoinTime, Leave
<1>8. CASE UNCHANGED vars
  BY <1>1, <1>8 DEF vars
<1> QED
  BY <1>2, <1>3, <1>4, <1>5, <1>6, <1>7, <1>8 DEF Next, MatchOnce

Told == {p \in Player : intent[p] = "matched"}

\* What the matcher has seen, command by command.
LEMMA SeenIs ==
    ASSUME MatchIInv, Compatible
    PROVE  /\ pc \in {"idle", "score"} => Seen = Promise!None
           /\ pc = "range" => DOMAIN Seen = {a} /\ Seen[a] = aScore
           /\ pc \in Chosen => /\ DOMAIN Seen = {a, b} /\ a # b
                              /\ Seen[a] = aScore /\ Seen[b] = bScore
BY DEF Seen, Promise!None, Compatible, Chosen

LEMMA NothingSeen ==
    ASSUME pc' \in {"idle", "score"}
    PROVE  Seen' = Promise!None
BY DEF Seen, Promise!None

LEMMA SameSeen ==
    ASSUME UNCHANGED <<aScore, b, bScore>>, pc # "idle" => a' = a,
           pc' = pc \/ (pc \in Chosen /\ pc' \in Chosen)
    PROVE  Seen' = Seen
BY DEF Seen, Chosen

\* A command of the matcher that has taken it further with the same player.
LEMMA StillSeen ==
    ASSUME pc \in Chosen, pc' \in Chosen, UNCHANGED <<zs, aScore, b, bScore>>
    PROVE  Seen' = Seen
BY SameSeen DEF a

\* A step that leaves the queue and what is said of it alone.
LEMMA Unheard ==
    ASSUME UNCHANGED <<rating, intent, credit>>, Seen' \in {Seen, Promise!None}
    PROVE  Promise!GiveUp
BY DEF Promise!GiveUp, Promise!Forgets

\* A call of p changes nobody else's entries or what they were told.
LEMMA CallAnswers ==
    ASSUME MatchIInv, NEW p \in Player, NEW word \in {"queued", "left"},
           intent' = intent \/ intent' = [intent EXCEPT ![p] = word]
    PROVE  Told' \in {Told, Told \ {p}}
<1>1. intent \in [Player -> {"away", "queued", "matched", "left"}]
  BY Before
<1>2. CASE intent' = intent
  BY <1>2 DEF Told
<1>3. CASE intent' = [intent EXCEPT ![p] = word]
  BY <1>1, <1>3 DEF Told
<1> QED
  BY <1>2, <1>3

LEMMA JoinEnqueues ==
    ASSUME MatchIInv, NEW p \in Player, Enqueue(p)
    PROVE  \/ \E s \in Scores[p] : Promise!Enqueue(p, s)
           \/ Promise!NothingNew(p)
<1>1. PICK score \in Scores[p] : JoinRating(p, score)
  BY DEF Enqueue
<1>2. /\ intent' = intent \/ intent' = [intent EXCEPT ![p] = "queued"]
      /\ rating' = rating \/ rating' = ZAddNX(rating, p, score)
      /\ credit' = IF rating' # rating THEN [credit EXCEPT ![p] = credit[p] + 1] ELSE credit
      /\ UNCHANGED pass
  BY <1>1 DEF JoinRating, Failed
<1>3. Told' \in {Told, Told \ {p}} /\ Seen' = Seen
  BY <1>2, CallAnswers, SameSeen DEF pass, a
<1>4. Promise!Answers(p)
  BY <1>3 DEF Promise!Answers, Told
<1>5. CASE rating' = rating
  BY <1>2, <1>4, <1>5 DEF Promise!NothingNew
<1>6. CASE rating' # rating
  <2>1. p \notin DOMAIN rating /\ rating' = Promise!With(rating, p, score)
    BY <1>2, <1>6 DEF ZAddNX, ZAdd, Promise!With
  <2>2. Promise!Enqueue(p, score)
    BY <1>2, <1>4, <1>6, <2>1 DEF Promise!Enqueue
  <2> QED
    BY <2>2
<1> QED
  BY <1>5, <1>6

\* Leave takes back an entry that is there.
LEMMA LeaveWithdraws ==
    ASSUME MatchIInv, NEW p \in Player, Leave(p)
    PROVE  Promise!Withdraw(p) \/ Promise!NothingNew(p)
<1>1. /\ intent' = intent \/ intent' = [intent EXCEPT ![p] = "left"]
      /\ rating' = rating \/ rating' = ZRem(rating, p)
      /\ credit' = IF rating' # rating THEN [credit EXCEPT ![p] = credit[p] - 1] ELSE credit
      /\ UNCHANGED pass
  BY DEF Leave, queue
<1>2. Told' \in {Told, Told \ {p}} /\ Seen' = Seen
  BY <1>1, CallAnswers, SameSeen DEF pass, a
<1>3. Promise!Answers(p)
  BY <1>2 DEF Promise!Answers, Told
<1>4. CASE rating' = rating
  BY <1>1, <1>3, <1>4 DEF Promise!NothingNew
<1>5. CASE rating' # rating
  <2>1. p \in DOMAIN rating
    BY <1>1, <1>5, Before, ZRemKeeps
  <2>2. credit[p] > 0
    BY <2>1, Before DEF In
  <2> QED
    BY <1>1, <1>3, <1>5, <2>1, <2>2 DEF Promise!Withdraw, Promise!Without, ZRem
<1> QED
  BY <1>4, <1>5

\* ZSCORE and ZRANGE: a score is seen while the player is in the queue with it.
LEMMA ReadsLook ==
    ASSUME MatchIInv, Compatible, Compatible', ReadScore \/ ChooseOpponent
    PROVE  (\E p \in Player : Promise!Look(p)) \/ Promise!GiveUp
<1>1. UNCHANGED <<rating, intent, credit>> /\ Told' = Told
  BY DEF ReadScore, ChooseOpponent, queue, clients, Told
<1>2. a \in Player
  BY Batched DEF ReadScore, ChooseOpponent
<1>3. CASE pc' \in {"idle", "score"}
  BY <1>1, <1>3, NothingSeen, Unheard
<1>4. CASE ReadScore /\ pc' \notin {"idle", "score"}
  <2>1. /\ pc = "score" /\ a \in DOMAIN rating /\ aScore' = rating[a] /\ pc' = "range"
        /\ zs' = zs /\ a' = a
    BY <1>4 DEF ReadScore, Continue, EndPass, a
  <2>2. Seen = Promise!None
    BY <2>1, SeenIs
  <2>3. Seen' = Promise!With(Seen, a, rating[a])
    BY <2>1, <2>2 DEF Seen, Promise!None, Promise!With
  <2>4. Promise!Look(a)
    BY <1>1, <2>1, <2>2, <2>3 DEF Promise!Look, Promise!None, Told
  <2> QED
    BY <1>2, <2>4
<1>5. CASE ChooseOpponent /\ pc' \notin {"idle", "score"}
  <2>1. /\ b' \in DOMAIN rating /\ b' # a /\ bScore' = rating[b']
        /\ aScore' = aScore /\ zs' = zs /\ pc' = "takeA"
    BY <1>5, OpponentListed DEF Continue, EndPass
  <2>2. pc = "range" /\ b' \in Player /\ a' = a
    BY <1>5, <2>1, Before DEF ChooseOpponent, ZSet, a
  <2>3. DOMAIN Seen = {a} /\ Seen[a] = aScore
    BY <2>2, SeenIs
  <2>4. Seen' = [p \in {a, b'} |-> IF p = a THEN aScore ELSE rating[b']]
    BY <2>1, <2>2 DEF Seen
  <2>5. Seen' = Promise!With(Seen, b', rating[b'])
    BY <2>1, <2>3, <2>4 DEF Promise!With
  <2>6. Promise!Look(b')
    BY <1>1, <2>1, <2>3, <2>5 DEF Promise!Look, Told
  <2> QED
    BY <2>2, <2>6
<1> QED
  BY <1>3, <1>4, <1>5

\* The first commands of take and restore, which may fail and yet be executed.
LEMMA TakesAndRestores ==
    ASSUME MatchIInv, Compatible, Compatible', TakeA \/ TakeB \/ Restore
    PROVE  (\E p \in Player : Promise!Take(p) \/ Promise!PutBack(p)) \/ Promise!GiveUp
<1>1. /\ UNCHANGED <<intent, credit>> /\ Told' = Told /\ pc \in Chosen
      /\ pc' \in {"idle", "score"} \/ (pc' \in Chosen /\ UNCHANGED <<zs, aScore, b, bScore>>)
  BY DEF TakeA, TakeB, Restore, clients, Told, AfterTakeB, Goto, Continue, EndPass, Chosen
<1>2. /\ a \in Player /\ b \in Player /\ DOMAIN Seen = {a, b} /\ a # b /\ Seen[a] = aScore
  BY <1>1, Batched, SeenIs DEF MatchIInv, PassInv, Chosen
<1>3. Seen' \in {Seen, Promise!None}
  BY <1>1, NothingSeen, StillSeen
<1>4. CASE rating' = rating
  BY <1>1, <1>3, <1>4, Unheard
<1>5. CASE TakeA /\ rating' # rating
  <2>1. rating' = Promise!Without(rating, a)
    BY <1>5 DEF TakeA, Failed, Promise!Without, ZRem
  <2>2. Promise!Take(a)
    BY <1>1, <1>2, <1>3, <2>1 DEF Promise!Take, Promise!Forgets, Told
  <2> QED
    BY <1>2, <2>2
<1>6. CASE TakeB /\ rating' # rating
  <2>1. rating' = Promise!Without(rating, b)
    BY <1>6 DEF TakeB, Failed, Promise!Without, ZRem
  <2>2. Promise!Take(b)
    BY <1>1, <1>2, <1>3, <2>1 DEF Promise!Take, Promise!Forgets, Told
  <2> QED
    BY <1>2, <2>2
<1>7. CASE Restore /\ rating' # rating
  <2>1. rating' = Promise!With(rating, a, Seen[a])
    BY <1>2, <1>7 DEF Restore, Failed, Promise!With, ZAdd
  <2>2. credit[a] > 0
    <3>1. a \in Held
      BY <1>7 DEF Restore, Held
    <3> QED
      BY <1>2, <3>1, Before DEF In
  <2>3. Promise!PutBack(a)
    BY <1>1, <1>2, <1>3, <2>1, <2>2 DEF Promise!PutBack, Promise!Forgets, Told
  <2> QED
    BY <1>2, <2>3
<1> QED
  BY <1>4, <1>5, <1>6, <1>7

\* OnMatch: the matcher holds both, so both have paid.
LEMMA TakeB2Pairs ==
    ASSUME MatchIInv, Compatible, TakeB2
    PROVE  Promise!Pair(a, b)
<1>1. /\ pc = "takeB2" /\ UNCHANGED rating
      /\ intent' = [p \in Player |-> IF p \in {a, b} THEN "matched" ELSE intent[p]]
      /\ credit' = [p \in Player |-> IF p \in {a, b} THEN credit[p] - 1 ELSE credit[p]]
      /\ pc' \in {"idle", "score"}
  BY DEF TakeB2, Continue, EndPass
<1>2. a \in Player /\ b \in Player /\ a # b /\ Held = {a, b}
  BY <1>1, Batched DEF Held, MatchIInv, PassInv, Chosen, Compatible
<1>3. /\ DOMAIN Seen = {a, b} /\ Seen[b] - Seen[a] \in -MaxWindow .. MaxWindow
      /\ Seen' = Promise!None
  BY <1>1, SeenIs, NothingSeen DEF Chosen, Compatible
<1>4. credit[a] > 0 /\ credit[b] > 0
  BY <1>2, Before DEF In
<1>5. Told' = Told \cup {a, b}
  BY <1>1, <1>2 DEF Told
<1> QED
  BY <1>1, <1>2, <1>3, <1>4, <1>5 DEF Promise!Pair, Promise!Near, Told

LEMMA PromiseStep ==
    MatchIInv /\ Compatible /\ [Next]_vars => [Promise!Next]_(Promise!queueVars)
<1> SUFFICES ASSUME MatchIInv, Compatible, [Next]_vars
             PROVE  Promise!Next \/ UNCHANGED Promise!queueVars
  OBVIOUS
<1>0. Compatible'
  BY CompatibleStep
<1>1. CASE \E p \in Player : Enqueue(p) \/ Leave(p)
  BY <1>1, JoinEnqueues, LeaveWithdraws DEF Promise!Next
<1>2. CASE TakeB2
  <2>1. a \in Player /\ b \in Player
    BY <1>2, Batched DEF TakeB2, MatchIInv, PassInv, Chosen
  <2>2. Promise!Pair(a, b)
    BY <1>2, TakeB2Pairs
  <2>3. \E p, q \in Player : Promise!Pair(p, q)
    BY <2>1, <2>2 DEF Promise!Pair, Promise!Near
  <2> QED
    BY <2>3 DEF Promise!Next
<1>3. CASE ReadScore \/ ChooseOpponent
  BY <1>0, <1>3, ReadsLook DEF Promise!Next
<1>4. CASE TakeA \/ TakeB \/ Restore
  BY <1>0, <1>4, TakesAndRestores DEF Promise!Next
<1>5. CASE UNCHANGED pass /\ UNCHANGED <<rating, intent, credit>>
  <2>1. Seen' = Seen
    BY <1>5, SameSeen DEF pass, a
  <2> QED
    BY <1>5, <2>1, Unheard DEF Promise!Next
<1>6. CASE \E p \in Player : JoinTime(p)
  BY <1>5, <1>6 DEF JoinTime
<1>7. CASE Begin \/ TakeA2 \/ Restore2
  <2>1. /\ UNCHANGED <<rating, intent, credit>>
        /\ UNCHANGED pass \/ pc' \in {"idle", "score"}
             \/ (pc \in Chosen /\ pc' \in Chosen /\ UNCHANGED <<zs, aScore, b, bScore>>)
    BY <1>7 DEF Begin, TakeA2, Restore2, queue, clients, Goto, Continue, EndPass, Chosen
  <2> QED
    BY <1>5, <2>1, NothingSeen, StillSeen, Unheard DEF Promise!Next
<1>8. CASE Tick
  <2>1. /\ UNCHANGED <<rating, intent, credit, pc, aScore, b, bScore>>
        /\ pc # "idle" => a' = a
    BY <1>8, TickBatch DEF Tick, clients
  <2> QED
    BY <2>1, SameSeen, Unheard DEF Promise!Next
<1>9. CASE Restart
  BY <1>9, NothingSeen, Unheard DEF Restart, EndPass, queue, Promise!Next
<1>10. CASE UNCHANGED vars
  BY <1>5, <1>10 DEF vars, queue, clients
<1> QED
  BY <1>1, <1>2, <1>3, <1>4, <1>6, <1>7, <1>8, <1>9, <1>10 DEF Next, MatchOnce

\* matchOnce on two Redis sets, with calls in between its commands, failures and
\* restarts, does what the queue promises: two players are told only together,
\* only if they were found in the queue, in one pass, under scores no further
\* apart than MaxWindow, and each for an entry of his own; and who is put back is
\* put back with the score he was found with.
THEOREM MatchKeepsItsPromise == Spec => QueueSpec
<1>1. Init => Promise!Init
  BY DEF Init, Promise!Init, Promise!None, Seen
<1>2. Init => Compatible
  BY InitCompatible
<1>3. MatchIInv /\ Compatible /\ [Next]_vars => Compatible'
  BY CompatibleStep
<1>4. MatchIInv /\ Compatible /\ [Next]_vars => [Promise!Next]_(Promise!queueVars)
  BY PromiseStep
<1> QED
  BY <1>1, <1>2, <1>3, <1>4, MatchIInvariant, PTL DEF Spec, QueueSpec, Promise!Spec

=============================================================================
