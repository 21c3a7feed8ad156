-------------------------- MODULE Reservations_proofs ------------------------
(***************************************************************************)
(* Proofs about GPU reservations, for every machine, every set of users,   *)
(* offers and jobs, and any ticks of the clock between any two steps.      *)
(***************************************************************************)
EXTENDS Reservations, FiniteSetTheorems, WellFoundedInduction, TLAPS

(* A set of reservations the machine can honour at one instant.  *)
CanHonour(R) ==
    /\ \A r, q \in R : r # q => r.spec.gpus \cap q.spec.gpus = {}
    /\ Cardinality(IndicesOf(R)) + CountOf(R) <= Cardinality(Gpus)

(* The table: ids are given out in order, the status says who was cancelled, nothing
   that ended is kept, and what is active has begun.  *)
BooksSound ==
    /\ IsFiniteSet(reservations)
    /\ cancelled \subseteq 1 .. next_id - 1
    /\ \A r \in reservations :
          /\ 1 <= r.id /\ r.id < next_id
          /\ r.status \in {"Pending", "Active", "Cancelled"}
          /\ r.status = "Cancelled" <=> r.id \in cancelled
          /\ r.status = "Active" => r.start <= now

(* What was accepted can be honoured from now on.  *)
AlwaysHonoured == \A t \in Nat : t >= now => CanHonour(At(t))

(* Jobs hold GPUs only while they run, and the pass overlooks no free one.  *)
PassSound ==
    /\ \A j \in Jobs : state[j] # "Running" => gpu_ids[j] = {}
    /\ \A j \in todo : state[j] = "Queued"
    /\ ~passing => todo = {}
    /\ passing => Gpus \ Held \subseteq available

-----------------------------------------------------------------------------
(* Counting.  *)

(* What is offered names GPUs of the machine or counts them, but not both.  *)
LEMMA SpecType ==
    ASSUME NEW r \in Reservation
    PROVE  /\ r.id \in Nat /\ r.start \in Nat /\ r.end \in Nat /\ r.status \in Statuses
           /\ r.spec.gpus \subseteq Gpus /\ r.spec.count \in Nat
           /\ r.spec.gpus = {} \/ r.spec.count = 0
BY ReservationsAssumption DEF Reservation

(* The image of a finite set is finite, and as large when nothing is mapped twice.  *)
LEMMA ImageOf ==
    ASSUME NEW S, IsFiniteSet(S), NEW f
    PROVE  /\ IsFiniteSet({f[x] : x \in S})
           /\ (\A x, y \in S : f[x] = f[y] => x = y)
              => Cardinality({f[x] : x \in S}) = Cardinality(S)
<1>. DEFINE I == {f[x] : x \in S}
            g == [x \in S |-> f[x]]
<1>1. g \in Surjection(S, I)
  BY DEF Surjection
<1>2. ASSUME \A x, y \in S : f[x] = f[y] => x = y PROVE g \in Injection(S, I)
  BY <1>2 DEF Injection, IsInjective
<1>. HIDE DEF I, g
<1>. QED BY <1>1, <1>2, FS_Surjection DEF I

(* One reservation asks for as many as its count.  *)
LEMMA SharesOfOne ==
    ASSUME NEW r, NEW n \in Nat
    PROVE  IsFiniteSet({r} \X (1 .. n)) /\ Cardinality({r} \X (1 .. n)) = n
<1>. DEFINE f == [i \in 1 .. n |-> <<r, i>>]
<1>1. IsFiniteSet(1 .. n) /\ Cardinality(1 .. n) = n
  BY FS_Interval
<1>2. {f[i] : i \in 1 .. n} = {r} \X (1 .. n)
  OBVIOUS
<1>3. \A i, k \in 1 .. n : f[i] = f[k] => i = k
  OBVIOUS
<1>. HIDE DEF f
<1>. QED BY <1>1, <1>2, <1>3, ImageOf

(* Nothing is asked for by nobody, one more reservation asks for its count more, and a part
   asks for no more than the whole.  *)
LEMMA SharesType ==
    ASSUME NEW R \in SUBSET Reservation, IsFiniteSet(R)
    PROVE  IsFiniteSet(Shares(R)) /\ CountOf(R) \in Nat
<1>. DEFINE f == [r \in R |-> {r} \X (1 .. r.spec.count)]
<1>1. IsFiniteSet({f[r] : r \in R})
  <2>. HIDE DEF f
  <2>. QED BY ImageOf
<1>2. \A r \in R : IsFiniteSet(f[r])
  <2>. SUFFICES ASSUME NEW r \in R PROVE IsFiniteSet({r} \X (1 .. r.spec.count))
    OBVIOUS
  <2>1. r.spec.count \in Nat
    BY SpecType
  <2>. QED BY <2>1, SharesOfOne
<1>3. \A s \in {f[r] : r \in R} : IsFiniteSet(s)
  <2>. HIDE DEF f
  <2>. QED BY <1>2
<1>4. Shares(R) = UNION {f[r] : r \in R}
  BY DEF Shares
<1>. HIDE DEF f
<1>. QED BY <1>1, <1>3, <1>4, FS_UNION, FS_CardinalityType DEF CountOf

LEMMA CountNone == CountOf({}) = 0
BY FS_EmptySet DEF CountOf, Shares

LEMMA CountMore ==
    ASSUME NEW R \in SUBSET Reservation, IsFiniteSet(R), NEW n \in Reservation, n \notin R
    PROVE  CountOf(R \cup {n}) = n.spec.count + CountOf(R)
<1>. DEFINE own == {n} \X (1 .. n.spec.count)
<1>1. Shares(R \cup {n}) = Shares(R) \cup own /\ Shares(R) \cap own = {}
  BY DEF Shares
<1>2. n.spec.count \in Nat
  BY SpecType
<1>3. IsFiniteSet(own) /\ Cardinality(own) = n.spec.count
  BY <1>2, SharesOfOne
<1>4. /\ IsFiniteSet(Shares(R)) /\ Cardinality(Shares(R)) \in Nat
      /\ Cardinality(Shares(R) \cap own) = 0
  BY <1>1, SharesType, FS_EmptySet DEF CountOf
<1>. HIDE DEF own
<1>5. Cardinality(Shares(R) \cup own) = Cardinality(Shares(R)) + Cardinality(own) - 0
  BY <1>3, <1>4, FS_Union
<1>6. Cardinality(Shares(R) \cup own) = n.spec.count + Cardinality(Shares(R))
  BY <1>2, <1>3, <1>4, <1>5
<1>. QED BY <1>1, <1>6 DEF CountOf

LEMMA CountPart ==
    ASSUME NEW R \in SUBSET Reservation, IsFiniteSet(R), NEW Q \in SUBSET R
    PROVE  CountOf(Q) <= CountOf(R)
<1>1. Shares(Q) \subseteq Shares(R)
  BY DEF Shares
<1>. QED BY <1>1, SharesType, FS_Subset DEF CountOf

(* Who asks does not matter, only how much.  *)
LEMMA CountSame ==
    ASSUME NEW R \in SUBSET Reservation, IsFiniteSet(R),
           NEW h \in [R -> Reservation], \A x, y \in R : h[x] = h[y] => x = y,
           \A x \in R : h[x].spec = x.spec
    PROVE  CountOf({h[x] : x \in R}) = CountOf(R)
<1>. DEFINE f == [p \in Shares(R) |-> <<h[p[1]], p[2]>>]
<1>1. \A p \in Shares(R) : p[1] \in R /\ p[2] \in 1 .. p[1].spec.count /\ p = <<p[1], p[2]>>
  BY DEF Shares
<1>2. \A p, q \in Shares(R) : f[p] = f[q] => p = q
  <2>. SUFFICES ASSUME NEW p \in Shares(R), NEW q \in Shares(R), f[p] = f[q] PROVE p = q
    OBVIOUS
  <2>1. h[p[1]] = h[q[1]] /\ p[2] = q[2]
    OBVIOUS
  <2>. QED BY <1>1, <2>1
<1>3. {f[p] : p \in Shares(R)} = Shares({h[x] : x \in R})
  <2>1. ASSUME NEW p \in Shares(R) PROVE f[p] \in Shares({h[x] : x \in R})
    <3>1. p[1] \in R /\ p[2] \in 1 .. h[p[1]].spec.count
      BY <1>1
    <3>. QED BY <3>1 DEF Shares
  <2>2. ASSUME NEW q \in Shares({h[x] : x \in R}) PROVE \E p \in Shares(R) : f[p] = q
    <3>1. PICK x \in R : q \in {h[x]} \X (1 .. h[x].spec.count)
      BY <2>2 DEF Shares
    <3>2. q = <<h[x], q[2]>> /\ <<x, q[2]>> \in Shares(R)
      BY <3>1 DEF Shares
    <3>3. f[<<x, q[2]>>] = q
      BY <3>2
    <3>. HIDE DEF f
    <3>. QED BY <3>2, <3>3
  <2>. HIDE DEF f
  <2>. QED BY <2>1, <2>2
<1>4. IsFiniteSet(Shares(R))
  BY SharesType
<1>. HIDE DEF f
<1>. QED BY <1>2, <1>3, <1>4, ImageOf DEF CountOf

(* GPUs named by reservations are GPUs of the machine.  *)
LEMMA IndicesType ==
    ASSUME NEW R \in SUBSET Reservation
    PROVE  /\ IndicesOf(R) \subseteq Gpus
           /\ IsFiniteSet(IndicesOf(R)) /\ Cardinality(IndicesOf(R)) \in Nat
<1>1. IndicesOf(R) \subseteq Gpus
  BY SpecType DEF IndicesOf
<1>. QED BY <1>1, ReservationsAssumption, FS_Subset, FS_CardinalityType

(* What can be honoured can be honoured in part, ...  *)
LEMMA HonourPart ==
    ASSUME NEW R \in SUBSET Reservation, IsFiniteSet(R), CanHonour(R), NEW Q \in SUBSET R
    PROVE  CanHonour(Q)
<1>1. IsFiniteSet(Q) /\ Q \in SUBSET Reservation
  BY FS_Subset
<1>2. CountOf(Q) <= CountOf(R) /\ CountOf(Q) \in Nat /\ CountOf(R) \in Nat
  BY <1>1, CountPart, SharesType
<1>3. /\ Cardinality(IndicesOf(Q)) <= Cardinality(IndicesOf(R))
      /\ Cardinality(IndicesOf(Q)) \in Nat /\ Cardinality(IndicesOf(R)) \in Nat
  <2>1. IndicesOf(Q) \subseteq IndicesOf(R)
    BY DEF IndicesOf
  <2>. QED BY <1>1, <2>1, IndicesType, FS_Subset
<1>4. Cardinality(Gpus) \in Nat
  BY ReservationsAssumption, FS_CardinalityType
<1>. QED BY <1>2, <1>3, <1>4 DEF CanHonour

(* ... whatever the statuses are, ...  *)
Relabelled(R, s) == {[r EXCEPT !.status = s[r]] : r \in R}

LEMMA HonourRelabelled ==
    ASSUME NEW R \in SUBSET Reservation, IsFiniteSet(R),
           \A r, q \in R : r.id = q.id => r = q,
           NEW s \in [Reservation -> Statuses]
    PROVE  /\ IsFiniteSet(Relabelled(R, s)) /\ Relabelled(R, s) \in SUBSET Reservation
           /\ CanHonour(R) => CanHonour(Relabelled(R, s))
<1>. DEFINE h == [r \in Reservation |-> [r EXCEPT !.status = s[r]]]
<1>1. \A r \in Reservation : /\ h[r] \in Reservation /\ h[r].id = r.id /\ h[r].spec = r.spec
                             /\ h[r] = [r EXCEPT !.status = s[r]]
  BY DEF Reservation
<1>. HIDE DEF h
<1>. DEFINE Q == {h[r] : r \in R}
<1>2. Q = Relabelled(R, s)
  <2>1. \A x \in R : h[x] = [x EXCEPT !.status = s[x]]
    BY <1>1
  <2>2. \A y : (\E x \in R : y = h[x]) <=> (\E x \in R : y = [x EXCEPT !.status = s[x]])
    BY <2>1
  <2>. QED BY <2>2 DEF Relabelled
<1>3. Q \in SUBSET Reservation
  <2>1. \A x \in R : h[x] \in Reservation
    BY <1>1
  <2>. QED BY <2>1
<1>4. \A x, y \in R : h[x] = h[y] => x = y
  <2>. SUFFICES ASSUME NEW x \in R, NEW y \in R, h[x] = h[y] PROVE x = y
    OBVIOUS
  <2>1. h[x].id = x.id /\ h[y].id = y.id
    BY <1>1
  <2>. QED BY <2>1
<1>5. \A x \in R : h[x].spec = x.spec
  BY <1>1
<1>6. IsFiniteSet(Q) /\ CountOf(Q) = CountOf(R)
  <2>1. PICK k : k = [x \in R |-> h[x]]
    OBVIOUS
  <2>2. \A x \in R : k[x] = h[x] /\ k[x] \in Reservation
    BY <1>1, <2>1
  <2>3. k \in [R -> Reservation] /\ Q = {k[x] : x \in R}
    BY <2>1, <2>2
  <2>. HIDE DEF Q
  <2>. QED BY <1>4, <1>5, <2>2, <2>3, CountSame, ImageOf
<1>8. IndicesOf(Q) = IndicesOf(R)
  <2>1. \A x \in R : h[x].spec = x.spec
    BY <1>1
  <2>2. {r.spec.gpus : r \in Q} = {r.spec.gpus : r \in R}
    BY <2>1
  <2>. QED BY <2>2 DEF IndicesOf
<1>9. CanHonour(R) => \A r, q \in Q : r # q => r.spec.gpus \cap q.spec.gpus = {}
  <2>. SUFFICES ASSUME CanHonour(R), NEW x \in R, NEW y \in R, h[x] # h[y]
                PROVE  h[x].spec.gpus \cap h[y].spec.gpus = {}
    OBVIOUS
  <2>1. h[x].spec = x.spec /\ h[y].spec = y.spec
    BY <1>1
  <2>. QED BY <2>1 DEF CanHonour
<1>10. CanHonour(R) => CanHonour(Q)
  BY <1>6, <1>8, <1>9 DEF CanHonour
<1>. HIDE DEF Q
<1>. QED BY <1>2, <1>3, <1>6, <1>10

(* ... and together with one that does not conflict with any of them.  *)
LEMMA HonourMore ==
    ASSUME NEW V \in SUBSET Reservation, IsFiniteSet(V), NEW R \in SUBSET V, CanHonour(R),
           NEW n \in Reservation, n \notin R, CheckConflict(n.spec, V)
    PROVE  CanHonour(R \cup {n})
<1>0. PICK g : g = n.spec.gpus
  OBVIOUS
<1>1. /\ g \subseteq Gpus /\ IsFiniteSet(g) /\ Cardinality(g) \in Nat
      /\ n.spec.count \in Nat /\ (g = {} \/ n.spec.count = 0)
  BY <1>0, SpecType, ReservationsAssumption, FS_Subset, FS_CardinalityType
<1>2. IsFiniteSet(R) /\ R \in SUBSET Reservation
  BY FS_Subset
<1>3. /\ CountOf(R) <= CountOf(V) /\ CountOf(R) \in Nat /\ CountOf(V) \in Nat
      /\ CountOf(R \cup {n}) = n.spec.count + CountOf(R)
  BY <1>2, CountPart, CountMore, SharesType
<1>4. /\ Cardinality(IndicesOf(R)) <= Cardinality(IndicesOf(V))
      /\ Cardinality(IndicesOf(R)) \in Nat /\ Cardinality(IndicesOf(V)) \in Nat
      /\ IsFiniteSet(IndicesOf(R)) /\ IndicesOf(R) \subseteq IndicesOf(V)
  <2>1. IndicesOf(R) \subseteq IndicesOf(V)
    BY DEF IndicesOf
  <2>. QED BY <1>2, <2>1, IndicesType, FS_Subset
<1>5. Cardinality(Gpus) \in Nat
  BY ReservationsAssumption, FS_CardinalityType
<1>6. IndicesOf(R \cup {n}) = IndicesOf(R) \cup g
  BY <1>0 DEF IndicesOf
<1>7. CASE g # {}
  <2>1. /\ g \cap IndicesOf(V) = {} /\ n.spec.count = 0
        /\ CountOf(V) <= Cardinality(Gpus) - Cardinality(IndicesOf(V)) - Cardinality(g)
    BY <1>0, <1>1, <1>7 DEF CheckConflict, CheckIndices
  <2>2. Cardinality(IndicesOf(R) \cup g) = Cardinality(IndicesOf(R)) + Cardinality(g)
    <3>1. \A A : IsFiniteSet(A) => Cardinality(A \cup g) =
                                      Cardinality(A) + Cardinality(g) - Cardinality(A \cap g)
      BY <1>1, FS_Union
    <3>2. IndicesOf(R) \cap g = {} /\ Cardinality({}) = 0
      BY <1>4, <2>1, FS_EmptySet
    <3>3. Cardinality(IndicesOf(R) \cup g) = Cardinality(IndicesOf(R)) + Cardinality(g) - 0
      BY <1>4, <3>1, <3>2
    <3>. QED BY <1>1, <1>4, <3>3
  <2>3. \A r, q \in R \cup {n} : r # q => r.spec.gpus \cap q.spec.gpus = {}
    <3>1. \A r \in R : r.spec.gpus \cap g = {}
      BY <1>4, <2>1 DEF IndicesOf
    <3>. QED BY <1>0, <3>1 DEF CanHonour
  <2>4. Cardinality(IndicesOf(R \cup {n})) + CountOf(R \cup {n}) <= Cardinality(Gpus)
    <3>1. /\ Cardinality(IndicesOf(R \cup {n})) = Cardinality(IndicesOf(R)) + Cardinality(g)
          /\ CountOf(R \cup {n}) = CountOf(R)
      <4>1. 0 + CountOf(R) = CountOf(R)
        BY <1>3
      <4>2. CountOf(R \cup {n}) = CountOf(R)
        BY <1>3, <2>1, <4>1
      <4>3. Cardinality(IndicesOf(R \cup {n})) = Cardinality(IndicesOf(R)) + Cardinality(g)
        BY <1>6, <2>2
      <4>. QED BY <4>2, <4>3
    <3>2. Cardinality(IndicesOf(R)) + Cardinality(g) + CountOf(R) <= Cardinality(Gpus)
      BY <1>1, <1>3, <1>4, <1>5, <2>1
    <3>. QED BY <3>1, <3>2
  <2>. QED BY <2>3, <2>4 DEF CanHonour
<1>8. CASE g = {}
  <2>1. CountOf(V) + n.spec.count <= Cardinality(Gpus) - Cardinality(IndicesOf(V))
    BY <1>0, <1>8 DEF CheckConflict, CheckCount
  <2>2. \A r, q \in R \cup {n} : r # q => r.spec.gpus \cap q.spec.gpus = {}
    BY <1>0, <1>8 DEF CanHonour
  <2>3. IndicesOf(R \cup {n}) = IndicesOf(R)
    BY <1>6, <1>8
  <2>. QED BY <1>1, <1>3, <1>4, <1>5, <2>1, <2>2, <2>3 DEF CanHonour
<1>. QED BY <1>7, <1>8

-----------------------------------------------------------------------------
(* What an update of the statuses leaves.  *)

(* The status after an update.  *)
LEMMA StatusAfter ==
    ASSUME NEW r \in Reservation, NEW t \in Nat,
           r.status \in {"Pending", "Active", "Cancelled"},
           r.status = "Active" => r.start <= t
    PROVE  /\ UpdatedStatus(r, t) \in Statuses
           /\ UpdatedStatus(r, t) \in {"Pending", "Active"} =>
                 /\ r.status # "Cancelled" /\ t < r.end
                 /\ UpdatedStatus(r, t) = IF r.start <= t THEN "Active" ELSE "Pending"
BY SpecType DEF UpdatedStatus, IsActive, Statuses

(* The statuses all at once.  *)
Now == [r \in Reservation |->
          IF UpdatedStatus(r, now) \in Statuses THEN UpdatedStatus(r, now) ELSE r.status]

(* An update drops what is over or cancelled, tells the active from the pending, and
   leaves nothing that was not promised before.  *)
LEMMA UpdatedSound ==
    ASSUME TypeOK, BooksSound, AlwaysHonoured
    PROVE  LET U == Updated(now)
           IN  /\ IsFiniteSet(U) /\ U \in SUBSET Reservation
               /\ \A u, v \in U : u.id = v.id => u = v
               /\ \A u \in U : /\ 1 <= u.id /\ u.id < next_id
                               /\ u.id \notin cancelled /\ now < u.end
                               /\ u.status = IF u.start <= now THEN "Active" ELSE "Pending"
               /\ \A t \in Nat : t >= now =>
                     CanHonour({u \in U : u.id \notin cancelled /\ u.start <= t /\ t < u.end})
<1>. DEFINE U == Updated(now)
            After(r) == [r EXCEPT !.status = UpdatedStatus(r, now)]
<1>0. now \in Nat /\ reservations \in SUBSET Reservation /\ IsFiniteSet(reservations)
  BY ReservationsAssumption DEF TypeOK, BooksSound
<1>1. \A r \in reservations :
         /\ UpdatedStatus(r, now) \in Statuses
         /\ After(r).status \in {"Pending", "Active"} =>
               /\ r.status # "Cancelled" /\ now < r.end
               /\ After(r).status = IF r.start <= now THEN "Active" ELSE "Pending"
         /\ After(r).id = r.id /\ After(r).start = r.start /\ After(r).end = r.end
  <2>. SUFFICES ASSUME NEW r \in reservations
                PROVE  /\ UpdatedStatus(r, now) \in Statuses
                       /\ After(r).status \in {"Pending", "Active"} =>
                             /\ r.status # "Cancelled" /\ now < r.end
                             /\ After(r).status = IF r.start <= now THEN "Active" ELSE "Pending"
                       /\ After(r).id = r.id /\ After(r).start = r.start /\ After(r).end = r.end
    OBVIOUS
  <2>1. r \in Reservation
    BY <1>0
  <2>2. /\ After(r).status = UpdatedStatus(r, now)
        /\ After(r).id = r.id /\ After(r).start = r.start /\ After(r).end = r.end
    BY <2>1 DEF Reservation
  <2>. HIDE DEF After
  <2>. QED BY <1>0, <2>1, <2>2, StatusAfter DEF BooksSound
<1>2. U \subseteq Relabelled(reservations, Now)
  <2>1. \A r \in reservations : Now[r] = UpdatedStatus(r, now)
    BY <1>0, <1>1 DEF Now
  <2>. QED BY <2>1 DEF Updated, Relabelled
<1>3. Now \in [Reservation -> Statuses]
  <2>1. \A r \in Reservation : r.status \in Statuses
    BY SpecType
  <2>. QED BY <2>1 DEF Now
<1>4. IsFiniteSet(U) /\ U \in SUBSET Reservation
  <2>1. \A r, q \in reservations : r.id = q.id => r = q
    BY DEF TypeOK
  <2>2. IsFiniteSet(Relabelled(reservations, Now))
        /\ Relabelled(reservations, Now) \in SUBSET Reservation
    BY <1>0, <1>3, <2>1, HonourRelabelled
  <2>. QED BY <1>2, <2>2, FS_Subset
<1>5. \A u \in U : \E r \in reservations : u = After(r) /\ After(r).status \in {"Pending", "Active"}
  BY DEF Updated
<1>. HIDE DEF U, After
<1>6. \A u, v \in U : u.id = v.id => u = v
  <2>. SUFFICES ASSUME NEW u \in U, NEW v \in U, u.id = v.id PROVE u = v
    OBVIOUS
  <2>1. PICK r \in reservations : u = After(r)
    BY <1>5
  <2>2. PICK q \in reservations : v = After(q)
    BY <1>5
  <2>3. r.id = q.id
    BY <1>1, <2>1, <2>2
  <2>4. r = q
    BY <2>3 DEF TypeOK
  <2>. QED BY <2>1, <2>2, <2>4
<1>7. \A u \in U : /\ 1 <= u.id /\ u.id < next_id
                   /\ u.id \notin cancelled /\ now < u.end
                   /\ u.status = IF u.start <= now THEN "Active" ELSE "Pending"
  <2>. SUFFICES ASSUME NEW u \in U
                PROVE  /\ 1 <= u.id /\ u.id < next_id
                       /\ u.id \notin cancelled /\ now < u.end
                       /\ u.status = IF u.start <= now THEN "Active" ELSE "Pending"
    OBVIOUS
  <2>1. PICK r \in reservations : u = After(r) /\ After(r).status \in {"Pending", "Active"}
    BY <1>5
  <2>2. 1 <= r.id /\ r.id < next_id /\ (r.status # "Cancelled" => r.id \notin cancelled)
    BY DEF BooksSound
  <2>. QED BY <1>1, <2>1, <2>2
<1>8. ASSUME NEW t \in Nat, t >= now
      PROVE  CanHonour({u \in U : u.id \notin cancelled /\ u.start <= t /\ t < u.end})
  <2>. DEFINE Q == {u \in U : u.id \notin cancelled /\ u.start <= t /\ t < u.end}
  <2>1. CanHonour(At(t))
    BY <1>8 DEF AlwaysHonoured
  <2>2. /\ At(t) \in SUBSET Reservation /\ IsFiniteSet(At(t))
        /\ \A r, q \in At(t) : r.id = q.id => r = q
    <3>1. At(t) \subseteq reservations
      BY DEF At, Standing
    <3>. QED BY <1>0, <3>1, FS_Subset DEF TypeOK
  <2>3. /\ CanHonour(Relabelled(At(t), Now))
        /\ IsFiniteSet(Relabelled(At(t), Now))
        /\ Relabelled(At(t), Now) \in SUBSET Reservation
    BY <1>3, <2>1, <2>2, HonourRelabelled
  <2>4. Q \subseteq Relabelled(At(t), Now)
    <3>. SUFFICES ASSUME NEW u \in U, u.id \notin cancelled, u.start <= t, t < u.end
                  PROVE  u \in Relabelled(At(t), Now)
      OBVIOUS
    <3>1. PICK r \in reservations : u = After(r)
      BY <1>5
    <3>2. r \in At(t)
      BY <1>1, <3>1 DEF At, Standing
    <3>3. Now[r] = UpdatedStatus(r, now)
      BY <1>0, <1>1 DEF Now
    <3>. QED BY <3>1, <3>2, <3>3 DEF After, Relabelled
  <2>. QED BY <2>3, <2>4, HonourPart
<1>. QED BY <1>4, <1>6, <1>7, <1>8 DEF U

-----------------------------------------------------------------------------
(* The types.  *)

(* A set of naturals has a least element, ...  *)
LEMMA LeastOf ==
    ASSUME NEW T \in SUBSET Nat, T # {}
    PROVE  \E n \in T : \A m \in T : n <= m
<1>. DEFINE R == OpToRel(<, Nat)
<1>1. PICK n \in T : \A m \in T : <<m, n>> \notin R
  <2>1. IsWellFoundedOn(R, Nat)
    BY NatLessThanWellFounded
  <2>. HIDE DEF R
  <2>. QED BY <2>1, WFMin
<1>2. \A m \in T : ~(m < n)
  BY <1>1 DEF OpToRel
<1>. QED BY <1>2

(* ... and a finite one a largest: the one with the fewest above it.  *)
LEMMA MaxIn ==
    ASSUME NEW S \in SUBSET Nat, IsFiniteSet(S), S # {}
    PROVE  Max(S) \in S
<1>. DEFINE Above(m) == {x \in S : x > m}
            A == {Cardinality(Above(m)) : m \in S}
<1>1. \A m \in S : IsFiniteSet(Above(m)) /\ Cardinality(Above(m)) \in Nat
  BY FS_Subset, FS_CardinalityType
<1>2. PICK m \in S : \A y \in S : Cardinality(Above(m)) <= Cardinality(Above(y))
  <2>1. A \in SUBSET Nat /\ A # {}
    BY <1>1
  <2>2. PICK n \in A : \A k \in A : n <= k
    <3>. HIDE DEF A
    <3>. QED BY <2>1, LeastOf
  <2>. QED BY <2>2
<1>3. \A y \in S : m >= y
  <2>. SUFFICES ASSUME NEW y \in S, y > m PROVE FALSE
    OBVIOUS
  <2>0. m \in Nat /\ y \in Nat /\ \A x \in S : x \in Nat
    OBVIOUS
  <2>1. Above(y) \subseteq Above(m) /\ y \in Above(m) /\ y \notin Above(y)
    <3>1. \A x \in S : x > y => x > m
      BY <2>0
    <3>2. ~(y > y)
      BY <2>0
    <3>. QED BY <3>1, <3>2
  <2>2. /\ Cardinality(Above(y)) <= Cardinality(Above(m))
        /\ Cardinality(Above(y)) # Cardinality(Above(m))
    <3>. HIDE DEF Above
    <3>. QED BY <1>1, <2>1, FS_Subset
  <2>. QED BY <1>1, <1>2, <2>2
<1>. QED BY <1>3 DEF Max

(* A deadline is an instant.  *)
LEMMA TransitionType ==
    ASSUME TypeOK PROVE NextTransition(now) \in Nat \cup {Never}
<1>. DEFINE due == UNION {Transitions(r, now) : r \in reservations}
<1>1. due \subseteq Nat
  <2>1. \A r \in reservations : Transitions(r, now) \subseteq Nat
    BY SpecType DEF TypeOK, Transitions
  <2>. QED BY <2>1
<1>2. due # {} => Min(due) \in due
  <2>. HIDE DEF due
  <2>. QED BY <1>1, LeastOf DEF Min
<1>3. NextTransition(now) = IF due = {} THEN Never ELSE Min(due)
  BY DEF NextTransition
<1>. HIDE DEF due
<1>. QED BY <1>1, <1>2, <1>3

(* An accepted reservation is well formed.  *)
LEMMA CreateType ==
    ASSUME TypeOK, NEW o \in Offers, NEW start \in 0 .. MaxTime
    PROVE  [id |-> next_id, user |-> o.user, spec |-> o.spec, start |-> start,
            end |-> start + o.duration, status |-> "Pending"] \in Reservation
<1>1. o.user \in Users /\ o.duration \in Nat
  BY ReservationsAssumption
<1>2. start \in Nat /\ start + o.duration \in Nat /\ next_id \in Nat
  BY <1>1, ReservationsAssumption DEF TypeOK
<1>. QED BY <1>1, <1>2 DEF Reservation, Statuses

(* Every step keeps the types.  *)
LEMMA TypeStep == TypeOK /\ BooksSound /\ AlwaysHonoured /\ [Next]_vars => TypeOK'
<1>. SUFFICES ASSUME TypeOK, BooksSound, AlwaysHonoured, [Next]_vars PROVE TypeOK'
  OBVIOUS
<1>. USE DEF tableVars, jobVars, monitorVars, passVars
<1>0. /\ MaxTime \in Nat /\ MaxReservations \in Nat /\ MaxRestarts \in Nat
      /\ now \in Nat /\ next_id \in Nat /\ restarts \in Nat
  BY ReservationsAssumption DEF TypeOK
<1>1. CASE Tick
  BY <1>0, <1>1 DEF Tick, TypeOK
<1>2. ASSUME NEW o \in Offers, NEW start \in 0 .. MaxTime, Create(o, start) PROVE TypeOK'
  <2>1. PICK n \in Reservation : n.id = next_id /\ reservations' = reservations \cup {n}
    BY <1>2, CreateType DEF Create
  <2>2. \A r \in reservations : r.id # next_id
    BY <1>0, SpecType DEF BooksSound, TypeOK
  <2>3. /\ reservations' \subseteq Reservation
        /\ \A r, q \in reservations' : r.id = q.id => r = q
    BY <2>1, <2>2 DEF TypeOK
  <2>4. next_id' \in 1 .. MaxReservations + 1
    BY <1>0, <1>2 DEF Create, TypeOK
  <2>. QED BY <1>2, <2>3, <2>4 DEF Create, TypeOK
<1>3. ASSUME NEW r \in reservations, Cancel(r) PROVE TypeOK'
  <2>1. r \in Reservation /\ r.id \in Nat
    BY SpecType DEF TypeOK
  <2>2. PICK n \in Reservation : n.id = r.id /\ reservations' = (reservations \ {r}) \cup {n}
    BY <1>3, <2>1 DEF Cancel, Reservation, Statuses
  <2>3. /\ reservations' \subseteq Reservation
        /\ \A p, q \in reservations' : p.id = q.id => p = q
    <3>1. \A p, q \in reservations : p.id = q.id => p = q
      BY DEF TypeOK
    <3>. QED BY <2>2, <3>1 DEF TypeOK
  <2>4. r.id \in 1 .. MaxReservations
    <3>1. 1 <= r.id /\ r.id < next_id
      BY DEF BooksSound
    <3>. QED BY <1>0, <2>1, <3>1 DEF TypeOK
  <2>. QED BY <1>3, <2>3, <2>4 DEF Cancel, TypeOK
<1>4. ASSUME NEW j \in Jobs, Submit(j) \/ Complete(j) \/ Wait(j) PROVE TypeOK'
  BY <1>4 DEF Submit, Complete, Wait, TypeOK
<1>5. ASSUME NEW j \in Jobs, Start(j) PROVE TypeOK'
  <2>1. UsableGpus(UserOf[j]) \subseteq Gpus
    BY DEF UsableGpus, TypeOK
  <2>2. PICK S \in SUBSET Gpus : gpu_ids' = [gpu_ids EXCEPT ![j] = S]
    BY <1>5, <2>1 DEF Start, kSubset
  <2>. QED BY <1>5, <2>2 DEF Start, TypeOK
<1>6. CASE StartPass
  <2>1. /\ reservations' \subseteq Reservation
        /\ \A r, q \in reservations' : r.id = q.id => r = q
    BY <1>6, UpdatedSound DEF StartPass
  <2>. QED BY <1>6, <2>1 DEF StartPass, TypeOK
<1>7. CASE EndPass
  <2>1. 0 \in 0 .. MaxTime
    BY <1>0
  <2>. QED BY <1>7, <2>1 DEF EndPass, TypeOK
<1>8. CASE MonitorStartup \/ MonitorFires
  <2>1. /\ reservations' \subseteq Reservation
        /\ \A r, q \in reservations' : r.id = q.id => r = q
    BY <1>8, UpdatedSound DEF MonitorStartup, MonitorFires
  <2>. QED BY <1>8, <2>1 DEF MonitorStartup, MonitorFires, TypeOK
<1>9. CASE MonitorComputes
  BY <1>9, TransitionType DEF MonitorComputes, TypeOK
<1>10. CASE MonitorReads
  BY <1>10 DEF MonitorReads, TypeOK
<1>11. CASE Restart
  <2>1. restarts' \in 0 .. MaxRestarts
    BY <1>0, <1>11 DEF Restart, TypeOK
  <2>. QED BY <1>11, <2>1 DEF Restart, TypeOK
<1>12. CASE UNCHANGED vars
  BY <1>12 DEF vars, TypeOK
<1>. QED
  BY <1>1, <1>2, <1>3, <1>4, <1>5, <1>6, <1>7, <1>8, <1>9, <1>10, <1>11, <1>12 DEF Next

-----------------------------------------------------------------------------
(* The table stays sound: a new id is larger than all before, who is cancelled is
   marked, and time only makes more reservations begin.  *)
LEMMA BooksStep == TypeOK /\ BooksSound /\ AlwaysHonoured /\ [Next]_vars => BooksSound'
<1>. SUFFICES ASSUME TypeOK, BooksSound, AlwaysHonoured, [Next]_vars PROVE BooksSound'
  OBVIOUS
<1>. USE DEF tableVars, jobVars, monitorVars, passVars
<1>0. /\ now \in Nat /\ next_id \in Nat \ {0} /\ reservations \in SUBSET Reservation
      /\ \A r \in reservations : r.id \in Nat /\ r.start \in Nat
  BY ReservationsAssumption, SpecType DEF TypeOK
<1>1. CASE Tick
  <2>1. \A r \in reservations : r.start <= now => r.start <= now + 1
    BY <1>0
  <2>. QED BY <1>1, <2>1 DEF Tick, BooksSound
<1>2. ASSUME NEW o \in Offers, NEW start \in 0 .. MaxTime, Create(o, start) PROVE BooksSound'
  <2>1. PICK n : /\ n.id = next_id /\ n.status = "Pending"
                 /\ reservations' = reservations \cup {n}
                 /\ next_id' = next_id + 1 /\ cancelled' = cancelled /\ now' = now
    BY <1>2 DEF Create
  <2>2. IsFiniteSet(reservations')
    BY <2>1, FS_AddElement DEF BooksSound
  <2>3. next_id \notin cancelled /\ cancelled \subseteq 1 .. (next_id + 1) - 1
    BY <1>0 DEF BooksSound
  <2>4. \A r \in reservations : r.id < next_id + 1
    BY <1>0 DEF BooksSound
  <2>5. 1 <= next_id /\ next_id < next_id + 1
    BY <1>0
  <2>. QED BY <2>1, <2>2, <2>3, <2>4, <2>5 DEF BooksSound
<1>3. ASSUME NEW r \in reservations, Cancel(r) PROVE BooksSound'
  <2>1. r.id \in 1 .. next_id - 1
    BY <1>0 DEF BooksSound
  <2>2. r \in Reservation
    BY <1>0
  <2>3. PICK n : /\ n.id = r.id /\ n.status = "Cancelled"
                 /\ reservations' = (reservations \ {r}) \cup {n}
                 /\ next_id' = next_id /\ cancelled' = cancelled \cup {r.id} /\ now' = now
    <3>1. /\ [r EXCEPT !.status = "Cancelled"].id = r.id
          /\ [r EXCEPT !.status = "Cancelled"].status = "Cancelled"
      BY <2>2 DEF Reservation
    <3>. QED BY <1>3, <3>1 DEF Cancel
  <2>4. IsFiniteSet(reservations')
    BY <2>3, FS_AddElement, FS_RemoveElement DEF BooksSound
  <2>5. \A q \in reservations \ {r} : q.id # r.id
    BY DEF TypeOK
  <2>. QED BY <2>1, <2>3, <2>4, <2>5 DEF BooksSound
<1>4. CASE StartPass \/ MonitorStartup \/ MonitorFires
  <2>1. reservations' = Updated(now) /\ UNCHANGED <<next_id, cancelled, now>>
    BY <1>4 DEF StartPass, MonitorStartup, MonitorFires
  <2>2. /\ IsFiniteSet(Updated(now))
        /\ \A u \in Updated(now) : /\ u.id < next_id /\ u.id \notin cancelled
                                   /\ u.status = IF u.start <= now THEN "Active" ELSE "Pending"
    BY UpdatedSound
  <2>3. \A u \in Updated(now) : 1 <= u.id
    BY UpdatedSound
  <2>. QED BY <2>1, <2>2, <2>3 DEF BooksSound
<1>5. CASE UNCHANGED <<reservations, next_id, cancelled, now>>
  BY <1>5 DEF BooksSound
<1>6. \/ Tick
      \/ \E o \in Offers, start \in 0 .. MaxTime : Create(o, start)
      \/ \E r \in reservations : Cancel(r)
      \/ StartPass \/ MonitorStartup \/ MonitorFires
      \/ UNCHANGED <<reservations, next_id, cancelled, now>>
  BY DEF Next, vars, Submit, Complete, Start, Wait, EndPass, MonitorComputes, MonitorReads,
         Restart
<1>. QED BY <1>1, <1>2, <1>3, <1>4, <1>5, <1>6

(* What is accepted can be honoured: whoever is in force at an instant of the new
   reservation overlaps it and was counted against it.  *)
LEMMA HonourStep == TypeOK /\ BooksSound /\ AlwaysHonoured /\ [Next]_vars => AlwaysHonoured'
<1>. SUFFICES ASSUME TypeOK, BooksSound, AlwaysHonoured, [Next]_vars,
                     NEW t \in Nat, t >= now'
              PROVE  CanHonour(At(t)')
  BY DEF AlwaysHonoured, At, Standing, CanHonour
<1>. USE DEF tableVars, jobVars, monitorVars, passVars
<1>0. /\ now \in Nat /\ next_id \in Nat /\ reservations \in SUBSET Reservation
      /\ \A r \in reservations : r.id \in Nat /\ r.start \in Nat /\ r.end \in Nat
      /\ IsFiniteSet(reservations)
  BY ReservationsAssumption, SpecType DEF TypeOK, BooksSound
<1>a. At(t) \in SUBSET Reservation /\ IsFiniteSet(At(t))
  BY <1>0, FS_Subset DEF At, Standing
<1>1. CASE At(t)' \subseteq At(t) /\ now' = now
  <2>1. CanHonour(At(t))
    BY <1>1 DEF AlwaysHonoured
  <2>. QED BY <1>1, <1>a, <2>1, HonourPart
<1>2. CASE Tick
  <2>1. t >= now
    BY <1>0, <1>2 DEF Tick
  <2>2. At(t)' = At(t)
    BY <1>2 DEF Tick, At, Standing
  <2>. QED BY <2>1, <2>2 DEF AlwaysHonoured
<1>3. ASSUME NEW o \in Offers, NEW start \in 0 .. MaxTime, Create(o, start)
      PROVE  CanHonour(At(t)')
  <2>1. PICK n \in Reservation :
           /\ n.id = next_id /\ n.spec = o.spec /\ n.start = start
           /\ n.end = start + o.duration
           /\ reservations' = reservations \cup {n}
    BY <1>3, CreateType DEF Create
  <2>2. cancelled' = cancelled /\ now' = now
    BY <1>3 DEF Create
  <2>3. At(t)' = IF n.start <= t /\ t < n.end THEN At(t) \cup {n} ELSE At(t)
    <3>1. next_id \notin cancelled
      BY <1>0 DEF BooksSound
    <3>. QED BY <2>1, <2>2, <3>1 DEF At, Standing
  <2>4. CASE n.start <= t /\ t < n.end
    <3>. DEFINE V == Overlapping(start, start + o.duration)
    <3>1. V \in SUBSET Reservation /\ IsFiniteSet(V)
      BY <1>0, FS_Subset DEF Overlapping
    <3>2. At(t) \subseteq V
      <4>. SUFFICES ASSUME NEW r \in At(t) PROVE r \in V
        OBVIOUS
      <4>1. r \in reservations /\ r.id \notin cancelled /\ r.start <= t /\ t < r.end
        BY DEF At, Standing
      <4>2. r.status # "Cancelled"
        BY <4>1 DEF BooksSound
      <4>3. n.start \in Nat /\ n.end \in Nat
        BY SpecType
      <4>4. r.start < n.end /\ n.start < r.end
        BY <1>0, <2>4, <4>1, <4>3
      <4>. QED BY <2>1, <4>1, <4>2, <4>4 DEF Overlapping, OverlapsWith
    <3>3. CheckConflict(n.spec, V)
      BY <1>3, <2>1 DEF Create, Acceptable
    <3>4. CanHonour(At(t))
      BY <2>2 DEF AlwaysHonoured
    <3>5. n \notin At(t)
      <4>1. \A r \in reservations : r.id # next_id
        BY <1>0 DEF BooksSound
      <4>. QED BY <2>1, <4>1 DEF At, Standing
    <3>. HIDE DEF V
    <3>6. CanHonour(At(t) \cup {n})
      BY <3>1, <3>2, <3>3, <3>4, <3>5, HonourMore
    <3>. QED BY <2>3, <2>4, <3>6
  <2>5. CASE ~(n.start <= t /\ t < n.end)
    BY <1>1, <2>2, <2>3, <2>5
  <2>. QED BY <2>4, <2>5
<1>4. ASSUME NEW r \in reservations, Cancel(r) PROVE CanHonour(At(t)')
  <2>1. PICK n : /\ n.id = r.id
                 /\ reservations' = (reservations \ {r}) \cup {n}
                 /\ cancelled' = cancelled \cup {r.id} /\ now' = now
    BY <1>0, <1>4 DEF Cancel, Reservation
  <2>2. At(t)' \subseteq At(t)
    BY <2>1 DEF At, Standing
  <2>. QED BY <1>1, <2>1, <2>2
<1>5. CASE StartPass \/ MonitorStartup \/ MonitorFires
  <2>1. reservations' = Updated(now) /\ UNCHANGED <<cancelled, now>>
    BY <1>5 DEF StartPass, MonitorStartup, MonitorFires
  <2>2. At(t)' = {u \in Updated(now) : u.id \notin cancelled /\ u.start <= t /\ t < u.end}
    BY <2>1 DEF At, Standing
  <2>3. CanHonour({u \in Updated(now) : u.id \notin cancelled /\ u.start <= t /\ t < u.end})
    BY <2>1, UpdatedSound
  <2>. QED BY <2>2, <2>3
<1>6. CASE UNCHANGED <<reservations, cancelled, now>>
  <2>1. At(t)' = At(t)
    BY <1>6 DEF At, Standing
  <2>. QED BY <1>1, <1>6, <2>1
<1>7. \/ Tick
      \/ \E o \in Offers, start \in 0 .. MaxTime : Create(o, start)
      \/ \E r \in reservations : Cancel(r)
      \/ StartPass \/ MonitorStartup \/ MonitorFires
      \/ UNCHANGED <<reservations, cancelled, now>>
  BY DEF Next, vars, Submit, Complete, Start, Wait, EndPass, MonitorComputes, MonitorReads,
         Restart
<1>. QED BY <1>2, <1>3, <1>4, <1>5, <1>6, <1>7

-----------------------------------------------------------------------------
(* A pass knows the time: it begins with an update, and nobody touches the table
   while it has the lock.  *)
LEMMA KnowsStep ==
    TypeOK /\ BooksSound /\ AlwaysHonoured /\ PassKnowsTheTime /\ [Next]_vars
        => PassKnowsTheTime'
<1>. SUFFICES ASSUME TypeOK, BooksSound, AlwaysHonoured, PassKnowsTheTime, [Next]_vars, passing'
              PROVE  PassKnowsTheTime'
  BY DEF PassKnowsTheTime
<1>. USE DEF tableVars, jobVars, monitorVars, passVars
<1>1. CASE StartPass
  <2>1. reservations' = Updated(now) /\ cancelled' = cancelled /\ began' = now
    BY <1>1 DEF StartPass
  <2>2. \A u \in Updated(now) : /\ u.id \notin cancelled /\ now < u.end
                                /\ u.status = IF u.start <= now THEN "Active" ELSE "Pending"
    BY UpdatedSound
  <2>. QED BY <2>1, <2>2 DEF PassKnowsTheTime
<1>2. CASE UNCHANGED <<reservations, cancelled, began, passing>>
  BY <1>2 DEF PassKnowsTheTime
<1>3. StartPass \/ UNCHANGED <<reservations, cancelled, began, passing>>
  BY DEF Next, vars, Tick, Create, Cancel, Submit, Complete, Start, Wait, EndPass,
         MonitorStartup, MonitorComputes, MonitorFires, MonitorReads, Restart
<1>. QED BY <1>1, <1>2, <1>3

(* GPUs are taken by jobs that start and given back by jobs that end, never during a
   pass, so what a pass saw free stays the most that is free.  *)
LEMMA PassStep == TypeOK /\ PassSound /\ [Next]_vars => PassSound'
<1>. SUFFICES ASSUME TypeOK, PassSound, [Next]_vars PROVE PassSound'
  OBVIOUS
<1>. USE DEF tableVars, jobVars, monitorVars, passVars
<1>1. ASSUME NEW j \in Jobs, Submit(j) PROVE PassSound'
  BY <1>1 DEF Submit, PassSound, TypeOK
<1>2. ASSUME NEW j \in Jobs, Complete(j) PROVE PassSound'
  BY <1>2 DEF Complete, PassSound, TypeOK
<1>3. ASSUME NEW j \in Jobs, Start(j) PROVE PassSound'
  <2>1. passing /\ state[j] = "Queued" /\ gpu_ids[j] = {}
    BY <1>3 DEF Start, PassSound, TypeOK
  <2>2. PICK S : gpu_ids' = [gpu_ids EXCEPT ![j] = S]
    BY <1>3 DEF Start
  <2>3. Held \subseteq Held'
    BY <2>1, <2>2 DEF Held, TypeOK
  <2>. QED BY <1>3, <2>1, <2>2, <2>3 DEF Start, PassSound, TypeOK
<1>4. ASSUME NEW j \in Jobs, Wait(j) PROVE PassSound'
  BY <1>4 DEF Wait, PassSound, Held
<1>5. CASE StartPass
  BY <1>5 DEF StartPass, PassSound, Held
<1>6. CASE EndPass
  BY <1>6 DEF EndPass, PassSound
<1>7. CASE UNCHANGED <<state, gpu_ids, todo, passing, available>>
  BY <1>7 DEF PassSound, Held
<1>8. \/ \E j \in Jobs : Submit(j) \/ Complete(j) \/ Start(j) \/ Wait(j)
      \/ StartPass \/ EndPass
      \/ UNCHANGED <<state, gpu_ids, todo, passing, available>>
  BY DEF Next, vars, Tick, Create, Cancel, MonitorStartup, MonitorComputes, MonitorFires,
         MonitorReads, Restart
<1>. QED BY <1>1, <1>2, <1>3, <1>4, <1>5, <1>6, <1>7, <1>8

-----------------------------------------------------------------------------
(* The inductive invariant.  That promises can be kept is not inductive alone: a new
   reservation is counted against those whose status is not Cancelled, so the status
   must say who was cancelled (BooksSound).  *)
IInv == TypeOK /\ BooksSound /\ AlwaysHonoured /\ PassKnowsTheTime /\ PassSound

(* It holds of an empty table ...  *)
LEMMA InitIInv == Init => IInv
<1>. SUFFICES ASSUME Init PROVE IInv
  OBVIOUS
<1>0. MaxTime \in Nat /\ MaxReservations \in Nat /\ MaxRestarts \in Nat
  BY ReservationsAssumption
<1>1. TypeOK
  <2>1. 0 \in 0 .. MaxTime /\ 0 \in 0 .. MaxRestarts /\ 1 \in 1 .. MaxReservations + 1
    BY <1>0
  <2>. QED BY <2>1 DEF Init, TypeOK
<1>2. BooksSound
  BY FS_EmptySet DEF Init, BooksSound
<1>3. AlwaysHonoured
  <2>. SUFFICES ASSUME NEW t \in Nat PROVE CanHonour(At(t))
    BY DEF AlwaysHonoured
  <2>1. At(t) = {} /\ {} \in SUBSET Reservation /\ IsFiniteSet({})
    BY FS_EmptySet DEF Init, At, Standing
  <2>2. CountOf({}) = 0
    BY CountNone
  <2>3. IndicesOf({}) = {} /\ Cardinality({}) = 0
    BY FS_EmptySet DEF IndicesOf
  <2>4. Cardinality(Gpus) \in Nat
    BY ReservationsAssumption, FS_CardinalityType
  <2>. QED BY <2>1, <2>2, <2>3, <2>4 DEF CanHonour
<1>4. PassKnowsTheTime /\ PassSound
  BY DEF Init, PassKnowsTheTime, PassSound
<1>. QED BY <1>1, <1>2, <1>3, <1>4 DEF IInv

(* ... every step keeps it ...  *)
LEMMA NextIInv == IInv /\ [Next]_vars => IInv'
BY TypeStep, BooksStep, HonourStep, KnowsStep, PassStep DEF IInv

(* ... so it holds always.  *)
LEMMA Inductive == Spec => []IInv
BY InitIInv, NextIInv, PTL DEF Spec

(* Whatever was accepted can be honoured at every instant to come, and every pass
   works with statuses that are right at the instant it began.  *)
THEOREM Sound == Spec => []ReservationsSound
<1>1. IInv => ReservationsSound
  <2>. SUFFICES ASSUME IInv, NEW t \in now .. Horizon
                PROVE  /\ \A r, q \in At(t) : r # q => r.spec.gpus \cap q.spec.gpus = {}
                       /\ Cardinality(IndicesOf(At(t))) + CountOf(At(t)) <= Cardinality(Gpus)
    BY DEF IInv, ReservationsSound, NeverOvercommitted
  <2>1. now \in Nat
    BY ReservationsAssumption DEF IInv, TypeOK
  <2>2. t \in Nat /\ t >= now
    BY <2>1
  <2>. QED BY <2>2 DEF IInv, AlwaysHonoured, CanHonour
<1>. QED BY <1>1, Inductive, PTL

-----------------------------------------------------------------------------
(* What a pass takes for the reservations in force are those that are.  *)
LEMMA InForceSincePass == IInv /\ passing => InForce = SincePass
<1>. SUFFICES ASSUME IInv, passing PROVE InForce = SincePass
  OBVIOUS
<1>1. now \in Nat /\ began \in Nat /\ reservations \in SUBSET Reservation
  BY ReservationsAssumption DEF IInv, TypeOK
<1>. SUFFICES ASSUME NEW r \in reservations PROVE r \in InForce <=> r \in SincePass
  BY DEF InForce, SincePass, At, Standing
<1>2. r.start \in Nat /\ r.end \in Nat
  BY <1>1, SpecType
<1>3. /\ r.id \notin cancelled /\ began < r.end
      /\ r.status = IF r.start <= began THEN "Active" ELSE "Pending"
  BY DEF IInv, PassKnowsTheTime
<1>. QED BY <1>1, <1>2, <1>3 DEF InForce, IsActive, SincePass, At, Standing

(* Reservations in force name different GPUs.  *)
LEMMA InForceApart ==
    ASSUME IInv, passing, NEW r \in SincePass, NEW q \in SincePass, r # q
    PROVE  r.spec.gpus \cap q.spec.gpus = {}
<1>1. now \in Nat
  BY ReservationsAssumption DEF IInv, TypeOK
<1>2. CanHonour(At(now))
  BY <1>1 DEF IInv, AlwaysHonoured
<1>. QED BY <1>2 DEF SincePass, CanHonour

(* A job starts in a pass, on GPUs it may use.  *)
LEMMA StartsInPass ==
    ASSUME IInv, [Next]_vars, NEW j \in Jobs, Starts(j)
    PROVE  Start(j) /\ passing /\ gpu_ids'[j] \subseteq UsableGpus(UserOf[j])
<1>. USE DEF tableVars, jobVars, monitorVars, passVars
<1>1. \/ \E k \in Jobs : Submit(k) \/ Complete(k) \/ Start(k)
      \/ state' = state
  BY DEF Next, vars, Tick, Create, Cancel, Wait, StartPass, EndPass, MonitorStartup,
         MonitorComputes, MonitorFires, MonitorReads, Restart
<1>2. PICK k \in Jobs : Start(k)
  BY <1>1 DEF Submit, Complete, Starts, IInv, TypeOK
<1>3. k = j
  BY <1>2 DEF Start, Starts, IInv, TypeOK
<1>4. passing
  BY <1>2 DEF Start, IInv, PassSound
<1>5. gpu_ids'[j] \subseteq UsableGpus(UserOf[j])
  <2>1. PICK S \in kSubset(Need[j], UsableGpus(UserOf[j]) \ Held) :
           gpu_ids' = [gpu_ids EXCEPT ![j] = S]
    BY <1>2, <1>3 DEF Start
  <2>2. S \subseteq UsableGpus(UserOf[j])
    BY <2>1 DEF kSubset
  <2>. QED BY <2>1, <2>2 DEF IInv, TypeOK
<1>. QED BY <1>2, <1>3, <1>4, <1>5

(* No job starts on a GPU another user has reserved by index.  *)
LEMMA RespectStep ==
    ASSUME IInv, [Next]_vars, NEW j \in Jobs, Starts(j),
           NEW r \in SincePass, r.user # UserOf[j]
    PROVE  gpu_ids'[j] \cap r.spec.gpus = {}
<1>1. passing /\ gpu_ids'[j] \subseteq UsableGpus(UserOf[j])
  BY StartsInPass
<1>2. InForce = SincePass
  BY <1>1, InForceSincePass
<1>3. r \in Others(UserOf[j])
  BY <1>2 DEF Others, Own
<1>4. CASE IndicesOf(Own(UserOf[j])) = {}
  <2>1. gpu_ids'[j] \cap IndicesOf(Others(UserOf[j])) = {}
    BY <1>1, <1>4 DEF UsableGpus
  <2>. QED BY <1>3, <2>1 DEF IndicesOf
<1>5. CASE IndicesOf(Own(UserOf[j])) # {}
  <2>1. gpu_ids'[j] \subseteq IndicesOf(Own(UserOf[j]))
    BY <1>1, <1>5 DEF UsableGpus
  <2>2. ASSUME NEW q \in Own(UserOf[j]) PROVE q.spec.gpus \cap r.spec.gpus = {}
    <3>1. q \in SincePass /\ q # r
      BY <1>2 DEF Own
    <3>. QED BY <1>1, <3>1, InForceApart
  <2>. QED BY <2>1, <2>2 DEF IndicesOf
<1>. QED BY <1>4, <1>5

(* A user with GPUs reserved by index is served from them.  *)
LEMMA ServeStep ==
    ASSUME IInv, [Next]_vars, NEW j \in Jobs,
           NEW own, own = IndicesOf({r \in SincePass : r.user = UserOf[j]}), own # {}
    PROVE  /\ Starts(j) => gpu_ids'[j] \subseteq own
           /\ j \in todo \ todo' /\ ~Starts(j) => Need[j] > Cardinality(own \ Held)
<1>. USE DEF tableVars, jobVars, monitorVars, passVars
<1>1. passing => IndicesOf(Own(UserOf[j])) = own
  BY InForceSincePass DEF Own
<1>2. Starts(j) => gpu_ids'[j] \subseteq own
  <2>. SUFFICES ASSUME Starts(j) PROVE gpu_ids'[j] \subseteq own
    OBVIOUS
  <2>1. passing /\ gpu_ids'[j] \subseteq UsableGpus(UserOf[j])
    BY StartsInPass
  <2>. QED BY <1>1, <2>1 DEF UsableGpus
<1>3. ASSUME j \in todo \ todo', ~Starts(j) PROVE Need[j] > Cardinality(own \ Held)
  <2>1. passing
    BY <1>3 DEF IInv, PassSound
  <2>2. Wait(j)
    <3>1. \/ \E k \in Jobs : Start(k) \/ Wait(k)
          \/ StartPass
          \/ todo' = todo
      BY DEF Next, vars, Tick, Create, Cancel, Submit, Complete, EndPass, MonitorStartup,
             MonitorComputes, MonitorFires, MonitorReads, Restart
    <3>2. ~StartPass
      BY <2>1 DEF StartPass
    <3>3. ~Start(j)
      BY <1>3 DEF Start, Starts, IInv, PassSound, TypeOK
    <3>. QED BY <1>3, <3>1, <3>2, <3>3 DEF Start, Wait
  <2>3. own \subseteq Gpus /\ IsFiniteSet(own)
    <3>1. {r \in SincePass : r.user = UserOf[j]} \in SUBSET Reservation
      BY DEF SincePass, At, Standing, IInv, TypeOK
    <3>. QED BY <3>1, IndicesType
  <2>4. UsableGpus(UserOf[j]) \ Held = own \ Held
    BY <1>1, <2>1, <2>3 DEF UsableGpus, IInv, PassSound
  <2>5. /\ Cardinality(own) \in Nat /\ Cardinality(own \ Held) \in Nat
        /\ Cardinality(own \ Held) <= Cardinality(own)
    BY <2>3, FS_Subset, FS_CardinalityType
  <2>6. Need[j] \in Nat
    BY ReservationsAssumption
  <2>7. ~(Need[j] <= Cardinality(own)) \/ ~(Need[j] <= Cardinality(own \ Held))
    BY <1>1, <2>1, <2>2, <2>4 DEF Wait, Fits, RespectsReservations
  <2>. QED BY <2>5, <2>6, <2>7
<1>. QED BY <1>2, <1>3

(* What is reserved by index is kept for its owner, from both sides.  *)
THEOREM Kept == Spec => PassesKeepReservations
<1>1. IInv /\ [Next]_vars =>
         \A j \in Jobs : Starts(j) =>
            \A r \in SincePass : r.user # UserOf[j] => gpu_ids'[j] \cap r.spec.gpus = {}
  BY RespectStep
<1>2. IInv /\ [Next]_vars =>
         \A j \in Jobs :
            LET own == IndicesOf({r \in SincePass : r.user = UserOf[j]})
            IN  own # {} => /\ Starts(j) => gpu_ids'[j] \subseteq own
                            /\ j \in todo \ todo' /\ ~Starts(j)
                                   => Need[j] > Cardinality(own \ Held)
  BY ServeStep
<1>3. Spec => StartsRespectReservations
  BY <1>1, Inductive, PTL DEF Spec, StartsRespectReservations
<1>4. Spec => OwnersServed
  BY <1>2, Inductive, PTL DEF Spec, OwnersServed
<1>. QED BY <1>3, <1>4 DEF PassesKeepReservations
=============================================================================
