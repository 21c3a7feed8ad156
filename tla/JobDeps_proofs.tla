-------------------------- MODULE JobDeps_proofs --------------------------
(***************************************************************************)
(* Proofs about jobs and their dependencies, for every set of jobs and   *)
(* every family of setups: any plans, edits, begin times, retries and    *)
(* restarts, in any order.  The invariant is in parts, each of which needs*)
(* those before it:                                                      *)
(*   Core          types, the reverse graph, no cycle, and what the walks*)
(*                 on the stack stand for;                               *)
(*   CountersSound the successes that are counted or on their way;       *)
(*   HeapSound     the entries from which a pass starts jobs;            *)
(*   ReasonsSound  the reasons why jobs wait.                            *)
(* and, for jobs that are never stuck:                                   *)
(*   FailuresSound the failures that are counted or still to be told;    *)
(*   HopesSound    who waits can still be released by its dependencies;  *)
(*   KeysSound, TimesSound, ModesSound  what edits leave of the plans;   *)
(*   Findable      who may run has a valid entry in the heap.            *)
(***************************************************************************)
EXTENDS JobDeps, FiniteSetTheorems, SequenceTheorems, TLAPS

-----------------------------------------------------------------------------
(* Counting dependencies.  *)

(* A plan lists a set of dependencies at least as many times as it has members, and
   exactly as many when it lists none of them twice.  *)
LEMMA ListedType ==
    ASSUME NEW sp \in Plan, NEW S \in SUBSET Jobs
    PROVE  /\ IsFiniteSet(S)
           /\ Cardinality(S) \in Nat
           /\ Listed(sp, S) \in Nat
           /\ Cardinality(S) <= Listed(sp, S)
           /\ sp.again = {} => Listed(sp, S) = Cardinality(S)
           /\ Listed(sp, S) = 0 <=> S = {}
<1>1. IsFiniteSet(S)
  BY JobsAssumption, FS_Subset
<1>2. IsFiniteSet(S \cap sp.again)
  BY <1>1, FS_Subset
<1>3. Cardinality(S) \in Nat /\ Cardinality(S \cap sp.again) \in Nat
  BY <1>1, <1>2, FS_CardinalityType
<1>4. sp.again = {} => Cardinality(S \cap sp.again) = 0
  BY FS_EmptySet
<1>5. S = {} => Cardinality(S \cap sp.again) = 0 /\ Cardinality(S) = 0
  BY FS_EmptySet
<1>6. Cardinality(S) = 0 => S = {}
  BY <1>1, FS_EmptySet
<1>. QED BY <1>1, <1>3, <1>4, <1>5, <1>6 DEF Listed

(* One more dependency is listed at least once more.  *)
LEMMA ListedAdd ==
    ASSUME NEW sp \in Plan, NEW S \in SUBSET Jobs, NEW d \in Jobs \ S
    PROVE  /\ Cardinality(S \cup {d}) = Cardinality(S) + 1
           /\ Listed(sp, S) + 1 <= Listed(sp, S \cup {d})
<1>. DEFINE T == S \cup {d}
<1>1. IsFiniteSet(S) /\ Cardinality(S) \in Nat /\ Cardinality(T) = Cardinality(S) + 1
  BY ListedType, FS_AddElement
<1>2. IsFiniteSet(T \cap sp.again)
  BY ListedType, FS_Subset
<1>3. /\ Cardinality(S \cap sp.again) \in Nat
      /\ Cardinality(T \cap sp.again) \in Nat
      /\ Cardinality(S \cap sp.again) <= Cardinality(T \cap sp.again)
  <2>1. S \cap sp.again \in SUBSET (T \cap sp.again)
    OBVIOUS
  <2>. QED BY <1>2, <2>1, FS_Subset, FS_CardinalityType
<1>. QED BY <1>1, <1>3 DEF Listed

(* Only the whole is listed as often as the whole.  *)
LEMMA ListedWhole ==
    ASSUME NEW sp \in Plan, NEW D \in SUBSET Jobs, NEW F \in SUBSET D
    PROVE  /\ Listed(sp, F) <= Listed(sp, D)
           /\ Listed(sp, F) = Listed(sp, D) => F = D
<1>1. IsFiniteSet(D) /\ IsFiniteSet(D \cap sp.again)
  BY ListedType, FS_Subset
<1>2. /\ Cardinality(D) \in Nat /\ Cardinality(F) \in Nat
      /\ Cardinality(F) <= Cardinality(D)
      /\ Cardinality(F) = Cardinality(D) => F = D
  BY <1>1, ListedType, FS_Subset, FS_CardinalityType
<1>3. /\ Cardinality(D \cap sp.again) \in Nat /\ Cardinality(F \cap sp.again) \in Nat
      /\ Cardinality(F \cap sp.again) <= Cardinality(D \cap sp.again)
  <2>1. F \cap sp.again \in SUBSET (D \cap sp.again)
    OBVIOUS
  <2>. QED BY <1>1, <2>1, FS_Subset, FS_CardinalityType
<1>. QED BY <1>2, <1>3 DEF Listed

-----------------------------------------------------------------------------
(* Plans, counters and walks have their types.  *)

(* The dependencies of a plan are jobs.  *)
LEMMA DepsType ==
    ASSUME NEW sp \in Plan
    PROVE  DepsIn(sp) \in SUBSET Jobs
BY DEF DepsIn, Plan

(* A job that was never submitted depends on nothing and waits for nothing.  *)
LEMMA BlankPlan == Blank \in Plan /\ DepsIn(Blank) = {} /\ Blank.begin = "none"
BY DEF Blank, Plan, DepsIn

(* A verdict says whether the job may run and whether it never will.  *)
LEMMA JudgedType ==
    ASSUME NEW mode, NEW total \in Nat, NEW ok \in Nat, NEW bad \in Nat
    PROVE  /\ Judged(mode, total, ok, bad) \in Counters
           /\ Judged(mode, total, ok, bad).total = total
           /\ Judged(mode, total, ok, bad).success = ok
           /\ Judged(mode, total, ok, bad).failure = bad
BY DEF Judged, Counters

(* Counters that are built afresh are counters.  *)
LEMMA BuildType ==
    ASSUME NEW sp \in Plan, NEW st \in [Jobs -> States]
    PROVE  Build(sp, st) \in Counters
<1>1. /\ DepsIn(sp) \in SUBSET Jobs
      /\ {d \in DepsIn(sp) : st[d] = "Finished"} \in SUBSET Jobs
      /\ {d \in DepsIn(sp) : st[d] \in Unsuccessful} \in SUBSET Jobs
  BY DepsType
<1>. QED BY <1>1, ListedType, JudgedType DEF Build

(* ... and so are those that have counted one more end.  *)
LEMMA CountType ==
    ASSUME NEW rt \in Counters, NEW mode, NEW success \in BOOLEAN
    PROVE  Count(rt, mode, success) \in Counters
<1>1. rt.total \in Nat /\ rt.success + 1 \in Nat /\ rt.failure + 1 \in Nat
      /\ rt.success \in Nat /\ rt.failure \in Nat
  BY DEF Counters
<1>. QED BY <1>1, JudgedType DEF Count

(* The reason of a refreshed job is a reason, whatever the one it had.  *)
LEMMA SyncedType ==
    ASSUME NEW current \in Reasons, NEW st, NEW sp, NEW rt
    PROVE  /\ WaitReason(st, sp, rt) \in {"None", "Dependency", "BeginTime"}
           /\ Synced(current, WaitReason(st, sp, rt)) \in Reasons
BY DEF Synced, WaitReason, Reasons

(* The three kinds of walks.  *)
PropagateWalk == [kind : {"propagate"}, work : Seq(Jobs \X BOOLEAN), success : BOOLEAN,
                  left : SUBSET Jobs]
WaveWalk == [kind : {"wave"}, work : Seq(Jobs), seen : SUBSET Jobs, left : SUBSET Jobs]
RetryWalk == [kind : {"retry"}, old : Jobs, new : Jobs, left : SUBSET Jobs]

(* A walk is of one of the three kinds, and of the one it names.  *)
LEMMA WalkKinds ==
    /\ Walk = PropagateWalk \cup WaveWalk \cup RetryWalk
    /\ \A w \in Walk : /\ w.kind \in {"propagate", "wave", "retry"}
                       /\ w.kind = "propagate" => w \in PropagateWalk
                       /\ w.kind = "wave" => w \in WaveWalk
                       /\ w.kind = "retry" => w \in RetryWalk
                       /\ w.left \in SUBSET Jobs
BY DEF Walk, PropagateWalk, WaveWalk, RetryWalk

(* A new walk of either kind is a stack of one.  *)
LEMMA NewWalks ==
    ASSUME NEW j \in Jobs
    PROVE  /\ \A s \in BOOLEAN :
                 /\ Propagate(j, s) \in Seq(Walk)
                 /\ Len(Propagate(j, s)) = 1
                 /\ Propagate(j, s)[1] = [kind |-> "propagate", work |-> << <<j, s>> >>,
                                          success |-> s, left |-> {}]
           /\ Wave(j) \in Seq(Walk)
           /\ Len(Wave(j)) = 1
           /\ Wave(j)[1].kind = "wave"
<1>1. ASSUME NEW s \in BOOLEAN
      PROVE  [kind |-> "propagate", work |-> << <<j, s>> >>, success |-> s, left |-> {}] \in Walk
  <2>1. << <<j, s>> >> \in Seq(Jobs \X BOOLEAN)
    OBVIOUS
  <2>. QED BY <2>1, WalkKinds DEF PropagateWalk
<1>2. [kind |-> "wave", work |-> <<j>>, seen |-> {}, left |-> {}] \in Walk
  <2>1. <<j>> \in Seq(Jobs)
    OBVIOUS
  <2>. QED BY <2>1, WalkKinds DEF WaveWalk
<1>. QED BY <1>1, <1>2 DEF Propagate, Wave

(* The stack of walks, its head and the rest.  *)
LEMMA StackType ==
    ASSUME calls \in Seq(Walk), ~Unlocked
    PROVE  /\ top \in Walk
           /\ rest \in Seq(Walk)
           /\ Len(calls) \in Nat \ {0}
           /\ top = calls[1]
           /\ Len(rest) = Len(calls) - 1
           /\ \A i \in 1 .. Len(rest) : rest[i] = calls[i + 1]
<1>1. calls # <<>>
  BY DEF Unlocked
<1>2. Len(calls) \in Nat \ {0} /\ Head(calls) = calls[1]
  BY <1>1, EmptySeq
<1>. QED BY <1>1, <1>2, HeadTailProperties DEF top, rest

(* One walk on top of a stack: the others move down by one.  *)
LEMMA PrependType ==
    ASSUME NEW w \in Walk, NEW s \in Seq(Walk)
    PROVE  /\ <<w>> \o s \in Seq(Walk)
           /\ Len(<<w>> \o s) = 1 + Len(s)
           /\ (<<w>> \o s)[1] = w
           /\ \A i \in 2 .. 1 + Len(s) : (<<w>> \o s)[i] = s[i - 1]
<1>1. <<w>> \in Seq(Walk) /\ Len(<<w>>) = 1 /\ <<w>>[1] = w /\ Len(s) \in Nat
  OBVIOUS
<1>. QED BY <1>1, ConcatProperties

(* A new entry of the heap has the epoch of its job.  *)
LEMMA PushedType ==
    ASSUME heap \subseteq Entry, NEW j \in Jobs, NEW st, NEW sp \in Plan, NEW rt, NEW e \in Nat
    PROVE  /\ Pushed(heap, j, st, sp, rt, e) \subseteq Entry
           /\ Pushed(heap, j, st, sp, rt, e) \subseteq
                 heap \cup {[job |-> j, epoch |-> e, key |-> sp.key]}
<1>1. [job |-> j, epoch |-> e, key |-> sp.key] \in Entry
  BY DEF Entry, Plan
<1>. QED BY <1>1 DEF Pushed

(* The types of what a refresh writes, which it keeps.  *)
TablesOK ==
    /\ state \in [Jobs -> States]
    /\ reason \in [Jobs -> Reasons]
    /\ spec \in [Jobs -> Plan]
    /\ dep_rt \in [Jobs -> Counters]
    /\ epoch \in [Jobs -> Nat]
    /\ heap \subseteq Entry
    /\ calls \in Seq(Walk)

(* A refresh of one job keeps the types of what it writes.  *)
LEMMA RefreshType ==
    ASSUME TypeOK, NEW j \in Jobs, NEW st \in [Jobs -> States], NEW sp \in [Jobs -> Plan],
           NEW why \in Reasons, NEW changed \in Seq(Walk), NEW same \in Seq(Walk),
           Refresh(j, st, sp, why, changed, same)
    PROVE  TablesOK'
<1>. DEFINE rt == Build(sp[j], st)
<1>. DEFINE doomed == st[j] = "Queued" /\ sp[j].auto /\ rt.impossible
<1>0. /\ spec' = sp
      /\ dep_rt' = [dep_rt EXCEPT ![j] = rt]
      /\ epoch' = [epoch EXCEPT ![j] = @ + 1]
      /\ \/ /\ state' = [st EXCEPT ![j] = "Cancelled"]
            /\ reason' = [reason EXCEPT ![j] = "DependencyFailed"]
            /\ calls' = Propagate(j, FALSE) \o changed
            /\ heap' = heap
         \/ /\ state' = st
            /\ reason' = [reason EXCEPT ![j] = Synced(why, WaitReason(st[j], sp[j], rt))]
            /\ calls' \in {changed, same}
            /\ heap' = Pushed(heap, j, st[j], sp[j], rt, epoch[j] + 1)
  BY DEF Refresh
<1>. HIDE DEF rt
<1>1. rt \in Counters /\ sp[j] \in Plan
  BY BuildType DEF rt
<1>2. Propagate(j, FALSE) \o changed \in Seq(Walk)
  BY NewWalks, ConcatProperties
<1>3. Pushed(heap, j, st[j], sp[j], rt, epoch[j] + 1) \subseteq Entry
  <2>1. epoch[j] + 1 \in Nat /\ heap \subseteq Entry
    BY DEF TypeOK
  <2>. QED BY <1>1, <2>1, PushedType
<1>4. Synced(why, WaitReason(st[j], sp[j], rt)) \in Reasons /\ "DependencyFailed" \in Reasons
  BY SyncedType DEF Reasons
<1>5. spec' \in [Jobs -> Plan] /\ dep_rt' \in [Jobs -> Counters] /\ epoch' \in [Jobs -> Nat]
  BY <1>0, <1>1 DEF TypeOK
<1>6. state' \in [Jobs -> States]
  BY <1>0 DEF TypeOK, States, Ended
<1>7. reason' \in [Jobs -> Reasons]
  BY <1>0, <1>4 DEF TypeOK
<1>8. heap' \subseteq Entry
  BY <1>0, <1>3 DEF TypeOK
<1>9. calls' \in Seq(Walk)
  BY <1>0, <1>2
<1>. QED BY <1>5, <1>6, <1>7, <1>8, <1>9 DEF TablesOK

(* ... also when the dependents are refreshed next.  *)
LEMMA RefreshJobType ==
    ASSUME TypeOK, NEW j \in Jobs, NEW st \in [Jobs -> States], NEW sp \in [Jobs -> Plan],
           NEW why \in Reasons, NEW others \in Seq(Walk), RefreshJob(j, st, sp, why, others)
    PROVE  TablesOK'
<1>1. Wave(j) \o others \in Seq(Walk)
  BY NewWalks, ConcatProperties
<1>. QED BY <1>1, RefreshType DEF RefreshJob

(* A dependency or a walk that goes on is again of its kind.  *)
LEMMA PropagateWalkType ==
    ASSUME NEW w \in PropagateWalk
    PROVE  /\ \A S \in SUBSET Jobs : [w EXCEPT !.left = S] \in PropagateWalk
           /\ \A S \in SUBSET Jobs, j \in Jobs :
                 [[w EXCEPT !.left = S] EXCEPT !.work = Append(@, <<j, FALSE>>)] \in PropagateWalk
           /\ w.work # <<>> =>
                 /\ w.work[Len(w.work)] \in Jobs \X BOOLEAN
                 /\ SubSeq(w.work, 1, Len(w.work) - 1) \in Seq(Jobs \X BOOLEAN)
                 /\ Len(SubSeq(w.work, 1, Len(w.work) - 1)) = Len(w.work) - 1
                 /\ \A i \in 1 .. Len(w.work) - 1 :
                       SubSeq(w.work, 1, Len(w.work) - 1)[i] = w.work[i]
<1>1. w.work \in Seq(Jobs \X BOOLEAN) /\ w = [kind |-> w.kind, work |-> w.work,
         success |-> w.success, left |-> w.left] /\ w.kind = "propagate" /\ w.success \in BOOLEAN
      /\ w.left \in SUBSET Jobs
  BY DEF PropagateWalk
<1>2. ASSUME NEW S \in SUBSET Jobs
      PROVE  [w EXCEPT !.left = S] = [kind |-> "propagate", work |-> w.work,
                success |-> w.success, left |-> S]
  BY DEF PropagateWalk
<1>3. ASSUME NEW S \in SUBSET Jobs, NEW j \in Jobs
      PROVE  [[w EXCEPT !.left = S] EXCEPT !.work = Append(@, <<j, FALSE>>)] =
                [kind |-> "propagate", work |-> Append(w.work, <<j, FALSE>>),
                 success |-> w.success, left |-> S]
  <2>. DEFINE v == [w EXCEPT !.left = S]
  <2>1. v = [kind |-> "propagate", work |-> w.work, success |-> w.success, left |-> S]
    BY <1>2
  <2>2. v \in PropagateWalk
    BY <1>1, <2>1 DEF PropagateWalk
  <2>3. ASSUME NEW u \in PropagateWalk, NEW x
        PROVE  [u EXCEPT !.work = x] =
                  [kind |-> "propagate", work |-> x, success |-> u.success, left |-> u.left]
    BY DEF PropagateWalk
  <2>. QED BY <2>1, <2>2, <2>3
<1>4. ASSUME NEW j \in Jobs PROVE Append(w.work, <<j, FALSE>>) \in Seq(Jobs \X BOOLEAN)
  BY <1>1, AppendProperties
<1>5. ASSUME w.work # <<>>
      PROVE  /\ w.work[Len(w.work)] \in Jobs \X BOOLEAN
             /\ SubSeq(w.work, 1, Len(w.work) - 1) \in Seq(Jobs \X BOOLEAN)
             /\ Len(SubSeq(w.work, 1, Len(w.work) - 1)) = Len(w.work) - 1
             /\ \A i \in 1 .. Len(w.work) - 1 :
                   SubSeq(w.work, 1, Len(w.work) - 1)[i] = w.work[i]
  <2>1. Len(w.work) \in Nat \ {0}
    BY <1>1, <1>5, EmptySeq
  <2>2. \A i \in 1 .. Len(w.work) : w.work[i] \in Jobs \X BOOLEAN
    BY <1>1, ElementOfSeq
  <2>. QED BY <2>1, <2>2, SubSeqProperties
<1>. QED BY <1>1, <1>2, <1>3, <1>4, <1>5 DEF PropagateWalk

(* A wave that goes on to one of its dependents, or to the next job, is a wave.  *)
LEMMA WaveWalkType ==
    ASSUME NEW w \in WaveWalk
    PROVE  /\ \A S \in SUBSET Jobs : [w EXCEPT !.left = S] \in WaveWalk
           /\ \A S \in SUBSET Jobs, j \in Jobs :
                 [[w EXCEPT !.left = S] EXCEPT !.work = Append(@, j)] \in WaveWalk
           /\ w.work # <<>> => Head(w.work) \in Jobs /\ Tail(w.work) \in Seq(Jobs)
<1>1. w.work \in Seq(Jobs) /\ w.kind = "wave" /\ w.seen \in SUBSET Jobs
      /\ w.left \in SUBSET Jobs
  BY DEF WaveWalk
<1>2. ASSUME NEW S \in SUBSET Jobs
      PROVE  [w EXCEPT !.left = S] = [kind |-> "wave", work |-> w.work,
                seen |-> w.seen, left |-> S]
  BY DEF WaveWalk
<1>3. ASSUME NEW S \in SUBSET Jobs, NEW j \in Jobs
      PROVE  [[w EXCEPT !.left = S] EXCEPT !.work = Append(@, j)] =
                [kind |-> "wave", work |-> Append(w.work, j), seen |-> w.seen, left |-> S]
  <2>. DEFINE v == [w EXCEPT !.left = S]
  <2>1. v = [kind |-> "wave", work |-> w.work, seen |-> w.seen, left |-> S]
    BY <1>2
  <2>2. v \in WaveWalk
    BY <1>1, <2>1 DEF WaveWalk
  <2>3. ASSUME NEW u \in WaveWalk, NEW x
        PROVE  [u EXCEPT !.work = x] =
                  [kind |-> "wave", work |-> x, seen |-> u.seen, left |-> u.left]
    BY DEF WaveWalk
  <2>4. v.work = w.work /\ v.seen = w.seen /\ v.left = S
    BY <2>1
  <2>5. [v EXCEPT !.work = Append(w.work, j)] =
           [kind |-> "wave", work |-> Append(w.work, j), seen |-> v.seen, left |-> v.left]
    BY <2>2, <2>3
  <2>. HIDE DEF v
  <2>6. [v EXCEPT !.work = Append(@, j)] =
           [kind |-> "wave", work |-> Append(w.work, j), seen |-> w.seen, left |-> S]
    BY <2>4, <2>5
  <2>. QED BY <2>6 DEF v
<1>4. ASSUME NEW j \in Jobs PROVE Append(w.work, j) \in Seq(Jobs)
  BY <1>1
<1>5. w.work # <<>> => Head(w.work) \in Jobs /\ Tail(w.work) \in Seq(Jobs)
  BY <1>1, HeadTailProperties
<1>. QED BY <1>1, <1>2, <1>3, <1>4, <1>5 DEF WaveWalk

(* A retry that has moved one dependent is a retry.  *)
LEMMA RetryWalkType ==
    ASSUME NEW w \in RetryWalk, NEW S \in SUBSET Jobs
    PROVE  /\ [w EXCEPT !.left = S] \in RetryWalk
           /\ [w EXCEPT !.left = S].old = w.old
           /\ [w EXCEPT !.left = S].new = w.new
           /\ [w EXCEPT !.left = S].left = S
           /\ [w EXCEPT !.left = S].kind = "retry"
BY DEF RetryWalk

-----------------------------------------------------------------------------
(* Every plan the handlers make is a plan.  *)

(* The plan of a retry lists what its job depends on.  *)
RetryPlan(j) == [spec[j] EXCEPT !.ids = DepsOf(j),
                                !.legacy = IF Listed(spec[j], DepsOf(j)) = 1
                                           THEN CHOOSE d \in DepsOf(j) : TRUE ELSE NoJob,
                                !.begin = "none",
                                !.retries = @ - 1]

(* It is a plan, with the dependencies of the job it retries.  *)
LEMMA RetryPlanType ==
    ASSUME TypeOK, NEW j \in Jobs, HasRetry(j)
    PROVE  /\ RetryPlan(j) \in Plan
           /\ DepsIn(RetryPlan(j)) = DepsOf(j)
           /\ RetryPlan(j).begin = "none"
           /\ RetryPlan(j).again = spec[j].again
           /\ RetryPlan(j).mode = spec[j].mode
<1>. DEFINE l == IF Listed(spec[j], DepsOf(j)) = 1 THEN CHOOSE d \in DepsOf(j) : TRUE
                 ELSE NoJob
<1>1. spec[j] \in Plan /\ DepsOf(j) \in SUBSET Jobs
  BY DepsType DEF TypeOK, DepsOf
<1>2. l \in DepsOf(j) \cup {NoJob}
  <2>1. Listed(spec[j], DepsOf(j)) = 1 => DepsOf(j) # {}
    BY <1>1, ListedType
  <2>2. DepsOf(j) # {} => (CHOOSE d \in DepsOf(j) : TRUE) \in DepsOf(j)
    OBVIOUS
  <2>. QED BY <2>1, <2>2
<1>3. spec[j].retries - 1 \in Nat
  BY <1>1 DEF HasRetry, Plan
<1>. HIDE DEF l
<1>4. RetryPlan(j) = [spec[j] EXCEPT !.ids = DepsOf(j), !.legacy = l, !.begin = "none",
                                     !.retries = @ - 1]
  BY DEF RetryPlan, l
<1>5. RetryPlan(j) \in Plan
  BY <1>1, <1>2, <1>3, <1>4 DEF Plan
<1>6. DepsIn(RetryPlan(j)) = DepsOf(j) \cup ({l} \ {NoJob})
  BY <1>1, <1>4 DEF DepsIn, Plan
<1>. QED BY <1>1, <1>2, <1>4, <1>5, <1>6 DEF Plan

(* What an update makes of a plan is a plan.  *)
LEMMA RevisedType ==
    ASSUME TypeOK, NEW j \in Jobs, NEW p \in Revised(j)
    PROVE  /\ p \in Plan
           /\ p.begin = spec[j].begin
           /\ p.legacy = spec[j].legacy
           /\ p.again \subseteq spec[j].again
           /\ \/ p.ids = spec[j].ids
              \/ \A d \in p.ids : AllowedDep(j, d)
           /\ p.mode \in Allowed.modes \cup {spec[j].mode}
           /\ p.key \in Allowed.keys \cup {spec[j].key}
<1>1. spec[j] \in Plan /\ setup \in DOMAIN Setups
  BY DEF TypeOK
<1>2. PICK D \in {E \in Allowed.ids : \A d \in E : AllowedDep(j, d)} \cup {spec[j].ids},
           m \in Allowed.modes \cup {spec[j].mode}, a \in Allowed.autos \cup {spec[j].auto},
           k \in Allowed.keys \cup {spec[j].key} :
         p = Revision(j, D, m, a, k)
  BY DEF Revised
<1>3. D \in SUBSET Jobs /\ m \in {"All", "Any"} /\ a \in BOOLEAN /\ k \in Nat
  BY <1>1, SetupsAssumption DEF Allowed, Plan
<1>. DEFINE g == IF D = spec[j].ids THEN spec[j].again ELSE {}
<1>4. g \in SUBSET Jobs /\ g \subseteq spec[j].again
  BY <1>1 DEF Plan
<1>5. p = [spec[j] EXCEPT !.ids = D, !.again = g, !.mode = m, !.auto = a, !.key = k]
  BY <1>2 DEF Revision
<1>. HIDE DEF g
<1>6. p \in Plan /\ p.ids = D /\ p.mode = m /\ p.key = k /\ p.again = g
      /\ p.begin = spec[j].begin /\ p.legacy = spec[j].legacy
  BY <1>1, <1>3, <1>4, <1>5 DEF Plan
<1>. QED BY <1>2, <1>4, <1>6

(* The plan of a dependent that waits for the new attempt.  *)
RetargetedPlan(j, old, new) ==
    LET D == (DepsOf(j) \ {old}) \cup {new}
    IN  [spec[j] EXCEPT !.ids = D, !.again = {},
                        !.legacy = IF D = {new} THEN new ELSE NoJob]

(* It is a plan in which the new attempt has taken the place of the old.  *)
LEMMA RetargetedPlanType ==
    ASSUME TypeOK, NEW j \in Jobs, NEW old \in Jobs, NEW new \in Jobs
    PROVE  /\ RetargetedPlan(j, old, new) \in Plan
           /\ DepsIn(RetargetedPlan(j, old, new)) = (DepsOf(j) \ {old}) \cup {new}
           /\ RetargetedPlan(j, old, new).again = {}
           /\ RetargetedPlan(j, old, new).begin = spec[j].begin
           /\ RetargetedPlan(j, old, new).mode = spec[j].mode
           /\ RetargetedPlan(j, old, new).key = spec[j].key
           /\ RetargetedPlan(j, old, new).auto = spec[j].auto
<1>. DEFINE D == (DepsOf(j) \ {old}) \cup {new}
            l == IF D = {new} THEN new ELSE NoJob
<1>1. spec[j] \in Plan /\ D \in SUBSET Jobs
  BY DepsType DEF TypeOK, DepsOf
<1>2. l \in D \cup {NoJob}
  OBVIOUS
<1>. HIDE DEF D, l
<1>3. RetargetedPlan(j, old, new) = [spec[j] EXCEPT !.ids = D, !.again = {}, !.legacy = l]
  BY DEF RetargetedPlan, D, l
<1>4. /\ RetargetedPlan(j, old, new) \in Plan
      /\ RetargetedPlan(j, old, new).ids = D
      /\ RetargetedPlan(j, old, new).legacy = l
      /\ RetargetedPlan(j, old, new).again = {}
  <2>1. l \in Jobs \cup {NoJob}
    BY <1>1, <1>2
  <2>. QED BY <1>1, <1>3, <2>1 DEF Plan
<1>5. /\ RetargetedPlan(j, old, new).begin = spec[j].begin
      /\ RetargetedPlan(j, old, new).mode = spec[j].mode
      /\ RetargetedPlan(j, old, new).key = spec[j].key
      /\ RetargetedPlan(j, old, new).auto = spec[j].auto
  BY <1>1, <1>3 DEF Plan
<1>6. DepsIn(RetargetedPlan(j, old, new)) = D \cup ({l} \ {NoJob})
  BY <1>4 DEF DepsIn
<1>. QED BY <1>2, <1>4, <1>5, <1>6 DEF D

-----------------------------------------------------------------------------
(* Type correctness.  *)

(* A handler that ends in a refresh of j with a new plan for it.  *)
LEMMA PlanType ==
    ASSUME TypeOK, NEW j \in Jobs, NEW p \in Plan
    PROVE  /\ [spec EXCEPT ![j] = p] \in [Jobs -> Plan]
           /\ DepsIn(p) \in SUBSET Jobs
           /\ edges \cup EdgesTo(j, DepsIn(p)) \subseteq Jobs \X Jobs
<1>1. DepsIn(p) \in SUBSET Jobs
  BY DepsType
<1>. QED BY <1>1 DEF TypeOK, EdgesTo

(* A clock that is set or that comes.  *)
LEMMA BeginType ==
    ASSUME TypeOK, NEW j \in Jobs, NEW b \in {"none", "future", "due"}
    PROVE  [spec EXCEPT ![j].begin = b] \in [Jobs -> Plan]
<1>. DEFINE p == [spec[j] EXCEPT !.begin = b]
<1>1. spec \in [Jobs -> Plan]
  BY DEF TypeOK
<1>2. p \in Plan
  BY <1>1 DEF Plan
<1>3. [spec EXCEPT ![j].begin = b] = [spec EXCEPT ![j] = p]
  BY <1>1
<1>. HIDE DEF p
<1>. QED BY <1>1, <1>2, <1>3

(* States, reasons and epochs after a transition have their types.  *)
LEMMA MovedType ==
    ASSUME TypeOK, NEW S, NEW next \in States, NEW why \in Reasons
    PROVE  /\ Moved(S, next) \in [Jobs -> States]
           /\ Because(S, why) \in [Jobs -> Reasons]
           /\ Bumped(S) \in [Jobs -> Nat]
BY DEF TypeOK, Moved, Because, Bumped

(* The names of states and reasons.  *)
LEMMA NamesType ==
    /\ {"None", "Dependency", "BeginTime", "Resources", "CancelledByUser",
        "DependencyFailed"} = Reasons
    /\ {"Absent", "Queued", "Hold", "Running", "Finished", "Failed", "Cancelled"} = States
    /\ <<>> \in Seq(Walk)
BY DEF Reasons, States, Ended

(* Edits stay within their bound.  *)
LEMMA EditType ==
    ASSUME TypeOK, Edit, setup' = setup
    PROVE  edits' \in 0 .. Allowed'.edits
BY SetupsAssumption DEF TypeOK, Edit, Allowed

(* An end of a job keeps the types.  *)
LEMMA EndType ==
    ASSUME TypeOK, NEW j \in Jobs, NEW final \in States, NEW why \in Reasons, End(j, final, why)
    PROVE  TypeOK'
<1>1. calls' \in Seq(Walk)
  BY NewWalks DEF End
<1>. QED BY <1>1, MovedType DEF End, TypeOK, Allowed

(* The types hold at the start ...  *)
LEMMA TypeInit == Init => TypeOK
<1>1. setup \in DOMAIN Setups => Allowed.edits \in Nat /\ MaxRestarts \in Nat
  BY SetupsAssumption, JobsAssumption DEF Allowed
<1>2. NoCounters \in Counters
  BY DEF NoCounters, Counters
<1>. QED BY <1>1, <1>2, BlankPlan, NamesType DEF Init, TypeOK

(* The handlers whose work ends in a refresh.  *)
LEMMA HandlerType ==
    ASSUME TypeOK, TablesOK', edges' \subseteq Jobs \X Jobs, edits' \in 0 .. Allowed'.edits,
           restarts' = restarts, setup' = setup
    PROVE  TypeOK'
BY DEF TypeOK, TablesOK

(* ... and every handler and every step of a walk keeps them.  *)
LEMMA TypeStep ==
    ASSUME TypeOK, [Next]_vars
    PROVE  TypeOK'
<1>. USE NamesType
<1>0. setup' = setup => Allowed' = Allowed
  BY DEF Allowed
<1>1. ASSUME NEW j \in Jobs, Submit(j) PROVE TypeOK'
  <2>1. PICK p \in Allowed.plans[j] :
           /\ edges' = edges \cup EdgesTo(j, DepsIn(p))
           /\ RefreshJob(j, Moved({j}, "Queued"), [spec EXCEPT ![j] = p], "None", <<>>)
    BY <1>1 DEF Submit
  <2>2. p \in Plan
    BY SetupsAssumption DEF TypeOK, Allowed
  <2>3. Moved({j}, "Queued") \in [Jobs -> States]
    BY MovedType
  <2>4. TablesOK' /\ edges' \subseteq Jobs \X Jobs
    BY <2>1, <2>2, <2>3, PlanType, RefreshJobType DEF TypeOK
  <2>. QED BY <1>0, <1>1, <2>4 DEF TypeOK, TablesOK, Submit
<1>2. ASSUME NEW j \in Jobs, Hold(j) PROVE TypeOK'
  BY <1>0, <1>2, MovedType, EditType DEF Hold, TypeOK
<1>3. ASSUME NEW j \in Jobs, Release(j) PROVE TypeOK'
  <2>1. Moved({j}, "Queued") \in [Jobs -> States] /\ spec \in [Jobs -> Plan]
    BY MovedType DEF TypeOK
  <2>2. TablesOK'
    BY <1>3, <2>1, RefreshJobType DEF Release
  <2>3. /\ edits' \in 0 .. Allowed'.edits
        /\ edges' = edges /\ restarts' = restarts /\ setup' = setup
    BY <1>3, EditType DEF Release
  <2>4. edges' \subseteq Jobs \X Jobs
    BY <2>3 DEF TypeOK
  <2>. QED BY <2>2, <2>3, <2>4, HandlerType
<1>4. ASSUME NEW j \in Jobs, ReleaseAt(j) PROVE TypeOK'
  <2>1. [spec EXCEPT ![j].begin = "future"] \in [Jobs -> Plan]
    BY BeginType
  <2>2. Moved({j}, "Queued") \in [Jobs -> States]
    BY MovedType
  <2>3. TablesOK'
    BY <1>4, <2>1, <2>2, RefreshJobType DEF TypeOK, TablesOK, ReleaseAt
  <2>4. /\ edits' \in 0 .. Allowed'.edits
        /\ edges' = edges /\ restarts' = restarts /\ setup' = setup
    BY <1>4, EditType DEF ReleaseAt
  <2>5. edges' \subseteq Jobs \X Jobs
    BY <2>4 DEF TypeOK
  <2>. QED BY <2>3, <2>4, <2>5, HandlerType
<1>5. ASSUME NEW j \in Jobs, Cancel(j) PROVE TypeOK'
  BY <1>5, EndType DEF Cancel
<1>6. ASSUME NEW j \in Jobs, Finish(j) PROVE TypeOK'
  BY <1>6, EndType DEF Finish
<1>7. ASSUME NEW j \in Jobs, Fail(j) PROVE TypeOK'
  BY <1>7, EndType DEF Fail
<1>8. ASSUME NEW j \in Jobs, Update(j) PROVE TypeOK'
  <2>1. PICK p \in Revised(j) :
           /\ edges' = Relinked(j, p)
           /\ RefreshJob(j, state, [spec EXCEPT ![j] = p], reason[j], <<>>)
    BY <1>8 DEF Update
  <2>2. p \in Plan /\ state \in [Jobs -> States] /\ reason[j] \in Reasons
    BY RevisedType DEF TypeOK
  <2>3. edges' \subseteq Jobs \X Jobs
    BY <2>1, <2>2, PlanType DEF Relinked
  <2>4. TablesOK'
    BY <2>1, <2>2, PlanType, RefreshJobType
  <2>5. /\ edits' \in 0 .. Allowed'.edits
        /\ restarts' = restarts /\ setup' = setup
    BY <1>8, EditType DEF Update
  <2>. QED BY <2>3, <2>4, <2>5, HandlerType
<1>9. ASSUME NEW j \in Jobs, Tick(j) PROVE TypeOK'
  <2>1. [spec EXCEPT ![j].begin = "due"] \in [Jobs -> Plan]
    BY BeginType
  <2>. QED BY <1>0, <1>9, <2>1 DEF TypeOK, Tick
<1>10. ASSUME NEW j \in Jobs, PropagateTo(j) PROVE TypeOK'
  <2>. DEFINE rt == Count(dep_rt[j], spec[j].mode, top.success)
              next == [top EXCEPT !.left = @ \ {j}]
  <2>1. top \in PropagateWalk /\ rest \in Seq(Walk)
    BY <1>10, StackType, WalkKinds DEF PropagateTo, In, TypeOK
  <2>2. rt \in Counters
    BY <2>1, CountType DEF TypeOK, PropagateWalk
  <2>3. top.left \ {j} \in SUBSET Jobs
    BY <2>1 DEF PropagateWalk
  <2>4. next \in Walk /\ [next EXCEPT !.work = Append(@, <<j, FALSE>>)] \in Walk
    <3>. DEFINE S == top.left \ {j}
    <3>. HIDE DEF S
    <3>1. [top EXCEPT !.left = S] \in PropagateWalk
      BY <2>1, <2>3, PropagateWalkType DEF S
    <3>2. [[top EXCEPT !.left = S] EXCEPT !.work = Append(@, <<j, FALSE>>)] \in PropagateWalk
      BY <2>1, <2>3, PropagateWalkType DEF S
    <3>. QED BY <3>1, <3>2, WalkKinds DEF S
  <2>5. /\ With(next) \in Seq(Walk)
        /\ With([next EXCEPT !.work = Append(@, <<j, FALSE>>)]) \in Seq(Walk)
    BY <2>1, <2>4, PrependType DEF With
  <2>6. Propagate(j, FALSE) \o With([next EXCEPT !.work = Append(@, <<j, FALSE>>)]) \in Seq(Walk)
    BY <2>5, NewWalks, ConcatProperties
  <2>7. dep_rt' \in [Jobs -> Counters]
    BY <1>10, <2>2 DEF PropagateTo, TypeOK
  <2>8. calls' \in Seq(Walk)
    BY <1>10, <2>5, <2>6 DEF PropagateTo
  <2>9. state' \in [Jobs -> States] /\ epoch' \in [Jobs -> Nat]
    <3>1. Moved({j}, "Cancelled") \in [Jobs -> States] /\ Bumped({j}) \in [Jobs -> Nat]
      BY MovedType
    <3>. QED BY <1>10, <3>1 DEF PropagateTo, TypeOK
  <2>10. reason' \in [Jobs -> Reasons]
    <3>1. Because({j}, "DependencyFailed") \in [Jobs -> Reasons]
      BY MovedType
    <3>2. Because({j}, Synced(reason[j], WaitReason(state[j], spec[j], rt))) \in [Jobs -> Reasons]
      BY MovedType, SyncedType DEF TypeOK
    <3>. QED BY <1>10, <3>1, <3>2 DEF PropagateTo
  <2>11. heap' \subseteq Entry
    <3>1. Pushed(heap, j, state[j], spec[j], rt, epoch[j]) \subseteq Entry
      BY PushedType DEF TypeOK
    <3>. QED BY <1>10, <3>1 DEF PropagateTo, TypeOK
  <2>. HIDE DEF rt, next
  <2>. QED BY <1>0, <1>10, <2>7, <2>8, <2>9, <2>10, <2>11 DEF PropagateTo, TypeOK
<1>11. ASSUME NEW j \in Jobs, WaveTo(j) PROVE TypeOK'
  <2>. DEFINE next == [top EXCEPT !.left = @ \ {j}]
  <2>1. top \in WaveWalk /\ rest \in Seq(Walk)
    BY <1>11, StackType, WalkKinds DEF WaveTo, In, TypeOK
  <2>2. top.left \ {j} \in SUBSET Jobs
    BY <2>1 DEF WaveWalk
  <2>3. next \in Walk /\ [next EXCEPT !.work = Append(@, j)] \in Walk
    <3>. DEFINE S == top.left \ {j}
    <3>. HIDE DEF S
    <3>1. [top EXCEPT !.left = S] \in WaveWalk
      BY <2>1, <2>2, WaveWalkType DEF S
    <3>2. [[top EXCEPT !.left = S] EXCEPT !.work = Append(@, j)] \in WaveWalk
      BY <2>1, <2>2, WaveWalkType DEF S
    <3>. QED BY <3>1, <3>2, WalkKinds DEF S
  <2>4. With(next) \in Seq(Walk) /\ With([next EXCEPT !.work = Append(@, j)]) \in Seq(Walk)
    BY <2>1, <2>3, PrependType DEF With
  <2>. HIDE DEF next
  <2>5. CASE state[j] = "Queued"
    <3>1. Refresh(j, state, spec, reason[j], With([next EXCEPT !.work = Append(@, j)]),
                With(next))
      BY <1>11, <2>5 DEF WaveTo, next
    <3>2. state \in [Jobs -> States] /\ spec \in [Jobs -> Plan] /\ reason[j] \in Reasons
      BY DEF TypeOK
    <3>. QED BY <1>0, <1>11, <2>4, <3>1, <3>2, RefreshType DEF WaveTo, TypeOK, TablesOK
  <2>6. CASE state[j] # "Queued"
    BY <1>0, <1>11, <2>4, <2>6 DEF WaveTo, TypeOK, next
  <2>. QED BY <2>5, <2>6
<1>12. ASSUME NEW j \in Jobs, Retarget(j) PROVE TypeOK'
  <2>. DEFINE next == [top EXCEPT !.left = @ \ {j}]
              p == RetargetedPlan(j, top.old, top.new)
              D == (DepsOf(j) \ {top.old}) \cup {top.new}
  <2>1. top \in RetryWalk /\ rest \in Seq(Walk)
    BY <1>12, StackType, WalkKinds DEF Retarget, In, TypeOK
  <2>2. top.left \ {j} \in SUBSET Jobs /\ top.old \in Jobs /\ top.new \in Jobs
    BY <2>1 DEF RetryWalk
  <2>3. With(next) \in Seq(Walk)
    BY <2>1, <2>2, RetryWalkType, WalkKinds, PrependType DEF With
  <2>4. p \in Plan /\ DepsIn(p) = D
    BY <2>2, RetargetedPlanType
  <2>5. CASE state[j] \in Retargeted /\ top.old \in DepsOf(j)
    <3>1. /\ edges' = (edges \ {<<top.old, j>>}) \cup EdgesTo(j, D)
          /\ RefreshJob(j, state, [spec EXCEPT ![j] = p], reason[j], With(next))
      BY <1>12, <2>5 DEF Retarget, RetargetedPlan
    <3>2. state \in [Jobs -> States] /\ reason[j] \in Reasons
      BY DEF TypeOK
    <3>. HIDE DEF next, p
    <3>3. edges' \subseteq Jobs \X Jobs /\ [spec EXCEPT ![j] = p] \in [Jobs -> Plan]
      BY <2>4, <3>1, PlanType
    <3>. QED BY <1>0, <1>12, <2>3, <3>1, <3>2, <3>3, RefreshJobType DEF Retarget, TypeOK, TablesOK
  <2>6. CASE ~(state[j] \in Retargeted /\ top.old \in DepsOf(j))
    BY <1>0, <1>12, <2>3, <2>6 DEF Retarget, TypeOK
  <2>. QED BY <2>5, <2>6
<1>13. ASSUME NEW j \in Jobs, NEW n \in Jobs, FailAndRetry(j, n) PROVE TypeOK'
  <2>. DEFINE w == [kind |-> "retry", old |-> j, new |-> n, left |-> Dependents(j)]
              p == RetryPlan(j)
  <2>1. <<w>> \in Seq(Walk)
    <3>1. w \in Walk
      BY WalkKinds DEF RetryWalk, Dependents
    <3>. QED BY <3>1
  <2>2. p \in Plan /\ DepsIn(p) = DepsOf(j)
    BY <1>13, RetryPlanType DEF FailAndRetry
  <2>3. /\ edges' = edges \cup EdgesTo(n, DepsOf(j))
        /\ RefreshJob(n, Moved({n}, "Queued"), [spec EXCEPT ![n] = p], "None", <<w>>)
    BY <1>13 DEF FailAndRetry, RetryPlan
  <2>4. Moved({n}, "Queued") \in [Jobs -> States]
    BY MovedType
  <2>. HIDE DEF w, p
  <2>5. edges' \subseteq Jobs \X Jobs /\ [spec EXCEPT ![n] = p] \in [Jobs -> Plan]
    BY <2>2, <2>3, PlanType
  <2>. QED BY <1>0, <1>13, <2>1, <2>3, <2>4, <2>5, RefreshJobType
         DEF FailAndRetry, TypeOK, TablesOK
<1>14. CASE ReleaseDue
  <2>1. reason' \in [Jobs -> Reasons]
    <3>1. \A j \in Jobs :
             Synced("BeginTime", WaitReason("Queued", spec[j], dep_rt[j])) \in Reasons
      BY SyncedType
    <3>. QED BY <1>14, <3>1 DEF ReleaseDue, TypeOK
  <2>2. heap' \subseteq Entry
    BY <1>14 DEF ReleaseDue, TypeOK, Entry, Due, Plan
  <2>. QED BY <1>0, <1>14, <2>1, <2>2 DEF ReleaseDue, TypeOK
<1>15. CASE Pass
  <2>1. PICK S \in SUBSET Runnable :
           /\ state' = Moved(S, "Running")
           /\ epoch' = Bumped(S)
           /\ reason' = [j \in Jobs |-> IF j \in S THEN "None"
                                        ELSE IF j \in Runnable \ S THEN "Resources"
                                        ELSE reason[j]]
           /\ heap' = {[job |-> j, epoch |-> epoch[j], key |-> spec[j].key] :
                          j \in {k \in Runnable \ S : spec[k].begin # "future"}}
    BY <1>15 DEF Pass
  <2>2. Runnable \subseteq Jobs
    BY DEF Runnable, TypeOK, Entry
  <2>3. heap' \subseteq Entry
    BY <2>1, <2>2 DEF TypeOK, Entry, Plan
  <2>4. state' \in [Jobs -> States] /\ epoch' \in [Jobs -> Nat] /\ reason' \in [Jobs -> Reasons]
    BY <2>1, MovedType DEF TypeOK
  <2>. QED BY <1>0, <1>15, <2>3, <2>4 DEF Pass, TypeOK
<1>16. CASE Restart
  <2>. DEFINE rt == [j \in Jobs |-> IF state[j] = "Absent" THEN NoCounters
                                    ELSE Build(spec[j], state)]
  <2>1. rt \in [Jobs -> Counters]
    <3>1. NoCounters \in Counters
      BY DEF NoCounters, Counters
    <3>2. \A j \in Jobs : Build(spec[j], state) \in Counters
      BY BuildType DEF TypeOK
    <3>. QED BY <3>1, <3>2
  <2>2. /\ dep_rt' = rt
        /\ reason' = [j \in Jobs |-> Synced(reason[j], WaitReason(state[j], spec[j], rt[j]))]
        /\ heap' = {[job |-> j, epoch |-> 0, key |-> spec[j].key] :
                       j \in {k \in Jobs : /\ state[k] = "Queued"
                                           /\ spec[k].begin # "future"
                                           /\ rt[k].satisfied}}
    BY <1>16 DEF Restart
  <2>. HIDE DEF rt
  <2>3. reason' \in [Jobs -> Reasons]
    <3>1. \A j \in Jobs : Synced(reason[j], WaitReason(state[j], spec[j], rt[j])) \in Reasons
      BY SyncedType DEF TypeOK
    <3>. QED BY <2>2, <3>1
  <2>4. heap' \subseteq Entry
    BY <2>2 DEF TypeOK, Entry, Plan
  <2>5. edges' \subseteq Jobs \X Jobs
    <3>1. \A j \in Jobs : EdgesTo(j, DepsOf(j)) \subseteq Jobs \X Jobs
      BY DepsType DEF TypeOK, DepsOf, EdgesTo
    <3>. QED BY <1>16, <3>1 DEF Restart
  <2>6. restarts' \in 0 .. MaxRestarts /\ epoch' \in [Jobs -> Nat]
    BY <1>16, JobsAssumption DEF Restart, TypeOK
  <2>. QED BY <1>0, <1>16, <2>1, <2>2, <2>3, <2>4, <2>5, <2>6 DEF Restart, TypeOK
<1>17. CASE NextSource
  <2>. DEFINE source == top.work[Len(top.work)]
              w == [top EXCEPT !.work = SubSeq(@, 1, Len(@) - 1), !.success = source[2],
                               !.left = Dependents(source[1])]
  <2>1. top \in PropagateWalk /\ rest \in Seq(Walk) /\ top.work # <<>>
    BY <1>17, StackType, WalkKinds DEF NextSource, In, TypeOK
  <2>2. /\ source \in Jobs \X BOOLEAN
        /\ SubSeq(top.work, 1, Len(top.work) - 1) \in Seq(Jobs \X BOOLEAN)
    BY <2>1, PropagateWalkType
  <2>3. Dependents(source[1]) \in SUBSET Jobs /\ source[2] \in BOOLEAN
    BY <2>2 DEF Dependents
  <2>. HIDE DEF source
  <2>4. w \in PropagateWalk
    BY <2>1, <2>2, <2>3 DEF PropagateWalk
  <2>5. calls' = With(w)
    BY <1>17 DEF NextSource, source
  <2>. HIDE DEF w
  <2>6. calls' \in Seq(Walk)
    BY <2>1, <2>4, <2>5, WalkKinds, PrependType DEF With
  <2>. QED BY <1>0, <1>17, <2>6 DEF NextSource, TypeOK
<1>18. CASE NextWave
  <2>. DEFINE source == Head(top.work)
              L == IF source \in top.seen THEN {} ELSE Dependents(source)
              w == [top EXCEPT !.work = Tail(@), !.seen = @ \cup {source}, !.left = L]
  <2>1. top \in WaveWalk /\ rest \in Seq(Walk) /\ top.work # <<>>
    BY <1>18, StackType, WalkKinds DEF NextWave, In, TypeOK
  <2>2. source \in Jobs /\ Tail(top.work) \in Seq(Jobs) /\ L \in SUBSET Jobs
    BY <2>1, WaveWalkType DEF Dependents
  <2>3. calls' = With(w)
    BY <1>18 DEF NextWave
  <2>. HIDE DEF source, L
  <2>4. w \in WaveWalk
    BY <2>1, <2>2 DEF WaveWalk
  <2>. HIDE DEF w
  <2>5. calls' \in Seq(Walk)
    BY <2>1, <2>3, <2>4, WalkKinds, PrependType DEF With
  <2>. QED BY <1>0, <1>18, <2>5 DEF NextWave, TypeOK
<1>19. CASE Return
  <2>1. calls' \in Seq(Walk)
    BY <1>19, StackType DEF Return, TypeOK
  <2>2. state' \in [Jobs -> States] /\ reason' \in [Jobs -> Reasons] /\ epoch' \in [Jobs -> Nat]
    BY <1>19, MovedType DEF Return, TypeOK
  <2>. QED BY <1>0, <1>19, <2>1, <2>2 DEF Return, TypeOK
<1>20. CASE UNCHANGED vars
  BY <1>0, <1>20 DEF vars, TypeOK
<1>. QED
  BY <1>1, <1>2, <1>3, <1>4, <1>5, <1>6, <1>7, <1>8, <1>9, <1>10, <1>11, <1>12, <1>13, <1>14,
     <1>15, <1>16, <1>17, <1>18, <1>19, <1>20 DEF Next

-----------------------------------------------------------------------------
(* The core of the invariant: what the jobs, the reverse graph and the walks in progress
   say of each other.  *)

(* Only jobs that exist depend on others, and only on jobs that exist.  *)
JobsSound ==
    \A k \in Jobs : /\ state[k] = "Absent" => DepsOf(k) = {}
                    /\ \A d \in DepsOf(k) : state[d] # "Absent"

(* The verdicts are those of the counters, and of the mode.  *)
VerdictsSound ==
    \A k \in Jobs : state[k] # "Absent" =>
        dep_rt[k] = Judged(spec[k].mode, Listed(spec[k], DepsOf(k)), dep_rt[k].success,
                           dep_rt[k].failure)

(* A walk that is not that of a success follows jobs that ended otherwise; while a job is
   retried, its waiting dependents are those the walk has still to move.  *)
FrameSound(w, st, sp) ==
    /\ w.kind = "propagate" =>
          /\ ~w.success
          /\ \A i \in 1 .. Len(w.work) : st[w.work[i][1]] \in Unsuccessful /\ ~w.work[i][2]
          /\ \A k \in w.left : \E d \in DepsIn(sp[k]) : st[d] \in Unsuccessful
    /\ w.kind = "retry" =>
          /\ st[w.old] = "Running"
          /\ st[w.new] # "Absent"
          /\ w.new # w.old
          /\ DepsIn(sp[w.new]) = DepsIn(sp[w.old])
          /\ \A k \in Jobs : st[k] \in {"Queued", "Hold"} /\ w.old \in DepsIn(sp[k])
                                => k \in w.left

StackSound(c, st, sp) ==
    \A i \in 1 .. Len(c) : FrameSound(c[i], st, sp) /\ (c[i].kind = "retry" => i = Len(c))

(* The walk of a success has one source, and nothing below it.  *)
SuccessWalk(w, st) ==
    /\ w.kind = "propagate"
    /\ w.success
    /\ \A k \in w.left : st[k] # "Absent"
    /\ w.work = <<>> \/ (Len(w.work) = 1 /\ w.work[1][2] /\ w.left = {})

WalksSound ==
    \/ calls # <<>> /\ Len(calls) = 1 /\ SuccessWalk(calls[1], state)
    \/ StackSound(calls, state, spec)

Core == TypeOK /\ GraphExact /\ JobsSound /\ NoCycle /\ VerdictsSound /\ WalksSound

-----------------------------------------------------------------------------
(* The reverse graph, edge by edge.  *)
LEMMA EdgesExact ==
    ASSUME NEW E \in SUBSET (Jobs \X Jobs), NEW D \in [Jobs -> SUBSET Jobs]
    PROVE  E = UNION {EdgesTo(j, D[j]) : j \in Jobs}
              <=> \A d, k \in Jobs : <<d, k>> \in E <=> d \in D[k]
<1>. DEFINE U == UNION {EdgesTo(j, D[j]) : j \in Jobs}
<1>1. \A d, k \in Jobs : <<d, k>> \in U <=> d \in D[k]
  <2>1. ASSUME NEW d \in Jobs, NEW k \in Jobs
        PROVE  <<d, k>> \in U <=> \E j \in Jobs : <<d, k>> \in EdgesTo(j, D[j])
    OBVIOUS
  <2>. QED BY <2>1 DEF EdgesTo
<1>2. U \subseteq Jobs \X Jobs
  <2>1. \A j \in Jobs : EdgesTo(j, D[j]) \subseteq Jobs \X Jobs
    BY DEF EdgesTo
  <2>. QED BY <2>1
<1>3. ASSUME NEW A \in SUBSET (Jobs \X Jobs), NEW B \in SUBSET (Jobs \X Jobs)
      PROVE  A = B <=> \A d, k \in Jobs : <<d, k>> \in A <=> <<d, k>> \in B
  <2>1. ASSUME \A d, k \in Jobs : <<d, k>> \in A <=> <<d, k>> \in B, NEW x \in Jobs \X Jobs
        PROVE  x \in A <=> x \in B
    <3>1. PICK d \in Jobs, k \in Jobs : x = <<d, k>>
      OBVIOUS
    <3>. QED BY <2>1, <3>1
  <2>. QED BY <2>1
<1>. HIDE DEF U
<1>4. E = U <=> \A d, k \in Jobs : <<d, k>> \in E <=> d \in D[k]
  BY <1>1, <1>2, <1>3
<1>. QED BY <1>4 DEF U

(* The reverse graph is exact when its edges are the dependencies, one by one.  *)
LEMMA GraphEdges ==
    ASSUME TypeOK
    PROVE  GraphExact <=> \A d, k \in Jobs : <<d, k>> \in edges <=> d \in DepsOf(k)
<1>. DEFINE D == [k \in Jobs |-> DepsOf(k)]
<1>1. D \in [Jobs -> SUBSET Jobs] /\ edges \in SUBSET (Jobs \X Jobs)
  BY DepsType DEF TypeOK, DepsOf
<1>2. {EdgesTo(j, D[j]) : j \in Jobs} = {EdgesTo(j, DepsOf(j)) : j \in Jobs}
  OBVIOUS
<1>3. \A k \in Jobs : D[k] = DepsOf(k)
  OBVIOUS
<1>. HIDE DEF D
<1>. QED BY <1>1, <1>2, <1>3, EdgesExact DEF GraphExact

(* The dependents of a job are those that depend on it.  *)
LEMMA DependentsExact ==
    ASSUME TypeOK, GraphExact, NEW d \in Jobs
    PROVE  Dependents(d) = {k \in Jobs : d \in DepsOf(k)}
BY GraphEdges DEF Dependents

(* What a job depends on are jobs that were submitted.  *)
LEMMA DepsAreJobs ==
    ASSUME TypeOK
    PROVE  \A k \in Jobs : DepsOf(k) \in SUBSET Jobs /\ spec[k] \in Plan
BY DepsType DEF TypeOK, DepsOf

(* No job depends on itself.  *)
LEMMA NotOnItself ==
    ASSUME NoCycle, NEW j \in Jobs
    PROVE  j \notin DepsOf(j)
<1>1. \E k \in {j} : DepsOf(k) \cap {j} = {}
  BY DEF NoCycle
<1>. QED BY <1>1

(* What a walk that is sound needs of a step to stay so.  *)
LEMMA StackStable ==
    ASSUME NEW c \in Seq(Walk), NEW st, NEW sp, NEW st2, NEW sp2, StackSound(c, st, sp),
           \A k \in Jobs : DepsIn(sp2[k]) = DepsIn(sp[k]) /\ DepsIn(sp[k]) \in SUBSET Jobs,
           \A k \in Jobs : /\ st[k] \in Unsuccessful => st2[k] \in Unsuccessful
                           /\ st[k] = "Running" => st2[k] = "Running"
                           /\ st[k] # "Absent" => st2[k] # "Absent"
                           /\ st2[k] \in {"Queued", "Hold"} => st[k] \in {"Queued", "Hold"}
    PROVE  StackSound(c, st2, sp2)
<1>. SUFFICES ASSUME NEW i \in 1 .. Len(c)
              PROVE  FrameSound(c[i], st2, sp2) /\ (c[i].kind = "retry" => i = Len(c))
  BY DEF StackSound
<1>1. FrameSound(c[i], st, sp) /\ (c[i].kind = "retry" => i = Len(c))
  BY DEF StackSound
<1>2. c[i] \in Walk
  BY ElementOfSeq
<1>3. ASSUME c[i].kind = "propagate"
      PROVE  /\ ~c[i].success
             /\ \A m \in 1 .. Len(c[i].work) :
                   st2[c[i].work[m][1]] \in Unsuccessful /\ ~c[i].work[m][2]
             /\ \A k \in c[i].left : \E d \in DepsIn(sp2[k]) : st2[d] \in Unsuccessful
  <2>1. c[i] \in PropagateWalk
    BY <1>2, <1>3, WalkKinds
  <2>2. \A m \in 1 .. Len(c[i].work) : c[i].work[m] \in Jobs \X BOOLEAN
    BY <2>1, ElementOfSeq DEF PropagateWalk
  <2>3. c[i].left \in SUBSET Jobs
    BY <1>2, WalkKinds
  <2>. QED BY <1>1, <1>3, <2>2, <2>3 DEF FrameSound
<1>4. ASSUME c[i].kind = "retry"
      PROVE  /\ st2[c[i].old] = "Running"
             /\ st2[c[i].new] # "Absent"
             /\ c[i].new # c[i].old
             /\ DepsIn(sp2[c[i].new]) = DepsIn(sp2[c[i].old])
             /\ \A k \in Jobs : st2[k] \in {"Queued", "Hold"} /\ c[i].old \in DepsIn(sp2[k])
                                   => k \in c[i].left
  <2>1. c[i].old \in Jobs /\ c[i].new \in Jobs
    BY <1>2, <1>4, WalkKinds DEF RetryWalk
  <2>. QED BY <1>1, <1>4, <2>1 DEF FrameSound
<1>. QED BY <1>1, <1>3, <1>4 DEF FrameSound

(* Walks are added on top, and those of a retry at the bottom only.  *)
LEMMA StackPush ==
    ASSUME NEW w \in Walk, NEW c \in Seq(Walk), NEW st, NEW sp,
           FrameSound(w, st, sp), w.kind = "retry" => c = <<>>, StackSound(c, st, sp)
    PROVE  StackSound(<<w>> \o c, st, sp)
<1>. DEFINE b == <<w>> \o c
<1>1. /\ Len(c) \in Nat /\ Len(b) = 1 + Len(c) /\ b[1] = w
      /\ \A i \in 2 .. 1 + Len(c) : b[i] = c[i - 1]
  BY PrependType
<1>2. c = <<>> => Len(c) = 0
  OBVIOUS
<1>. SUFFICES ASSUME NEW i \in 1 .. Len(b)
              PROVE  FrameSound(b[i], st, sp) /\ (b[i].kind = "retry" => i = Len(b))
  BY DEF StackSound
<1>. HIDE DEF b
<1>3. CASE i = 1
  BY <1>1, <1>2, <1>3
<1>4. CASE i # 1
  <2>1. i - 1 \in 1 .. Len(c) /\ b[i] = c[i - 1]
    BY <1>1, <1>4
  <2>2. FrameSound(c[i - 1], st, sp) /\ (c[i - 1].kind = "retry" => i - 1 = Len(c))
    BY <2>1 DEF StackSound
  <2>. QED BY <1>1, <2>1, <2>2
<1>. QED BY <1>3, <1>4

(* The walk on top of a sound stack is sound, and so is the stack below it.  *)
LEMMA StackTop ==
    ASSUME calls \in Seq(Walk), ~Unlocked, NEW st, NEW sp, StackSound(calls, st, sp)
    PROVE  /\ FrameSound(top, st, sp)
           /\ StackSound(rest, st, sp)
           /\ top.kind = "retry" => rest = <<>>
<1>1. FrameSound(top, st, sp) /\ (top.kind = "retry" => Len(calls) = 1)
  BY StackType DEF StackSound
<1>2. Len(rest) = 0 => rest = <<>>
  BY StackType, EmptySeq
<1>3. ASSUME NEW i \in 1 .. Len(rest)
      PROVE  FrameSound(rest[i], st, sp) /\ (rest[i].kind = "retry" => i = Len(rest))
  <2>1. i + 1 \in 1 .. Len(calls) /\ rest[i] = calls[i + 1]
    BY StackType
  <2>. QED BY <2>1, StackType DEF StackSound
<1>. QED BY <1>1, <1>2, <1>3, StackType DEF StackSound

(* No walk, nothing that could be wrong.  *)
LEMMA EmptyStack ==
    ASSUME NEW st, NEW sp
    PROVE  StackSound(<<>>, st, sp)
BY DEF StackSound

(* A refresh adds a walk from j as a failure only when j is cancelled.  *)
LEMMA PropagateSound ==
    ASSUME NEW j \in Jobs, NEW c \in Seq(Walk), NEW st, NEW sp, st[j] \in Unsuccessful,
           StackSound(c, st, sp)
    PROVE  StackSound(Propagate(j, FALSE) \o c, st, sp)
<1>. DEFINE w == [kind |-> "propagate", work |-> << <<j, FALSE>> >>, success |-> FALSE,
                  left |-> {}]
<1>1. Propagate(j, FALSE) = <<w>>
  BY DEF Propagate
<1>2. w \in Walk
  <2>1. << <<j, FALSE>> >> \in Seq(Jobs \X BOOLEAN)
    <3>1. <<j, FALSE>> \in Jobs \X BOOLEAN
      OBVIOUS
    <3>2. \A x \in Jobs \X BOOLEAN : <<x>> \in Seq(Jobs \X BOOLEAN)
      OBVIOUS
    <3>. QED BY <3>1, <3>2, Zenon
  <2>. QED BY <2>1, WalkKinds DEF PropagateWalk
<1>3. FrameSound(w, st, sp)
  <2>1. /\ w.kind = "propagate" /\ w.success = FALSE /\ w.left = {}
        /\ Len(w.work) = 1 /\ w.work[1][1] = j /\ w.work[1][2] = FALSE
    OBVIOUS
  <2>. HIDE DEF w
  <2>. QED BY <2>1 DEF FrameSound
<1>. HIDE DEF w
<1>. QED BY <1>1, <1>2, <1>3, StackPush DEF w

(* A wave on top of a sound stack.  *)
LEMMA WaveSound ==
    ASSUME NEW j \in Jobs, NEW c \in Seq(Walk), NEW st, NEW sp, StackSound(c, st, sp)
    PROVE  StackSound(Wave(j) \o c, st, sp)
<1>. DEFINE w == [kind |-> "wave", work |-> <<j>>, seen |-> {}, left |-> {}]
<1>1. Wave(j) = <<w>>
  BY DEF Wave
<1>2. w \in Walk
  <2>1. Wave(j) \in Seq(Walk)
    BY NewWalks
  <2>. QED BY <1>1, <2>1
<1>3. FrameSound(w, st, sp) /\ w.kind # "retry"
  BY DEF FrameSound
<1>. HIDE DEF w
<1>. QED BY <1>1, <1>2, <1>3, StackPush

-----------------------------------------------------------------------------
(* What the steps do to states, dependencies and the reverse graph.  *)

(* A refresh moves its own job only, and only from Queued to Cancelled.  *)
LEMMA RefreshMoves ==
    ASSUME NEW j \in Jobs, NEW st \in [Jobs -> States], NEW sp, NEW why, NEW changed, NEW same,
           Refresh(j, st, sp, why, changed, same)
    PROVE  /\ spec' = sp
           /\ state' \in [Jobs -> States]
           /\ \A k \in Jobs : k # j => state'[k] = st[k]
           /\ \/ state'[j] = st[j]
              \/ st[j] = "Queued" /\ state'[j] = "Cancelled"
           /\ dep_rt' = [dep_rt EXCEPT ![j] = Build(sp[j], st)]
           /\ epoch' = [epoch EXCEPT ![j] = @ + 1]
<1>. USE NamesType
<1>1. state' = st \/ (st[j] = "Queued" /\ state' = [st EXCEPT ![j] = "Cancelled"])
  BY DEF Refresh
<1>. QED BY <1>1 DEF Refresh

(* The same of a refresh after which the dependents are refreshed.  *)
LEMMA RefreshJobMoves ==
    ASSUME NEW j \in Jobs, NEW st \in [Jobs -> States], NEW sp, NEW why, NEW others,
           RefreshJob(j, st, sp, why, others)
    PROVE  /\ spec' = sp
           /\ state' \in [Jobs -> States]
           /\ \A k \in Jobs : k # j => state'[k] = st[k]
           /\ \/ state'[j] = st[j]
              \/ st[j] = "Queued" /\ state'[j] = "Cancelled"
           /\ dep_rt' = [dep_rt EXCEPT ![j] = Build(sp[j], st)]
           /\ epoch' = [epoch EXCEPT ![j] = @ + 1]
BY RefreshMoves DEF RefreshJob

DepsKept == \A k \in Jobs : DepsOf(k)' = DepsOf(k)
Existing(S) == \A k \in Jobs \ S : state[k] = "Absent" <=> state'[k] = "Absent"

(* A handler gives job j the dependencies D: a new job, one that is edited, and one that
   waits for a retry from now on.  *)
NewJob(j, D) == state[j] = "Absent" /\ \A d \in D : d # j /\ state[d] # "Absent"
Edited(j, D) ==
    /\ state[j] # "Absent"
    /\ \A d \in D : d \in DepsOf(j) \/ (state[d] # "Absent" /\ ~Reaches(d, j))
Retargets(j, D) ==
    \E old, new \in Jobs :
        /\ old \in DepsOf(j)
        /\ new # old
        /\ state[j] # "Absent"
        /\ state[new] # "Absent"
        /\ D = (DepsOf(j) \ {old}) \cup {new}
        /\ DepsOf(new) = DepsOf(old)
Rewired(j, D) ==
    /\ D \in SUBSET Jobs
    /\ NewJob(j, D) \/ Edited(j, D) \/ Retargets(j, D)
    /\ state'[j] # "Absent"
    /\ Existing({j})
    /\ \A k \in Jobs : DepsOf(k)' = IF k = j THEN D ELSE DepsOf(k)
    /\ \A d, k \in Jobs :
              <<d, k>> \in edges' <=> IF k = j THEN d \in D ELSE <<d, k>> \in edges

Kept == /\ DepsKept
        /\ Existing({})
        /\ edges' = edges \/ edges' = UNION {EdgesTo(j, DepsOf(j)) : j \in Jobs}

(* The plan of one job is set, the others stay.  *)
LEMMA SpecSet ==
    ASSUME TypeOK, NEW j \in Jobs, NEW p \in Plan, spec' = [spec EXCEPT ![j] = p]
    PROVE  \A k \in Jobs : DepsOf(k)' = IF k = j THEN DepsIn(p) ELSE DepsOf(k)
BY DEF TypeOK, DepsOf

(* Plans that stay leave the dependencies as they are.  *)
LEMMA SpecKept ==
    ASSUME TypeOK, spec' = spec
    PROVE  DepsKept
BY DEF DepsKept, DepsOf

(* A begin time is no dependency.  *)
LEMMA SpecBegin ==
    ASSUME TypeOK, NEW j \in Jobs, NEW b, spec' = [spec EXCEPT ![j].begin = b]
    PROVE  /\ DepsKept
           /\ \A k \in Jobs : spec'[k] = IF k = j THEN [spec[j] EXCEPT !.begin = b] ELSE spec[k]
           /\ \A k \in Jobs : /\ spec'[k].mode = spec[k].mode
                              /\ spec'[k].again = spec[k].again
                              /\ spec'[k].auto = spec[k].auto
                              /\ spec'[k].key = spec[k].key
                              /\ k # j => spec'[k] = spec[k]
<1>1. \A k \in Jobs : spec[k] \in Plan
  BY DEF TypeOK
<1>2. \A k \in Jobs : spec'[k] = IF k = j THEN [spec[j] EXCEPT !.begin = b] ELSE spec[k]
  BY DEF TypeOK
<1>3. \A k \in Jobs : /\ spec'[k].ids = spec[k].ids
                      /\ spec'[k].legacy = spec[k].legacy
                      /\ spec'[k].mode = spec[k].mode
                      /\ spec'[k].again = spec[k].again
                      /\ spec'[k].auto = spec[k].auto
                      /\ spec'[k].key = spec[k].key
  BY <1>1, <1>2 DEF Plan
<1>. QED BY <1>2, <1>3 DEF DepsKept, DepsOf, DepsIn

(* While a job is retried it runs, and nothing else is below the walk.  *)
LEMMA RetryTop ==
    ASSUME Core, ~Unlocked, top.kind = "retry"
    PROVE  /\ FrameSound(top, state, spec)
           /\ rest = <<>>
           /\ top \in RetryWalk
           /\ top.old \in Jobs /\ top.new \in Jobs
           /\ state[top.old] = "Running"
           /\ state[top.new] # "Absent"
           /\ top.new # top.old
           /\ DepsOf(top.new) = DepsOf(top.old)
<1>1. top = calls[1] /\ top \in Walk
  BY StackType DEF Core, TypeOK
<1>2. StackSound(calls, state, spec)
  BY <1>1 DEF Core, WalksSound, SuccessWalk
<1>3. FrameSound(top, state, spec) /\ rest = <<>>
  BY <1>2, StackTop DEF Core, TypeOK
<1>4. top \in RetryWalk
  BY <1>1, WalkKinds
<1>. QED BY <1>3, <1>4 DEF FrameSound, RetryWalk, DepsOf

(* Every step leaves dependencies and graph alone, or rewires one job and its edges
   with it.  *)
LEMMA StepEffect ==
    ASSUME Core, [Next]_vars
    PROVE  Kept \/ \E j \in Jobs : \E D \in SUBSET Jobs : Rewired(j, D)
<1>. USE NamesType DEF Core
<1>0. state \in [Jobs -> States] /\ spec \in [Jobs -> Plan]
  BY DEF TypeOK
<1>1. ASSUME NEW j \in Jobs, Submit(j) PROVE \E D \in SUBSET Jobs : Rewired(j, D)
  <2>1. PICK p \in Allowed.plans[j] :
           /\ \A d \in DepsIn(p) : state[d] # "Absent"
           /\ edges' = edges \cup EdgesTo(j, DepsIn(p))
           /\ RefreshJob(j, Moved({j}, "Queued"), [spec EXCEPT ![j] = p], "None", <<>>)
    BY <1>1 DEF Submit
  <2>2. p \in Plan /\ DepsIn(p) \in SUBSET Jobs
    BY SetupsAssumption, DepsType DEF TypeOK, Allowed
  <2>3. state[j] = "Absent"
    BY <1>1 DEF Submit, Next_id
  <2>4. Moved({j}, "Queued") \in [Jobs -> States]
    BY MovedType
  <2>5. /\ spec' = [spec EXCEPT ![j] = p]
        /\ \A k \in Jobs : k # j => state'[k] = Moved({j}, "Queued")[k]
        /\ state'[j] \in {"Queued", "Cancelled"}
    BY <2>1, <2>4, RefreshJobMoves DEF Moved
  <2>6. Existing({j}) /\ state'[j] # "Absent"
    BY <2>5 DEF Existing, Moved
  <2>7. \A k \in Jobs : DepsOf(k)' = IF k = j THEN DepsIn(p) ELSE DepsOf(k)
    BY <2>2, <2>5, SpecSet
  <2>8. NewJob(j, DepsIn(p))
    BY <2>1, <2>3 DEF NewJob
  <2>9. \A d \in Jobs : <<d, j>> \notin edges
    BY <2>3, GraphEdges DEF JobsSound
  <2>10. \A d, k \in Jobs : <<d, k>> \in edges' <=> IF k = j THEN d \in DepsIn(p)
                                                    ELSE <<d, k>> \in edges
    BY <2>1, <2>9 DEF EdgesTo
  <2>. QED BY <2>2, <2>6, <2>7, <2>8, <2>10 DEF Rewired
<1>2. ASSUME NEW j \in Jobs, Hold(j) PROVE Kept
  BY <1>0, <1>2, SpecKept DEF Hold, Moved, CanTransitionTo, Kept, Existing
<1>3. ASSUME NEW j \in Jobs, Release(j) PROVE Kept
  <2>1. Moved({j}, "Queued") \in [Jobs -> States]
    BY MovedType
  <2>2. spec' = spec /\ edges' = edges /\ state[j] # "Absent"
    BY <1>0, <1>3, <2>1, RefreshJobMoves DEF Release, CanTransitionTo
  <2>3. \A k \in Jobs : k # j => state'[k] = state[k]
    BY <1>3, <2>1, RefreshJobMoves DEF Release, Moved
  <2>4. state'[j] # "Absent"
    BY <1>3, <2>1, RefreshJobMoves DEF Release, Moved
  <2>. QED BY <2>2, <2>3, <2>4, SpecKept DEF Kept, Existing
<1>4. ASSUME NEW j \in Jobs, ReleaseAt(j) PROVE Kept
  <2>. DEFINE sp == [spec EXCEPT ![j].begin = "future"]
  <2>1. Moved({j}, "Queued") \in [Jobs -> States]
    BY MovedType
  <2>2. CASE "Queued" \in CanTransitionTo[state[j]]
    <3>1. RefreshJob(j, Moved({j}, "Queued"), sp, "None", <<>>) /\ edges' = edges
      BY <1>4, <2>2 DEF ReleaseAt
    <3>2. spec' = sp /\ (\A k \in Jobs : k # j => state'[k] = state[k]) /\ state'[j] # "Absent"
      BY <2>1, <3>1, RefreshJobMoves DEF Moved
    <3>3. state[j] # "Absent"
      BY <1>0, <2>2 DEF CanTransitionTo
    <3>. QED BY <3>1, <3>2, <3>3, SpecBegin DEF Kept, Existing
  <2>3. CASE "Queued" \notin CanTransitionTo[state[j]]
    <3>1. spec' = sp /\ state' = state /\ edges' = edges
      BY <1>4, <2>3 DEF ReleaseAt
    <3>. QED BY <3>1, SpecBegin DEF Kept, Existing
  <2>. QED BY <2>2, <2>3
<1>5. ASSUME NEW j \in Jobs, NEW final \in Ended, NEW why, End(j, final, why) PROVE Kept
  BY <1>0, <1>5, SpecKept DEF End, Moved, CanTransitionTo, Kept, Existing, Ended
<1>6. ASSUME NEW j \in Jobs, Update(j) PROVE \E D \in SUBSET Jobs : Rewired(j, D)
  <2>1. PICK p \in Revised(j) :
           /\ edges' = Relinked(j, p)
           /\ RefreshJob(j, state, [spec EXCEPT ![j] = p], reason[j], <<>>)
    BY <1>6 DEF Update
  <2>2. p \in Plan /\ DepsIn(p) \in SUBSET Jobs
    BY RevisedType, DepsType
  <2>3. state[j] \in {"Queued", "Hold"}
    BY <1>6 DEF Update, MayUpdate
  <2>4. /\ spec' = [spec EXCEPT ![j] = p]
        /\ \A k \in Jobs : k # j => state'[k] = state[k]
        /\ state'[j] # "Absent"
    <3>. DEFINE sp == [spec EXCEPT ![j] = p]
    <3>1. RefreshJob(j, state, sp, reason[j], <<>>)
      BY <2>1
    <3>. HIDE DEF sp
    <3>2. /\ spec' = sp
          /\ \A k \in Jobs : k # j => state'[k] = state[k]
          /\ state'[j] = state[j] \/ state'[j] = "Cancelled"
      BY <1>0, <3>1, RefreshJobMoves
    <3>. QED BY <2>3, <3>2 DEF sp
  <2>5. Existing({j})
    BY <2>4 DEF Existing
  <2>6. \A k \in Jobs : DepsOf(k)' = IF k = j THEN DepsIn(p) ELSE DepsOf(k)
    BY <2>2, <2>4, SpecSet
  <2>7. Edited(j, DepsIn(p))
    <3>1. p.ids = spec[j].ids \/ \A d \in p.ids : state[d] # "Absent" /\ ~Reaches(d, j)
      BY RevisedType DEF AllowedDep
    <3>2. DepsIn(p) = p.ids \cup ({spec[j].legacy} \ {NoJob})
      BY RevisedType DEF DepsIn
    <3>3. DepsOf(j) = spec[j].ids \cup ({spec[j].legacy} \ {NoJob})
      BY DEF DepsIn, DepsOf
    <3>4. ASSUME NEW d \in DepsIn(p), d \notin DepsOf(j)
          PROVE  state[d] # "Absent" /\ ~Reaches(d, j)
      <4>1. d \in p.ids /\ d \notin spec[j].ids
        BY <3>2, <3>3, <3>4
      <4>. QED BY <3>1, <4>1
    <3>5. \A d \in DepsIn(p) : d \in DepsOf(j) \/ (state[d] # "Absent" /\ ~Reaches(d, j))
      BY <3>4
    <3>6. state[j] # "Absent"
      BY <2>3
    <3>. QED BY <3>5, <3>6, Zenon DEF Edited
  <2>8. \A d, k \in Jobs : <<d, k>> \in edges' <=> IF k = j THEN d \in DepsIn(p)
                                                   ELSE <<d, k>> \in edges
    <3>1. \A d \in Jobs : <<d, j>> \in edges <=> d \in DepsOf(j)
      BY GraphEdges
    <3>. QED BY <2>1, <3>1 DEF EdgesTo, Relinked
  <2>. QED BY <2>2, <2>4, <2>5, <2>6, <2>7, <2>8 DEF Rewired
<1>7. ASSUME NEW j \in Jobs, Tick(j) PROVE Kept
  BY <1>7, SpecBegin DEF Tick, Kept, Existing
<1>8. ASSUME NEW j \in Jobs, PropagateTo(j) PROVE Kept
  <2>1. spec' = spec /\ edges' = edges
    BY <1>8 DEF PropagateTo
  <2>2. state' = state \/ (state[j] = "Queued" /\ state' = Moved({j}, "Cancelled"))
    BY <1>8 DEF PropagateTo
  <2>. QED BY <1>0, <2>1, <2>2, SpecKept DEF Kept, Existing, Moved
<1>9. ASSUME NEW j \in Jobs, WaveTo(j) PROVE Kept
  <2>. DEFINE next == [top EXCEPT !.left = @ \ {j}]
  <2>1. CASE state[j] = "Queued"
    <3>1. /\ edges' = edges
          /\ Refresh(j, state, spec, reason[j], With([next EXCEPT !.work = Append(@, j)]),
                     With(next))
      BY <1>9, <2>1 DEF WaveTo
    <3>. HIDE DEF next
    <3>2. spec' = spec /\ (\A k \in Jobs : k # j => state'[k] = state[k]) /\ state'[j] # "Absent"
      BY <1>0, <2>1, <3>1, RefreshMoves
    <3>. QED BY <2>1, <3>1, <3>2, SpecKept DEF Kept, Existing
  <2>2. CASE state[j] # "Queued"
    BY <1>9, <2>2, SpecKept DEF WaveTo, Kept, Existing
  <2>. QED BY <2>1, <2>2
<1>10. ASSUME NEW j \in Jobs, Retarget(j)
       PROVE  Kept \/ \E D \in SUBSET Jobs : Rewired(j, D)
  <2>. DEFINE next == [top EXCEPT !.left = @ \ {j}]
              p == RetargetedPlan(j, top.old, top.new)
              D == (DepsOf(j) \ {top.old}) \cup {top.new}
  <2>1. ~Unlocked /\ top.kind = "retry"
    BY <1>10 DEF Retarget, In
  <2>2. CASE state[j] \in Retargeted /\ top.old \in DepsOf(j)
    <3>1. /\ edges' = (edges \ {<<top.old, j>>}) \cup EdgesTo(j, D)
          /\ RefreshJob(j, state, [spec EXCEPT ![j] = p], reason[j], With(next))
      BY <1>10, <2>2 DEF Retarget, RetargetedPlan
    <3>2. p \in Plan /\ DepsIn(p) = D /\ D \in SUBSET Jobs
      BY <2>1, RetryTop, RetargetedPlanType, DepsAreJobs
    <3>. HIDE DEF next, p
    <3>3. /\ spec' = [spec EXCEPT ![j] = p]
          /\ \A k \in Jobs : k # j => state'[k] = state[k]
          /\ state'[j] # "Absent"
      <4>. DEFINE sp == [spec EXCEPT ![j] = p]
      <4>1. RefreshJob(j, state, sp, reason[j], With(next))
        BY <3>1
      <4>. HIDE DEF sp
      <4>2. /\ spec' = sp
            /\ \A k \in Jobs : k # j => state'[k] = state[k]
            /\ state'[j] = state[j] \/ state'[j] = "Cancelled"
        BY <1>0, <4>1, RefreshJobMoves
      <4>. QED BY <2>2, <4>2 DEF sp, Retargeted
    <3>4. \A k \in Jobs : DepsOf(k)' = IF k = j THEN D ELSE DepsOf(k)
      BY <3>2, <3>3, SpecSet
    <3>5. Retargets(j, D)
      BY <2>1, <2>2, RetryTop DEF Retargets, Retargeted
    <3>6. \A d, k \in Jobs : <<d, k>> \in edges' <=> IF k = j THEN d \in D
                                                     ELSE <<d, k>> \in edges
      <4>1. \A d \in Jobs : <<d, j>> \in edges <=> d \in DepsOf(j)
        BY GraphEdges
      <4>2. \A d, k \in Jobs : <<d, k>> \in EdgesTo(j, D) <=> k = j /\ d \in D
        BY <3>2 DEF EdgesTo
      <4>3. \A d, k \in Jobs : <<d, k>> = <<top.old, j>> <=> d = top.old /\ k = j
        OBVIOUS
      <4>4. top.old # top.new
        BY <2>1, RetryTop
      <4>. QED BY <3>1, <4>1, <4>2, <4>3, <4>4
    <3>. QED BY <3>2, <3>3, <3>4, <3>5, <3>6 DEF Rewired, Existing
  <2>3. CASE ~(state[j] \in Retargeted /\ top.old \in DepsOf(j))
    BY <1>10, <2>3, SpecKept DEF Retarget, Kept, Existing
  <2>. QED BY <2>2, <2>3
<1>11. ASSUME NEW j \in Jobs, NEW n \in Jobs, FailAndRetry(j, n)
       PROVE  \E D \in SUBSET Jobs : Rewired(n, D)
  <2>. DEFINE w == [kind |-> "retry", old |-> j, new |-> n, left |-> Dependents(j)]
              p == RetryPlan(j)
              D == DepsOf(j)
  <2>1. p \in Plan /\ DepsIn(p) = D /\ D \in SUBSET Jobs
    BY <1>11, RetryPlanType, DepsAreJobs DEF FailAndRetry
  <2>2. /\ edges' = edges \cup EdgesTo(n, D)
        /\ RefreshJob(n, Moved({n}, "Queued"), [spec EXCEPT ![n] = p], "None", <<w>>)
    BY <1>11 DEF FailAndRetry, RetryPlan
  <2>3. Moved({n}, "Queued") \in [Jobs -> States] /\ state[n] = "Absent"
    BY <1>11, MovedType DEF FailAndRetry, Next_id
  <2>. HIDE DEF w, p
  <2>4. /\ spec' = [spec EXCEPT ![n] = p]
        /\ \A k \in Jobs : k # n => state'[k] = state[k]
        /\ state'[n] # "Absent"
    BY <2>2, <2>3, RefreshJobMoves DEF Moved
  <2>5. \A k \in Jobs : DepsOf(k)' = IF k = n THEN D ELSE DepsOf(k)
    BY <2>1, <2>4, SpecSet
  <2>6. NewJob(n, D)
    BY <2>3 DEF NewJob, JobsSound
  <2>7. \A d \in Jobs : <<d, n>> \notin edges
    BY <2>3, GraphEdges DEF JobsSound
  <2>8. \A d, k \in Jobs : <<d, k>> \in edges' <=> IF k = n THEN d \in D ELSE <<d, k>> \in edges
    BY <2>2, <2>7 DEF EdgesTo
  <2>. QED BY <2>1, <2>4, <2>5, <2>6, <2>8 DEF Rewired, Existing
<1>12. CASE ReleaseDue
  BY <1>12, SpecKept DEF ReleaseDue, Kept, Existing
<1>13. CASE Pass
  <2>1. PICK S \in SUBSET Runnable : state' = Moved(S, "Running")
    BY <1>13 DEF Pass
  <2>2. \A k \in S : state[k] = "Queued"
    BY DEF Runnable, Valid
  <2>. QED BY <1>0, <1>13, <2>1, <2>2, SpecKept DEF Pass, Kept, Existing, Moved
<1>14. CASE Restart
  BY <1>14, SpecKept DEF Restart, Kept, Existing
<1>15. CASE NextSource
  BY <1>15, SpecKept DEF NextSource, Kept, Existing
<1>16. CASE NextWave
  BY <1>16, SpecKept DEF NextWave, Kept, Existing
<1>17. CASE Return
  <2>1. CASE top.kind = "retry"
    <3>1. state[top.old] = "Running" /\ state' = Moved({top.old}, "Failed")
      BY <1>17, <2>1, RetryTop DEF Return
    <3>. QED BY <1>0, <1>17, <3>1, SpecKept DEF Return, Kept, Existing, Moved
  <2>2. CASE top.kind # "retry"
    BY <1>17, <2>2, SpecKept DEF Return, Kept, Existing
  <2>. QED BY <2>1, <2>2
<1>18. CASE UNCHANGED vars
  BY <1>18, SpecKept DEF vars, Kept, Existing
<1>19. Ended = {"Finished", "Failed", "Cancelled"}
  BY DEF Ended
<1>. QED
  BY <1>1, <1>2, <1>3, <1>4, <1>5, <1>6, <1>7, <1>8, <1>9, <1>10, <1>11, <1>12, <1>13, <1>14,
     <1>15, <1>16, <1>17, <1>18, <1>19 DEF Next, Cancel, Finish, Fail

(* The reverse graph stays exact ...  *)
LEMMA GraphStep ==
    ASSUME Core, [Next]_vars
    PROVE  GraphExact' /\ JobsSound'
<1>. USE DEF Core
<1>1. TypeOK'
  BY TypeStep
<1>2. GraphExact' <=> \A d, k \in Jobs : <<d, k>> \in edges' <=> d \in DepsOf(k)'
  <2>. DEFINE D == [k \in Jobs |-> DepsIn(spec'[k])]
  <2>1. D \in [Jobs -> SUBSET Jobs] /\ edges' \in SUBSET (Jobs \X Jobs)
    BY <1>1, DepsType DEF TypeOK
  <2>2. {EdgesTo(j, D[j]) : j \in Jobs} = {EdgesTo(j, DepsIn(spec'[j])) : j \in Jobs}
    OBVIOUS
  <2>3. \A k \in Jobs : D[k] = DepsIn(spec'[k])
    OBVIOUS
  <2>. HIDE DEF D
  <2>. QED BY <2>1, <2>2, <2>3, EdgesExact DEF GraphExact, DepsOf
<1>3. CASE Kept
  <2>1. \A k \in Jobs : DepsOf(k)' = DepsOf(k)
    BY <1>3 DEF Kept, DepsKept
  <2>2. edges' = UNION {EdgesTo(j, DepsOf(j)) : j \in Jobs}
    BY <1>3 DEF Kept, GraphExact
  <2>3. edges' = edges
    BY <2>2 DEF GraphExact
  <2>4. GraphExact'
    BY <1>2, <2>1, <2>3, GraphEdges
  <2>5. \A k \in Jobs : state[k] = "Absent" <=> state'[k] = "Absent"
    BY <1>3 DEF Kept, Existing
  <2>6. JobsSound'
    BY <2>1, <2>5, DepsAreJobs DEF JobsSound
  <2>. QED BY <2>4, <2>6
<1>4. ASSUME NEW j \in Jobs, NEW D \in SUBSET Jobs, Rewired(j, D) PROVE GraphExact' /\ JobsSound'
  <2>1. /\ \A k \in Jobs : DepsOf(k)' = IF k = j THEN D ELSE DepsOf(k)
        /\ \A d, k \in Jobs :
              <<d, k>> \in edges' <=> IF k = j THEN d \in D ELSE <<d, k>> \in edges
        /\ state'[j] # "Absent"
        /\ \A k \in Jobs \ {j} : state[k] = "Absent" <=> state'[k] = "Absent"
    BY <1>4 DEF Rewired, Existing
  <2>2. \A d \in D : d # j => state[d] # "Absent"
    BY <1>4 DEF Rewired, NewJob, Edited, Retargets, JobsSound
  <2>3. GraphExact'
    BY <1>2, <2>1, GraphEdges
  <2>4. JobsSound'
    BY <2>1, <2>2, DepsAreJobs DEF JobsSound
  <2>. QED BY <2>3, <2>4
<1>. QED BY <1>3, <1>4, StepEffect

(* ... and without a cycle: jobs that form one after the step formed one before, or the
   update that closed it was refused.  *)
LEMMA NoCycleStep ==
    ASSUME Core, [Next]_vars
    PROVE  NoCycle'
<1>. USE DEF Core
<1>1. CASE Kept
  BY <1>1 DEF Kept, DepsKept, NoCycle
<1>2. ASSUME NEW j \in Jobs, NEW D \in SUBSET Jobs, Rewired(j, D) PROVE NoCycle'
  <2>1. \A k \in Jobs : DepsOf(k)' = IF k = j THEN D ELSE DepsOf(k)
    BY <1>2 DEF Rewired
  <2>. SUFFICES ASSUME NEW S \in SUBSET Jobs, S # {}, \A k \in S : DepsOf(k)' \cap S # {}
                PROVE  FALSE
    BY DEF NoCycle
  <2>2. \A T \in SUBSET Jobs : T # {} => \E k \in T : DepsOf(k) \cap T = {}
    BY DEF NoCycle
  <2>3. j \in S
    BY <2>1, <2>2
  <2>4. PICK d \in D : d \in S
    BY <2>1, <2>3
  <2>5. CASE NewJob(j, D)
    <3>1. d # j /\ \A k \in Jobs : j \notin DepsOf(k)
      BY <2>5 DEF NewJob, JobsSound
    <3>2. S \ {j} # {} /\ \A k \in S \ {j} : DepsOf(k) \cap (S \ {j}) # {}
      BY <2>1, <2>4, <3>1
    <3>. QED BY <2>2, <3>2
  <2>6. CASE Edited(j, D)
    <3>1. \E e \in D : e \in S /\ e \notin DepsOf(j)
      <4>1. CASE \A e \in D : e \in S => e \in DepsOf(j)
        BY <2>1, <2>2, <2>4, <4>1
      <4>. QED BY <4>1
    <3>2. PICK e \in D : e \in S /\ ~Reaches(e, j)
      BY <2>6, <3>1 DEF Edited
    <3>3. PICK T \in SUBSET Jobs : /\ e \in T
                                   /\ \A x \in T : DepsOf(x) \subseteq T
                                   /\ j \notin T
      BY <3>2 DEF Reaches
    <3>4. S \cap T # {} /\ \A k \in S \cap T : DepsOf(k) \cap (S \cap T) # {}
      BY <2>1, <3>2, <3>3
    <3>. QED BY <2>2, <3>4
  <2>7. CASE Retargets(j, D)
    <3>1. PICK old \in Jobs, new \in Jobs :
             /\ old \in DepsOf(j)
             /\ D = (DepsOf(j) \ {old}) \cup {new}
             /\ DepsOf(new) = DepsOf(old)
      BY <2>7 DEF Retargets
    <3>2. j # old
      BY <3>1, NotOnItself
    <3>3. new # j
      BY <3>1, NotOnItself
    <3>. DEFINE T == IF new \in S THEN S \cup {old} ELSE S
    <3>4. \A k \in T : DepsOf(k) \cap T # {}
      <4>1. ASSUME NEW k \in S, k # j PROVE DepsOf(k) \cap T # {}
        BY <2>1, <4>1
      <4>2. DepsOf(j) \cap T # {}
        BY <2>1, <2>4, <3>1
      <4>3. new \in S => DepsOf(old) \cap T # {}
        BY <2>1, <3>1, <3>3
      <4>. QED BY <4>1, <4>2, <4>3
    <3>5. T \in SUBSET Jobs /\ T # {}
      BY <2>3
    <3>. QED BY <2>2, <3>4, <3>5
  <2>. QED BY <1>2, <2>5, <2>6, <2>7 DEF Rewired
<1>. QED BY <1>1, <1>2, StepEffect

-----------------------------------------------------------------------------
(* The verdicts.  *)

(* Counters that are built afresh have the verdict of what they count.  *)
LEMMA BuildVerdict ==
    ASSUME NEW sp \in Plan, NEW st \in [Jobs -> States]
    PROVE  LET rt == Build(sp, st)
           IN  /\ rt = Judged(sp.mode, Listed(sp, DepsIn(sp)), rt.success, rt.failure)
               /\ rt.success = Listed(sp, {d \in DepsIn(sp) : st[d] = "Finished"})
               /\ rt.failure = Listed(sp, {d \in DepsIn(sp) : st[d] \in Unsuccessful})
<1>1. /\ Listed(sp, DepsIn(sp)) \in Nat
      /\ Listed(sp, {d \in DepsIn(sp) : st[d] = "Finished"}) \in Nat
      /\ Listed(sp, {d \in DepsIn(sp) : st[d] \in Unsuccessful}) \in Nat
  <2>1. /\ DepsIn(sp) \in SUBSET Jobs
        /\ {d \in DepsIn(sp) : st[d] = "Finished"} \in SUBSET Jobs
        /\ {d \in DepsIn(sp) : st[d] \in Unsuccessful} \in SUBSET Jobs
    BY DepsType
  <2>. QED BY <2>1, ListedType
<1>. QED BY <1>1, JudgedType DEF Build

VerdictSound(k, sp, rt) ==
    rt = Judged(sp.mode, Listed(sp, DepsIn(sp)), rt.success, rt.failure)

(* Everything but the walk of an ended job rebuilds counters or leaves them alone, and
   edits of a plan that change what they are judged by come with a rebuild.  *)
RebuiltOnly(j, sp, st) ==
    /\ dep_rt' = [dep_rt EXCEPT ![j] = Build(sp[j], st)]
    /\ spec' = sp
    /\ \A k \in Jobs : k # j => spec'[k] = spec[k]

(* The verdicts stay those of the counters.  *)
LEMMA VerdictsStep ==
    ASSUME Core, [Next]_vars
    PROVE  VerdictsSound'
<1>. USE DEF Core
<1>0. /\ state \in [Jobs -> States] /\ spec \in [Jobs -> Plan] /\ dep_rt \in [Jobs -> Counters]
  BY DEF TypeOK
<1>1. VerdictsSound <=> \A k \in Jobs : state[k] # "Absent" => VerdictSound(k, spec[k], dep_rt[k])
  BY DEF VerdictsSound, VerdictSound, DepsOf
<1>2. VerdictsSound' <=> \A k \in Jobs : state'[k] # "Absent"
                                            => VerdictSound(k, spec'[k], dep_rt'[k])
  BY DEF VerdictsSound, VerdictSound, DepsOf
<1>3. ASSUME NEW sp \in Plan, NEW st \in [Jobs -> States], NEW k
      PROVE  VerdictSound(k, sp, Build(sp, st))
  BY <1>3, BuildVerdict DEF VerdictSound
<1>4. ASSUME NEW j \in Jobs, NEW sp \in [Jobs -> Plan], NEW st \in [Jobs -> States],
             RebuiltOnly(j, sp, st),
             \A k \in Jobs : k # j => (state[k] = "Absent" <=> state'[k] = "Absent")
      PROVE  VerdictsSound'
  <2>1. VerdictSound(j, spec'[j], dep_rt'[j])
    BY <1>0, <1>3, <1>4 DEF RebuiltOnly
  <2>2. \A k \in Jobs : k # j => dep_rt'[k] = dep_rt[k] /\ spec'[k] = spec[k]
    BY <1>0, <1>4 DEF RebuiltOnly
  <2>. QED BY <1>1, <1>2, <1>4, <2>1, <2>2
<1>5. ASSUME spec' = spec, dep_rt' = dep_rt,
             \A k \in Jobs : state[k] = "Absent" <=> state'[k] = "Absent"
      PROVE  VerdictsSound'
  BY <1>1, <1>2, <1>5
<1>. USE NamesType
<1>6. ASSUME NEW j \in Jobs, Submit(j) PROVE VerdictsSound'
  <2>1. PICK p \in Allowed.plans[j] :
           RefreshJob(j, Moved({j}, "Queued"), [spec EXCEPT ![j] = p], "None", <<>>)
    BY <1>6 DEF Submit
  <2>2. p \in Plan
    BY SetupsAssumption DEF TypeOK, Allowed
  <2>. DEFINE sp == [spec EXCEPT ![j] = p]
  <2>3. /\ Moved({j}, "Queued") \in [Jobs -> States] /\ sp \in [Jobs -> Plan]
    BY <2>2, MovedType, PlanType
  <2>4. \A k \in Jobs : k # j => sp[k] = spec[k]
    BY <1>0
  <2>5. RefreshJob(j, Moved({j}, "Queued"), sp, "None", <<>>)
    BY <2>1, Zenon
  <2>. HIDE DEF sp
  <2>. QED BY <1>4, <2>3, <2>4, <2>5, RefreshJobMoves DEF RebuiltOnly, Moved
<1>7. ASSUME NEW j \in Jobs, Hold(j) PROVE VerdictsSound'
  BY <1>0, <1>5, <1>7 DEF Hold, Moved, CanTransitionTo
<1>8. ASSUME NEW j \in Jobs, Release(j) PROVE VerdictsSound'
  <2>1. Moved({j}, "Queued") \in [Jobs -> States]
    BY MovedType
  <2>. QED BY <1>0, <1>4, <1>8, <2>1, RefreshJobMoves DEF Release, RebuiltOnly, Moved
<1>9. ASSUME NEW j \in Jobs, ReleaseAt(j) PROVE VerdictsSound'
  <2>. DEFINE sp == [spec EXCEPT ![j].begin = "future"]
  <2>1. Moved({j}, "Queued") \in [Jobs -> States] /\ sp \in [Jobs -> Plan]
    <3>1. [spec[j] EXCEPT !.begin = "future"] \in Plan
      BY <1>0 DEF Plan
    <3>. QED BY <1>0, <3>1, MovedType
  <2>2. CASE "Queued" \in CanTransitionTo[state[j]]
    <3>1. RefreshJob(j, Moved({j}, "Queued"), sp, "None", <<>>)
      BY <1>9, <2>2 DEF ReleaseAt
    <3>2. \A k \in Jobs : k # j => sp[k] = spec[k]
      BY <1>0
    <3>. HIDE DEF sp
    <3>. QED BY <1>4, <2>1, <3>1, <3>2, RefreshJobMoves DEF RebuiltOnly, Moved
  <2>3. CASE "Queued" \notin CanTransitionTo[state[j]]
    <3>1. spec' = sp /\ state' = state /\ dep_rt' = dep_rt
      BY <1>9, <2>3 DEF ReleaseAt
    <3>2. \A k \in Jobs : /\ spec'[k].mode = spec[k].mode
                          /\ spec'[k].again = spec[k].again
                          /\ DepsOf(k)' = DepsOf(k)
      BY <3>1, SpecBegin DEF DepsKept
    <3>. QED BY <3>1, <3>2 DEF VerdictsSound, Listed
  <2>. QED BY <2>2, <2>3
<1>10. ASSUME NEW j \in Jobs, NEW final \in Ended, NEW why, End(j, final, why)
       PROVE  VerdictsSound'
  BY <1>0, <1>5, <1>10 DEF End, Moved, CanTransitionTo, Ended
<1>11. ASSUME NEW j \in Jobs, Update(j) PROVE VerdictsSound'
  <2>1. PICK p \in Revised(j) : RefreshJob(j, state, [spec EXCEPT ![j] = p], reason[j], <<>>)
    BY <1>11 DEF Update
  <2>. DEFINE sp == [spec EXCEPT ![j] = p]
  <2>2. sp \in [Jobs -> Plan] /\ \A k \in Jobs : k # j => sp[k] = spec[k]
    BY <1>0, RevisedType, PlanType
  <2>3. RefreshJob(j, state, sp, reason[j], <<>>)
    BY <2>1
  <2>. HIDE DEF sp
  <2>4. RebuiltOnly(j, sp, state) /\ \A k \in Jobs : k # j => state'[k] = state[k]
    BY <1>0, <2>2, <2>3, RefreshJobMoves DEF RebuiltOnly
  <2>. QED BY <1>0, <1>4, <2>2, <2>4
<1>12. ASSUME NEW j \in Jobs, Tick(j) PROVE VerdictsSound'
  <2>1. \A k \in Jobs : /\ spec'[k].mode = spec[k].mode
                        /\ spec'[k].again = spec[k].again
                        /\ DepsOf(k)' = DepsOf(k)
    BY <1>12, SpecBegin DEF DepsKept, Tick
  <2>. QED BY <1>12, <2>1 DEF VerdictsSound, Listed, Tick
<1>13. ASSUME NEW j \in Jobs, PropagateTo(j) PROVE VerdictsSound'
  <2>. DEFINE rt == Count(dep_rt[j], spec[j].mode, top.success)
  <2>1. /\ dep_rt' = [dep_rt EXCEPT ![j] = rt] /\ spec' = spec
        /\ state' = state \/ (state[j] = "Queued" /\ state' = Moved({j}, "Cancelled"))
    BY <1>13 DEF PropagateTo
  <2>2. \A k \in Jobs : state[k] = "Absent" <=> state'[k] = "Absent"
    BY <1>0, <2>1 DEF Moved
  <2>3. \A k \in Jobs : k # j => dep_rt'[k] = dep_rt[k]
    BY <1>0, <2>1
  <2>4. VerdictSound(j, spec[j], dep_rt[j]) => VerdictSound(j, spec[j], rt)
    <3>1. dep_rt[j] \in Counters
      BY <1>0
    <3>2. dep_rt[j].total \in Nat /\ dep_rt[j].success \in Nat /\ dep_rt[j].failure \in Nat
      BY <3>1 DEF Counters
    <3>3. Listed(spec[j], DepsIn(spec[j])) \in Nat
      BY <1>0, DepsType, ListedType
    <3>4. VerdictSound(j, spec[j], dep_rt[j])
             => dep_rt[j].total = Listed(spec[j], DepsIn(spec[j]))
      BY <3>2, <3>3, JudgedType DEF VerdictSound
    <3>5. dep_rt[j].success + 1 \in Nat /\ dep_rt[j].failure + 1 \in Nat
      BY <3>2
    <3>. QED BY <3>2, <3>3, <3>4, <3>5, JudgedType DEF VerdictSound, Count
  <2>. HIDE DEF rt
  <2>. QED BY <1>0, <1>1, <1>2, <2>1, <2>2, <2>3, <2>4
<1>14. ASSUME NEW j \in Jobs, WaveTo(j) PROVE VerdictsSound'
  <2>. DEFINE next == [top EXCEPT !.left = @ \ {j}]
  <2>1. CASE state[j] = "Queued"
    <3>1. Refresh(j, state, spec, reason[j], With([next EXCEPT !.work = Append(@, j)]),
                With(next))
      BY <1>14, <2>1 DEF WaveTo
    <3>. HIDE DEF next
    <3>2. RebuiltOnly(j, spec, state) /\ \A k \in Jobs : k # j => state'[k] = state[k]
      BY <1>0, <3>1, RefreshMoves DEF RebuiltOnly
    <3>. QED BY <1>0, <1>4, <3>2
  <2>2. CASE state[j] # "Queued"
    BY <1>5, <1>14, <2>2 DEF WaveTo
  <2>. QED BY <2>1, <2>2
<1>15. ASSUME NEW j \in Jobs, Retarget(j) PROVE VerdictsSound'
  <2>. DEFINE next == [top EXCEPT !.left = @ \ {j}]
              sp == [spec EXCEPT ![j] = RetargetedPlan(j, top.old, top.new)]
  <2>1. ~Unlocked /\ top.kind = "retry"
    BY <1>15 DEF Retarget, In
  <2>2. CASE state[j] \in Retargeted /\ top.old \in DepsOf(j)
    <3>1. RefreshJob(j, state, sp, reason[j], With(next))
      BY <1>15, <2>2 DEF Retarget, RetargetedPlan
    <3>2. sp \in [Jobs -> Plan] /\ \A k \in Jobs : k # j => sp[k] = spec[k]
      BY <1>0, <2>1, RetryTop, RetargetedPlanType, PlanType
    <3>. HIDE DEF next, sp
    <3>3. RebuiltOnly(j, sp, state) /\ \A k \in Jobs : k # j => state'[k] = state[k]
      BY <1>0, <3>1, <3>2, RefreshJobMoves DEF RebuiltOnly
    <3>. QED BY <1>0, <1>4, <3>2, <3>3
  <2>3. CASE ~(state[j] \in Retargeted /\ top.old \in DepsOf(j))
    BY <1>5, <1>15, <2>3 DEF Retarget
  <2>. QED BY <2>2, <2>3
<1>16. ASSUME NEW j \in Jobs, NEW n \in Jobs, FailAndRetry(j, n) PROVE VerdictsSound'
  <2>. DEFINE w == [kind |-> "retry", old |-> j, new |-> n, left |-> Dependents(j)]
              sp == [spec EXCEPT ![n] = RetryPlan(j)]
  <2>1. sp \in [Jobs -> Plan] /\ \A k \in Jobs : k # n => sp[k] = spec[k]
    BY <1>0, <1>16, RetryPlanType, PlanType DEF FailAndRetry
  <2>2. RefreshJob(n, Moved({n}, "Queued"), sp, "None", <<w>>)
    BY <1>16 DEF FailAndRetry, RetryPlan
  <2>3. Moved({n}, "Queued") \in [Jobs -> States]
    BY MovedType
  <2>. HIDE DEF w, sp
  <2>. QED BY <1>4, <2>1, <2>2, <2>3, RefreshJobMoves DEF RebuiltOnly, Moved
<1>17. CASE ReleaseDue
  BY <1>5, <1>17 DEF ReleaseDue
<1>18. CASE Pass
  <2>1. PICK S \in SUBSET Runnable : state' = Moved(S, "Running")
    BY <1>18 DEF Pass
  <2>2. \A k \in S : state[k] = "Queued"
    BY DEF Runnable, Valid
  <2>3. \A k \in Jobs : state[k] = "Absent" <=> state'[k] = "Absent"
    BY <1>0, <2>1, <2>2 DEF Moved
  <2>. QED BY <1>5, <1>18, <2>3 DEF Pass
<1>19. CASE Restart
  <2>1. /\ spec' = spec /\ state' = state
        /\ \A k \in Jobs : state[k] # "Absent" => dep_rt'[k] = Build(spec[k], state)
    BY <1>19 DEF Restart
  <2>. QED BY <1>0, <1>2, <1>3, <2>1
<1>20. CASE NextSource
  BY <1>5, <1>20 DEF NextSource
<1>21. CASE NextWave
  BY <1>5, <1>21 DEF NextWave
<1>22. CASE Return
  <2>1. top.kind = "retry" => state[top.old] = "Running"
    BY <1>22, RetryTop DEF Return
  <2>2. \A k \in Jobs : state[k] = "Absent" <=> state'[k] = "Absent"
    BY <1>0, <1>22, <2>1 DEF Return, Moved
  <2>. QED BY <1>5, <1>22, <2>2 DEF Return
<1>23. CASE UNCHANGED vars
  BY <1>5, <1>23 DEF vars
<1>24. Ended = {"Finished", "Failed", "Cancelled"}
  BY DEF Ended
<1>. QED
  BY <1>6, <1>7, <1>8, <1>9, <1>10, <1>11, <1>12, <1>13, <1>14, <1>15, <1>16, <1>17, <1>18,
     <1>19, <1>20, <1>21, <1>22, <1>23, <1>24 DEF Next, Cancel, Finish, Fail

-----------------------------------------------------------------------------
(* The walks.  *)

(* A refresh leaves a sound stack below the walks it adds.  *)
LEMMA RefreshWalks ==
    ASSUME NEW j \in Jobs, NEW st \in [Jobs -> States], NEW sp, NEW why,
           NEW changed \in Seq(Walk), NEW same \in Seq(Walk),
           Refresh(j, st, sp, why, changed, same),
           StackSound(changed, state', spec'), StackSound(same, state', spec')
    PROVE  StackSound(calls', state', spec')
<1>1. \/ calls' \in {changed, same}
      \/ state' = [st EXCEPT ![j] = "Cancelled"] /\ calls' = Propagate(j, FALSE) \o changed
  BY DEF Refresh
<1>2. CASE calls' \in {changed, same}
  BY <1>2
<1>3. CASE state' = [st EXCEPT ![j] = "Cancelled"] /\ calls' = Propagate(j, FALSE) \o changed
  <2>1. state'[j] \in Unsuccessful
    BY <1>3 DEF Unsuccessful
  <2>2. StackSound(Propagate(j, FALSE) \o changed, state', spec')
    BY <2>1, PropagateSound
  <2>. QED BY <1>3, <2>2
<1>. QED BY <1>1, <1>2, <1>3

(* The same of a refresh after which the dependents are refreshed.  *)
LEMMA RefreshJobWalks ==
    ASSUME NEW j \in Jobs, NEW st \in [Jobs -> States], NEW sp, NEW why,
           NEW others \in Seq(Walk), RefreshJob(j, st, sp, why, others),
           StackSound(others, state', spec')
    PROVE  StackSound(calls', state', spec')
<1>1. StackSound(Wave(j) \o others, state', spec')
  BY WaveSound
<1>2. Wave(j) \o others \in Seq(Walk)
  BY NewWalks, ConcatProperties
<1>. QED BY <1>1, <1>2, RefreshWalks DEF RefreshJob

(* A walk that is on top follows a success, alone, or failures.  *)
LEMMA WalkTop ==
    ASSUME Core, ~Unlocked
    PROVE  /\ top \in Walk /\ rest \in Seq(Walk)
           /\ \/ rest = <<>> /\ SuccessWalk(top, state)
              \/ StackSound(calls, state, spec)
<1>1. top = calls[1] /\ top \in Walk /\ rest \in Seq(Walk) /\ Len(rest) = Len(calls) - 1
  BY StackType DEF Core, TypeOK
<1>2. Len(rest) = 0 => rest = <<>>
  BY <1>1, EmptySeq
<1>. QED BY <1>1, <1>2 DEF Core, WalksSound

(* When there is no hope: one failed that was needed, or all failed of which one was.  *)
LEMMA JudgedImpossible ==
    ASSUME NEW mode, NEW total \in Nat, NEW ok \in Nat, NEW bad \in Nat
    PROVE  Judged(mode, total, ok, bad).impossible <=>
              /\ total # 0
              /\ \/ mode = "All" /\ bad > 0
                 \/ mode = "Any" /\ ok = 0 /\ bad = total
BY DEF Judged

(* No success makes a dependent impossible.  *)
LEMMA SuccessSpares ==
    ASSUME Core, NEW j \in Jobs, state[j] # "Absent"
    PROVE  Count(dep_rt[j], spec[j].mode, TRUE).impossible => dep_rt[j].impossible
<1>1. dep_rt[j] \in Counters
  BY DEF Core, TypeOK
<1>2. dep_rt[j].total \in Nat /\ dep_rt[j].success \in Nat /\ dep_rt[j].failure \in Nat
  BY <1>1 DEF Counters
<1>3. Listed(spec[j], DepsOf(j)) \in Nat
  BY DepsAreJobs, ListedType DEF Core
<1>4. dep_rt[j] = Judged(spec[j].mode, Listed(spec[j], DepsOf(j)), dep_rt[j].success,
                         dep_rt[j].failure)
  BY DEF Core, VerdictsSound
<1>5. dep_rt[j].total = Listed(spec[j], DepsOf(j))
  BY <1>2, <1>3, <1>4, JudgedType
<1>6. dep_rt[j].impossible <=> /\ dep_rt[j].total # 0
                               /\ \/ spec[j].mode = "All" /\ dep_rt[j].failure > 0
                                  \/ /\ spec[j].mode = "Any"
                                     /\ dep_rt[j].success = 0
                                     /\ dep_rt[j].failure = dep_rt[j].total
  <2>. DEFINE J == Judged(spec[j].mode, Listed(spec[j], DepsOf(j)), dep_rt[j].success,
                          dep_rt[j].failure)
  <2>1. J.impossible <=> /\ Listed(spec[j], DepsOf(j)) # 0
                         /\ \/ spec[j].mode = "All" /\ dep_rt[j].failure > 0
                            \/ /\ spec[j].mode = "Any"
                               /\ dep_rt[j].success = 0
                               /\ dep_rt[j].failure = Listed(spec[j], DepsOf(j))
    BY <1>2, <1>3, JudgedImpossible
  <2>2. dep_rt[j] = J
    BY <1>4
  <2>. HIDE DEF J
  <2>. QED BY <1>5, <2>1, <2>2
<1>. QED BY <1>2, <1>6, JudgedImpossible DEF Count

(* The step to the next source, of a success and of a failure.  *)
LEMMA NextSourceWalks ==
    ASSUME Core, NextSource
    PROVE  WalksSound'
<1>. USE DEF Core
<1>. DEFINE source == top.work[Len(top.work)]
            work == SubSeq(top.work, 1, Len(top.work) - 1)
            w == [top EXCEPT !.work = work, !.success = source[2],
                             !.left = Dependents(source[1])]
<1>0. TypeOK /\ state' = state /\ spec' = spec
  BY DEF NextSource
<1>1. top \in PropagateWalk /\ rest \in Seq(Walk) /\ top.work # <<>> /\ top.left = {}
      /\ ~Unlocked
  BY StackType, WalkKinds DEF NextSource, In, TypeOK
<1>2. /\ source \in Jobs \X BOOLEAN
      /\ work \in Seq(Jobs \X BOOLEAN)
      /\ Len(work) = Len(top.work) - 1
      /\ \A i \in 1 .. Len(top.work) - 1 : work[i] = top.work[i]
      /\ Len(top.work) \in Nat \ {0}
  <2>1. top.work \in Seq(Jobs \X BOOLEAN)
    BY <1>1 DEF PropagateWalk
  <2>2. Len(top.work) \in Nat \ {0}
    BY <1>1, <2>1, EmptySeq
  <2>. QED BY <1>1, <2>2, PropagateWalkType
<1>3. calls' = <<w>> \o rest
  BY DEF NextSource, With
<1>4. /\ source[1] \in Jobs
      /\ Dependents(source[1]) = {k \in Jobs : source[1] \in DepsOf(k)}
      /\ Dependents(source[1]) \in SUBSET Jobs
  <2>1. source[1] \in Jobs
    BY <1>2
  <2>2. Dependents(source[1]) = {k \in Jobs : source[1] \in DepsOf(k)}
    BY <2>1, DependentsExact
  <2>. QED BY <2>1, <2>2
<1>. HIDE DEF source, work
<1>5. /\ w.kind = "propagate" /\ w.work = work /\ w.success = source[2]
      /\ w.left = Dependents(source[1])
      /\ w \in PropagateWalk
  BY <1>1, <1>2, <1>4 DEF PropagateWalk
<1>. HIDE DEF w
<1>6. w \in Walk
  BY <1>5, WalkKinds
<1>7. CASE rest = <<>> /\ SuccessWalk(top, state)
  <2>1. Len(top.work) = 1 /\ source[2] /\ work = <<>>
    <3>1. Len(top.work) = 1 /\ top.work[1][2]
      BY <1>1, <1>7 DEF SuccessWalk
    <3>2. Len(work) = 0
      BY <1>2, <3>1
    <3>. QED BY <1>2, <3>1, <3>2, EmptySeq DEF source
  <2>2. \A k \in w.left : state[k] # "Absent"
    BY <1>4, <1>5 DEF JobsSound
  <2>3. SuccessWalk(w, state)
    BY <1>5, <2>1, <2>2 DEF SuccessWalk
  <2>4. calls' # <<>> /\ Len(calls') = 1 /\ calls'[1] = w
    BY <1>3, <1>6, <1>7, PrependType, EmptySeq
  <2>. QED BY <1>0, <2>3, <2>4 DEF WalksSound
<1>8. CASE StackSound(calls, state, spec)
  <2>1. FrameSound(top, state, spec) /\ StackSound(rest, state, spec)
    BY <1>1, <1>8, StackTop DEF TypeOK
  <2>2. /\ ~top.success
        /\ \A i \in 1 .. Len(top.work) : state[top.work[i][1]] \in Unsuccessful /\ ~top.work[i][2]
    BY <1>1, <2>1 DEF FrameSound, PropagateWalk
  <2>3. state[source[1]] \in Unsuccessful /\ ~source[2]
    BY <1>2, <2>2 DEF source
  <2>4. \A k \in w.left : \E d \in DepsIn(spec[k]) : state[d] \in Unsuccessful
    BY <1>4, <1>5, <2>3 DEF DepsOf
  <2>5. \A i \in 1 .. Len(work) : state[work[i][1]] \in Unsuccessful /\ ~work[i][2]
    BY <1>2, <2>2
  <2>6. FrameSound(w, state, spec)
    BY <1>5, <2>3, <2>4, <2>5 DEF FrameSound
  <2>7. StackSound(calls', state, spec)
    BY <1>1, <1>3, <1>5, <1>6, <2>1, <2>6, StackPush
  <2>. QED BY <1>0, <2>7 DEF WalksSound
<1>. QED BY <1>1, <1>7, <1>8, WalkTop

(* A walk that tells one dependent of an end stays sound, and so does the stack with
   the cancellation this may start.  *)
LEMMA PropagateWalks ==
    ASSUME Core, NEW j \in Jobs, PropagateTo(j)
    PROVE  WalksSound'
<1>. USE NamesType DEF Core
<1>. DEFINE S == top.left \ {j}
            next == [top EXCEPT !.left = S]
            more == [next EXCEPT !.work = Append(@, <<j, FALSE>>)]
            rt == Count(dep_rt[j], spec[j].mode, top.success)
<1>1. top \in PropagateWalk /\ rest \in Seq(Walk) /\ ~Unlocked /\ j \in top.left
  BY StackType, WalkKinds DEF PropagateTo, In, TypeOK
<1>2. spec' = spec
  BY DEF PropagateTo
<1>3. \/ /\ rt.impossible /\ ~dep_rt[j].impossible
         /\ state[j] = "Queued"
         /\ state' = Moved({j}, "Cancelled")
         /\ calls' = Propagate(j, FALSE) \o (<<more>> \o rest)
      \/ state' = state /\ calls' = <<next>> \o rest
  BY DEF PropagateTo, With
<1>4. S \in SUBSET Jobs /\ S \subseteq top.left
  BY <1>1 DEF PropagateWalk
<1>. HIDE DEF S
<1>5. /\ next \in PropagateWalk /\ more \in PropagateWalk
      /\ next.work = top.work /\ next.success = top.success /\ next.left = S
      /\ next.kind = "propagate" /\ more.kind = "propagate"
      /\ more.success = top.success /\ more.left = S
      /\ more.work = Append(top.work, <<j, FALSE>>)
  <2>1. next \in PropagateWalk /\ more \in PropagateWalk
    BY <1>1, <1>4, PropagateWalkType
  <2>2. /\ next.work = top.work /\ next.success = top.success /\ next.left = S
        /\ next.kind = "propagate"
    BY <1>1, <1>4 DEF PropagateWalk
  <2>. HIDE DEF next
  <2>3. \A x : /\ [next EXCEPT !.work = x].success = next.success
               /\ [next EXCEPT !.work = x].left = next.left
               /\ [next EXCEPT !.work = x].kind = next.kind
               /\ [next EXCEPT !.work = x].work = x
    BY <2>1 DEF PropagateWalk
  <2>4. more = [next EXCEPT !.work = Append(next.work, <<j, FALSE>>)]
    BY DEF more
  <2>. HIDE DEF more
  <2>. QED BY <2>1, <2>2, <2>3, <2>4
<1>. HIDE DEF next, more, rt
<1>6. next \in Walk /\ more \in Walk
  BY <1>5, WalkKinds
<1>7. CASE rest = <<>> /\ SuccessWalk(top, state)
  <2>1. top.success = TRUE /\ state[j] # "Absent" /\ top.work = <<>>
    BY <1>1, <1>7 DEF SuccessWalk, PropagateWalk
  <2>2. rt.impossible => dep_rt[j].impossible
    BY <2>1, SuccessSpares DEF rt
  <2>3. state' = state /\ calls' = <<next>> \o rest
    BY <1>3, <2>2
  <2>4. SuccessWalk(next, state)
    BY <1>4, <1>5, <1>7, <2>1 DEF SuccessWalk
  <2>5. calls' # <<>> /\ Len(calls') = 1 /\ calls'[1] = next
    BY <1>6, <1>7, <2>3, PrependType, EmptySeq
  <2>. QED BY <2>3, <2>4, <2>5 DEF WalksSound
<1>8. CASE StackSound(calls, state, spec)
  <2>1. FrameSound(top, state, spec) /\ StackSound(rest, state, spec)
    BY <1>1, <1>8, StackTop DEF TypeOK
  <2>2. FrameSound(next, state, spec)
    <3>1. next.kind # "retry" /\ top.kind = "propagate"
      BY <1>1, <1>5 DEF PropagateWalk
    <3>2. ~next.success
      BY <1>5, <2>1, <3>1 DEF FrameSound
    <3>3. \A i \in 1 .. Len(next.work) :
             state[next.work[i][1]] \in Unsuccessful /\ ~next.work[i][2]
      BY <1>5, <2>1, <3>1 DEF FrameSound
    <3>4. \A k \in next.left : \E d \in DepsIn(spec[k]) : state[d] \in Unsuccessful
      BY <1>4, <1>5, <2>1, <3>1 DEF FrameSound
    <3>. QED BY <3>1, <3>2, <3>3, <3>4, Zenon DEF FrameSound
  <2>3. StackSound(<<next>> \o rest, state, spec)
    BY <1>1, <1>5, <1>6, <2>1, <2>2, StackPush
  <2>4. CASE state' = state /\ calls' = <<next>> \o rest
    BY <1>2, <2>3, <2>4 DEF WalksSound
  <2>5. CASE /\ state[j] = "Queued"
             /\ state' = Moved({j}, "Cancelled")
             /\ calls' = Propagate(j, FALSE) \o (<<more>> \o rest)
    <3>1. state'[j] = "Cancelled" /\ \A k \in Jobs : k # j => state'[k] = state[k]
      BY <2>5 DEF Moved
    <3>2. \A k \in Jobs : DepsIn(spec'[k]) = DepsIn(spec[k]) /\ DepsIn(spec[k]) \in SUBSET Jobs
      BY <1>2, DepsAreJobs DEF DepsOf
    <3>3. \A k \in Jobs : /\ state[k] \in Unsuccessful => state'[k] \in Unsuccessful
                          /\ state[k] = "Running" => state'[k] = "Running"
                          /\ state[k] # "Absent" => state'[k] # "Absent"
                          /\ state'[k] \in {"Queued", "Hold"} => state[k] \in {"Queued", "Hold"}
      BY <2>5, <3>1 DEF Unsuccessful
    <3>4. StackSound(rest, state', spec') /\ StackSound(<<next>> \o rest, state', spec')
      BY <1>1, <1>6, <2>1, <2>3, <3>2, <3>3, StackStable, PrependType
    <3>5. FrameSound(next, state', spec')
      <4>1. Len(<<next>> \o rest) \in Nat \ {0} /\ (<<next>> \o rest)[1] = next
        BY <1>1, <1>6, PrependType
      <4>. QED BY <3>4, <4>1 DEF StackSound
    <3>6. top.work \in Seq(Jobs \X BOOLEAN)
      BY <1>1 DEF PropagateWalk
    <3>7. /\ Len(more.work) = Len(top.work) + 1 /\ Len(top.work) \in Nat
          /\ \A i \in 1 .. Len(top.work) : more.work[i] = next.work[i]
          /\ more.work[Len(top.work) + 1] = <<j, FALSE>>
      <4>1. \A x \in Jobs \X BOOLEAN :
               /\ Len(Append(top.work, x)) = Len(top.work) + 1 /\ Len(top.work) \in Nat
               /\ \A i \in 1 .. Len(top.work) : Append(top.work, x)[i] = top.work[i]
               /\ Append(top.work, x)[Len(top.work) + 1] = x
        BY <3>6, AppendProperties
      <4>2. <<j, FALSE>> \in Jobs \X BOOLEAN
        OBVIOUS
      <4>3. PICK x \in Jobs \X BOOLEAN : x = <<j, FALSE>>
        BY <4>2, Zenon
      <4>4. next.work = top.work /\ more.work = Append(top.work, x)
        BY <1>5, <4>3
      <4>5. /\ Len(more.work) = Len(top.work) + 1 /\ Len(top.work) \in Nat
            /\ \A i \in 1 .. Len(top.work) : more.work[i] = next.work[i]
            /\ more.work[Len(top.work) + 1] = x
        BY <4>1, <4>4
      <4>. QED BY <4>3, <4>5, Zenon
    <3>8. \A i \in 1 .. Len(more.work) :
             state'[more.work[i][1]] \in Unsuccessful /\ ~more.work[i][2]
      <4>1. \A i \in 1 .. Len(top.work) :
               state'[next.work[i][1]] \in Unsuccessful /\ ~next.work[i][2]
        BY <1>5, <3>5 DEF FrameSound
      <4>2. /\ state'[more.work[Len(top.work) + 1][1]] \in Unsuccessful
            /\ ~more.work[Len(top.work) + 1][2]
        BY <3>1, <3>7 DEF Unsuccessful
      <4>3. ASSUME NEW i \in 1 .. Len(more.work)
            PROVE  i \in 1 .. Len(top.work) \/ i = Len(top.work) + 1
        BY <3>7
      <4>4. ASSUME NEW i \in 1 .. Len(top.work)
            PROVE  state'[more.work[i][1]] \in Unsuccessful /\ ~more.work[i][2]
        BY <3>7, <4>1
      <4>. QED BY <4>2, <4>3, <4>4
    <3>9. FrameSound(more, state', spec')
      BY <1>5, <3>5, <3>8 DEF FrameSound
    <3>10. StackSound(<<more>> \o rest, state', spec') /\ <<more>> \o rest \in Seq(Walk)
      BY <1>1, <1>5, <1>6, <3>4, <3>9, StackPush, PrependType
    <3>11. state'[j] \in Unsuccessful
      BY <3>1 DEF Unsuccessful
    <3>12. StackSound(calls', state', spec')
      BY <2>5, <3>10, <3>11, PropagateSound
    <3>. QED BY <3>12 DEF WalksSound
  <2>. QED BY <1>3, <2>4, <2>5
<1>. QED BY <1>1, <1>7, <1>8, WalkTop


(* A wave goes on to the dependents of the next job.  *)
LEMMA NextWaveWalks ==
    ASSUME Core, NextWave
    PROVE  WalksSound'
<1>. USE DEF Core
<1>. DEFINE w == [top EXCEPT !.work = Tail(@),
                             !.seen = @ \cup {Head(top.work)},
                             !.left = IF Head(top.work) \in top.seen THEN {}
                                      ELSE Dependents(Head(top.work))]
<1>1. /\ calls' = <<w>> \o rest /\ state' = state /\ spec' = spec
      /\ ~Unlocked /\ top.kind = "wave"
  BY DEF NextWave, With, In
<1>2. top \in WaveWalk /\ top.work # <<>>
  BY <1>1, WalkTop, WalkKinds DEF NextWave
<1>3. w.kind = "wave" /\ w \in WaveWalk
  <2>1. Head(top.work) \in Jobs /\ Tail(top.work) \in Seq(Jobs)
    BY <1>2, WaveWalkType
  <2>2. Dependents(Head(top.work)) \in SUBSET Jobs
    BY DEF Dependents
  <2>. QED BY <1>1, <1>2, <2>1, <2>2 DEF WaveWalk
<1>. HIDE DEF w
<1>4. StackSound(calls, state, spec)
  BY <1>1, WalkTop DEF SuccessWalk
<1>5. StackSound(rest, state, spec)
  BY <1>1, <1>4, StackTop DEF TypeOK
<1>6. FrameSound(w, state, spec)
  BY <1>3 DEF FrameSound
<1>7. rest \in Seq(Walk) /\ w \in Walk
  BY <1>1, <1>3, WalkTop, WalkKinds
<1>8. StackSound(calls', state', spec')
  BY <1>1, <1>3, <1>5, <1>6, <1>7, StackPush
<1>. QED BY <1>8 DEF WalksSound

(* A wave refreshes one dependent, which may cancel it.  *)
LEMMA WaveToWalks ==
    ASSUME Core, NEW j \in Jobs, WaveTo(j)
    PROVE  WalksSound'
<1>. USE NamesType DEF Core
<1>. DEFINE S == top.left \ {j}
            next == [top EXCEPT !.left = S]
            more == [next EXCEPT !.work = Append(@, j)]
<1>1. /\ ~Unlocked /\ top.kind = "wave"
      /\ \/ state[j] = "Queued" /\ Refresh(j, state, spec, reason[j], <<more>> \o rest,
                                           <<next>> \o rest)
         \/ state' = state /\ spec' = spec /\ calls' = <<next>> \o rest
  BY DEF WaveTo, In, With
<1>2. top \in WaveWalk /\ rest \in Seq(Walk)
  BY <1>1, WalkTop, WalkKinds
<1>3. S \in SUBSET Jobs
  BY <1>2 DEF WaveWalk
<1>. HIDE DEF S
<1>4. next \in WaveWalk /\ more \in WaveWalk
  BY <1>2, <1>3, WaveWalkType
<1>. HIDE DEF next, more
<1>5. next.kind = "wave" /\ more.kind = "wave" /\ next \in Walk /\ more \in Walk
  BY <1>4, WalkKinds DEF WaveWalk
<1>6. StackSound(calls, state, spec)
  BY <1>1, WalkTop DEF SuccessWalk
<1>7. StackSound(rest, state, spec)
  BY <1>1, <1>6, StackTop DEF TypeOK
<1>8. \A st, sp : FrameSound(next, st, sp) /\ FrameSound(more, st, sp)
  BY <1>5 DEF FrameSound
<1>9. <<next>> \o rest \in Seq(Walk) /\ <<more>> \o rest \in Seq(Walk)
  BY <1>2, <1>5, PrependType
<1>10. CASE state' = state /\ spec' = spec /\ calls' = <<next>> \o rest
  <2>1. StackSound(calls', state', spec')
    BY <1>2, <1>5, <1>7, <1>8, <1>10, StackPush
  <2>. QED BY <2>1 DEF WalksSound
<1>11. CASE state[j] = "Queued" /\ Refresh(j, state, spec, reason[j], <<more>> \o rest,
                                           <<next>> \o rest)
  <2>1. /\ spec' = spec
        /\ \A k \in Jobs : k # j => state'[k] = state[k]
        /\ state'[j] \in {"Queued", "Cancelled"}
    <3>1. state \in [Jobs -> States]
      BY DEF TypeOK
    <3>2. Refresh(j, state, spec, reason[j], <<more>> \o rest, <<next>> \o rest)
      BY <1>11
    <3>. QED BY <1>11, <3>1, <3>2, RefreshMoves
  <2>2. StackSound(rest, state', spec')
    <3>1. \A k \in Jobs : DepsIn(spec'[k]) = DepsIn(spec[k]) /\ DepsIn(spec[k]) \in SUBSET Jobs
      BY <2>1, DepsAreJobs DEF DepsOf
    <3>2. \A k \in Jobs : /\ state[k] \in Unsuccessful => state'[k] \in Unsuccessful
                          /\ state[k] = "Running" => state'[k] = "Running"
                          /\ state[k] # "Absent" => state'[k] # "Absent"
                          /\ state'[k] \in {"Queued", "Hold"} => state[k] \in {"Queued", "Hold"}
      BY <1>11, <2>1 DEF Unsuccessful
    <3>. QED BY <1>2, <1>7, <3>1, <3>2, StackStable
  <2>3. /\ StackSound(<<next>> \o rest, state', spec')
        /\ StackSound(<<more>> \o rest, state', spec')
    BY <1>2, <1>5, <1>8, <2>2, StackPush
  <2>4. StackSound(calls', state', spec')
    BY <1>9, <1>11, <2>3, RefreshWalks DEF TypeOK
  <2>. QED BY <2>4 DEF WalksSound
<1>. QED BY <1>1, <1>10, <1>11

(* What the walk of a retry has still to move loses one job at a time.  *)
LEMMA RetargetWalks ==
    ASSUME Core, NEW j \in Jobs, Retarget(j)
    PROVE  WalksSound'
<1>. USE NamesType DEF Core
<1>. DEFINE S == top.left \ {j}
            next == [top EXCEPT !.left = S]
            sp == [spec EXCEPT ![j] = RetargetedPlan(j, top.old, top.new)]
<1>1. /\ ~Unlocked /\ top.kind = "retry"
      /\ \/ /\ state[j] \in Retargeted /\ top.old \in DepsOf(j)
            /\ RefreshJob(j, state, sp, reason[j], <<next>> \o rest)
         \/ /\ ~(state[j] \in Retargeted /\ top.old \in DepsOf(j))
            /\ state' = state /\ spec' = spec /\ calls' = <<next>> \o rest
  BY DEF Retarget, RetargetedPlan, In, With
<1>2. /\ FrameSound(top, state, spec) /\ rest = <<>> /\ top \in RetryWalk
      /\ top.old \in Jobs /\ top.new \in Jobs /\ state[top.old] = "Running"
      /\ state[top.new] # "Absent" /\ top.new # top.old
      /\ DepsOf(top.new) = DepsOf(top.old)
  BY <1>1, RetryTop
<1>3. \A k \in Jobs : state[k] \in {"Queued", "Hold"} /\ top.old \in DepsOf(k) => k \in top.left
  BY <1>1, <1>2 DEF FrameSound, DepsOf
<1>4. S \in SUBSET Jobs /\ \A k : k \in S <=> k \in top.left /\ k # j
  BY <1>2 DEF RetryWalk
<1>. HIDE DEF S
<1>5. next \in RetryWalk /\ next.kind = "retry" /\ next.old = top.old /\ next.new = top.new
      /\ next.left = S /\ next \in Walk
  BY <1>2, <1>4, RetryWalkType, WalkKinds
<1>. HIDE DEF next
<1>6. rest \in Seq(Walk) /\ <<next>> \o rest \in Seq(Walk)
  BY <1>2, <1>5, PrependType
<1>7. ASSUME FrameSound(next, state', spec')
      PROVE  StackSound(<<next>> \o rest, state', spec')
  BY <1>2, <1>5, <1>6, <1>7, EmptyStack, StackPush
<1>8. CASE /\ ~(state[j] \in Retargeted /\ top.old \in DepsOf(j))
           /\ state' = state /\ spec' = spec /\ calls' = <<next>> \o rest
  <2>1. \A k \in Jobs : state[k] \in {"Queued", "Hold"} /\ top.old \in DepsOf(k) => k \in S
    BY <1>3, <1>4, <1>8 DEF Retargeted
  <2>2. FrameSound(next, state', spec')
    BY <1>2, <1>5, <1>8, <2>1 DEF FrameSound, DepsOf
  <2>. QED BY <1>7, <1>8, <2>2 DEF WalksSound
<1>9. CASE /\ state[j] \in Retargeted /\ top.old \in DepsOf(j)
           /\ RefreshJob(j, state, sp, reason[j], <<next>> \o rest)
  <2>1. /\ RetargetedPlan(j, top.old, top.new) \in Plan
        /\ DepsIn(RetargetedPlan(j, top.old, top.new)) = (DepsOf(j) \ {top.old}) \cup {top.new}
    BY <1>2, RetargetedPlanType
  <2>2. /\ sp \in [Jobs -> Plan]
        /\ sp[j] = RetargetedPlan(j, top.old, top.new)
        /\ \A k \in Jobs : k # j => sp[k] = spec[k]
    BY <2>1 DEF TypeOK
  <2>. HIDE DEF sp
  <2>3. /\ spec' = sp
        /\ \A k \in Jobs : k # j => state'[k] = state[k]
        /\ state'[j] = state[j] \/ state'[j] = "Cancelled"
    BY <1>9, RefreshJobMoves DEF TypeOK
  <2>4. j # top.old /\ j # top.new
    BY <1>2, <1>9, NotOnItself
  <2>5. FrameSound(next, state', spec')
    <3>1. /\ state'[next.old] = "Running" /\ state'[next.new] # "Absent" /\ next.new # next.old
          /\ DepsIn(spec'[next.new]) = DepsIn(spec'[next.old])
      BY <1>2, <1>5, <2>2, <2>3, <2>4 DEF DepsOf
    <3>2. ASSUME NEW k \in Jobs, state'[k] \in {"Queued", "Hold"}, next.old \in DepsIn(spec'[k])
          PROVE  k \in next.left
      <4>1. k # j
        BY <1>2, <1>5, <2>1, <2>2, <2>3, <3>2
      <4>2. state'[k] = state[k] /\ DepsIn(spec'[k]) = DepsOf(k)
        BY <2>2, <2>3, <4>1 DEF DepsOf
      <4>. QED BY <1>3, <1>4, <1>5, <3>2, <4>1, <4>2
    <3>. QED BY <1>5, <3>1, <3>2 DEF FrameSound
  <2>6. StackSound(calls', state', spec')
    BY <1>6, <1>7, <1>9, <2>5, RefreshJobWalks DEF TypeOK
  <2>. QED BY <2>6 DEF WalksSound
<1>. QED BY <1>1, <1>8, <1>9

(* ... and starts with all of them.  *)
LEMMA FailAndRetryWalks ==
    ASSUME Core, NEW j \in Jobs, NEW n \in Jobs, FailAndRetry(j, n)
    PROVE  WalksSound'
<1>. USE NamesType DEF Core
<1>. DEFINE w == [kind |-> "retry", old |-> j, new |-> n, left |-> Dependents(j)]
            sp == [spec EXCEPT ![n] = RetryPlan(j)]
            st == Moved({n}, "Queued")
<1>1. RefreshJob(n, st, sp, "None", <<w>>)
  BY DEF FailAndRetry, RetryPlan
<1>2. state[j] = "Running" /\ state[n] = "Absent"
  BY DEF FailAndRetry, Next_id
<1>3. st \in [Jobs -> States] /\ st[n] = "Queued" /\ \A k \in Jobs : k # n => st[k] = state[k]
  BY MovedType DEF Moved
<1>4. /\ RetryPlan(j) \in Plan
      /\ DepsIn(RetryPlan(j)) = DepsOf(j)
  BY RetryPlanType DEF FailAndRetry
<1>5. sp[n] = RetryPlan(j) /\ \A k \in Jobs : k # n => sp[k] = spec[k]
  BY DEF TypeOK
<1>6. w.left = {k \in Jobs : j \in DepsOf(k)} /\ w \in RetryWalk /\ w.kind = "retry"
      /\ w.old = j /\ w.new = n
  BY DependentsExact DEF RetryWalk
<1>. HIDE DEF st, sp, w
<1>7. w \in Walk /\ <<w>> = <<w>> \o <<>> /\ <<w>> \in Seq(Walk)
  BY <1>6, WalkKinds
<1>8. /\ spec' = sp
      /\ \A k \in Jobs : k # n => state'[k] = st[k]
      /\ state'[n] \in {"Queued", "Cancelled"}
  BY <1>1, <1>3, RefreshJobMoves
<1>9. FrameSound(w, state', spec')
  <2>1. /\ state'[j] = "Running" /\ state'[n] # "Absent" /\ n # j
        /\ DepsIn(spec'[n]) = DepsIn(spec'[j])
    BY <1>2, <1>3, <1>4, <1>5, <1>8 DEF DepsOf
  <2>2. ASSUME NEW k \in Jobs, j \in DepsIn(spec'[k])
        PROVE  k \in w.left
    <3>1. k # n
      BY <1>4, <1>5, <1>8, <2>2, NotOnItself
    <3>2. DepsIn(spec'[k]) = DepsOf(k)
      BY <1>5, <1>8, <3>1 DEF DepsOf
    <3>. QED BY <1>6, <2>2, <3>2
  <2>. QED BY <1>6, <2>1, <2>2 DEF FrameSound
<1>10. StackSound(<<w>>, state', spec')
  BY <1>6, <1>7, <1>9, EmptyStack, StackPush
<1>11. StackSound(calls', state', spec')
  BY <1>1, <1>3, <1>7, <1>10, RefreshJobWalks
<1>. QED BY <1>11 DEF WalksSound

(* The step of a failed, cancelled or finished job to the walk over its dependents.  *)
LEMMA EndWalks ==
    ASSUME Core, NEW j \in Jobs, NEW final \in Ended, NEW why, End(j, final, why)
    PROVE  WalksSound'
<1>. USE NamesType DEF Core
<1>1. /\ state'[j] = final /\ calls' = Propagate(j, final = "Finished")
  BY DEF End, Moved
<1>2. CASE final = "Finished"
  <2>. DEFINE w == [kind |-> "propagate", work |-> << <<j, TRUE>> >>, success |-> TRUE,
                    left |-> {}]
  <2>1. calls' = <<w>>
    <3>1. (final = "Finished") = TRUE
      BY <1>2
    <3>. QED BY <1>1, <3>1 DEF Propagate
  <2>2. SuccessWalk(w, state')
    BY DEF SuccessWalk
  <2>. HIDE DEF w
  <2>3. calls' # <<>> /\ Len(calls') = 1 /\ calls'[1] = w
    BY <2>1
  <2>. QED BY <2>2, <2>3 DEF WalksSound
<1>3. CASE final # "Finished"
  <2>1. calls' = Propagate(j, FALSE)
    <3>1. (final = "Finished") = FALSE
      BY <1>3
    <3>. QED BY <1>1, <3>1
  <2>2. state'[j] \in Unsuccessful
    BY <1>1, <1>3 DEF Unsuccessful, Ended
  <2>3. Propagate(j, FALSE) \o <<>> = Propagate(j, FALSE)
    BY DEF Propagate
  <2>4. StackSound(Propagate(j, FALSE) \o <<>>, state', spec')
    BY <2>2, EmptyStack, PropagateSound
  <2>. QED BY <2>1, <2>3, <2>4 DEF WalksSound
<1>. QED BY <1>2, <1>3

(* A walk that is over leaves the stack below it.  *)
LEMMA ReturnWalks ==
    ASSUME Core, Return
    PROVE  WalksSound'
<1>. USE DEF Core
<1>1. ~Unlocked /\ calls' = rest /\ spec' = spec /\ (top.kind # "retry" => state' = state)
  BY DEF Return
<1>2. CASE rest = <<>>
  BY <1>1, <1>2, EmptyStack DEF WalksSound
<1>3. CASE rest # <<>>
  <2>1. StackSound(rest, state, spec) /\ top.kind # "retry"
    BY <1>1, <1>3, WalkTop, StackTop DEF TypeOK
  <2>. QED BY <1>1, <2>1 DEF WalksSound
<1>. QED BY <1>2, <1>3

(* Every step keeps the walks sound.  *)
LEMMA WalksStep ==
    ASSUME Core, [Next]_vars
    PROVE  WalksSound'
<1>. USE NamesType DEF Core
<1>0. state \in [Jobs -> States] /\ spec \in [Jobs -> Plan]
  BY DEF TypeOK
<1>1. ASSUME calls' = <<>> PROVE WalksSound'
  BY <1>1, EmptyStack DEF WalksSound
<1>2. ASSUME Unlocked, calls' = calls PROVE WalksSound'
  BY <1>1, <1>2 DEF Unlocked
<1>3. ASSUME NEW j \in Jobs, NEW st \in [Jobs -> States], NEW sp, NEW why,
             RefreshJob(j, st, sp, why, <<>>)
      PROVE  WalksSound'
  BY <1>3, EmptyStack, RefreshJobWalks DEF WalksSound
<1>4. ASSUME NEW j \in Jobs, Submit(j) PROVE WalksSound'
  <2>1. PICK p \in Allowed.plans[j] :
           RefreshJob(j, Moved({j}, "Queued"), [spec EXCEPT ![j] = p], "None", <<>>)
    BY <1>4 DEF Submit
  <2>. DEFINE sp == [spec EXCEPT ![j] = p]
  <2>2. RefreshJob(j, Moved({j}, "Queued"), sp, "None", <<>>)
    BY <2>1
  <2>. HIDE DEF sp
  <2>. QED BY <1>3, <2>2, MovedType
<1>5. ASSUME NEW j \in Jobs, Release(j) PROVE WalksSound'
  BY <1>3, <1>5, MovedType DEF Release
<1>6. ASSUME NEW j \in Jobs, ReleaseAt(j) PROVE WalksSound'
  <2>. DEFINE sp == [spec EXCEPT ![j].begin = "future"]
  <2>1. Unlocked /\ (RefreshJob(j, Moved({j}, "Queued"), sp, "None", <<>>) \/ calls' = calls)
    BY <1>6 DEF ReleaseAt
  <2>. HIDE DEF sp
  <2>. QED BY <1>2, <1>3, <2>1, MovedType
<1>7. ASSUME NEW j \in Jobs, Update(j) PROVE WalksSound'
  <2>1. PICK p \in Revised(j) : RefreshJob(j, state, [spec EXCEPT ![j] = p], reason[j], <<>>)
    BY <1>7 DEF Update
  <2>. DEFINE sp == [spec EXCEPT ![j] = p]
  <2>2. RefreshJob(j, state, sp, reason[j], <<>>)
    BY <2>1
  <2>. HIDE DEF sp
  <2>. QED BY <1>0, <1>3, <2>2
<1>8. ASSUME NEW j \in Jobs, Hold(j) PROVE WalksSound'
  BY <1>2, <1>8 DEF Hold
<1>9. ASSUME NEW j \in Jobs, Tick(j) PROVE WalksSound'
  BY <1>2, <1>9 DEF Tick
<1>10. CASE ReleaseDue
  BY <1>2, <1>10 DEF ReleaseDue
<1>11. CASE Pass
  BY <1>2, <1>11 DEF Pass
<1>12. CASE Restart
  BY <1>2, <1>12 DEF Restart
<1>13. CASE UNCHANGED vars
  BY <1>13 DEF vars, WalksSound
<1>14. Ended = {"Finished", "Failed", "Cancelled"}
  BY DEF Ended
<1>15. ASSUME NEW j \in Jobs, Cancel(j) \/ Finish(j) \/ Fail(j) PROVE WalksSound'
  BY <1>14, <1>15, EndWalks DEF Cancel, Finish, Fail
<1>. QED
  BY <1>4, <1>5, <1>6, <1>7, <1>8, <1>9, <1>10, <1>11, <1>12, <1>13, <1>15, NextSourceWalks,
     PropagateWalks, NextWaveWalks, WaveToWalks, RetargetWalks, FailAndRetryWalks, ReturnWalks
  DEF Next

(* The core holds at the start ...  *)
LEMMA CoreInit == Init => Core
<1>. SUFFICES ASSUME Init PROVE Core
  OBVIOUS
<1>1. TypeOK
  BY TypeInit
<1>2. \A k \in Jobs : DepsOf(k) = {} /\ state[k] = "Absent"
  BY BlankPlan DEF Init, DepsOf
<1>3. GraphExact
  BY <1>1, <1>2, GraphEdges DEF Init
<1>4. JobsSound /\ VerdictsSound /\ NoCycle
  BY <1>2 DEF JobsSound, VerdictsSound, NoCycle
<1>5. WalksSound
  BY EmptyStack DEF Init, WalksSound
<1>. QED BY <1>1, <1>3, <1>4, <1>5 DEF Core

(* ... and every step keeps it ...  *)
LEMMA CoreStep ==
    ASSUME Core, [Next]_vars
    PROVE  Core'
<1>1. TypeOK'
  BY TypeStep DEF Core
<1>. QED BY <1>1, GraphStep, NoCycleStep, VerdictsStep, WalksStep DEF Core

(* ... so it holds always.  *)
LEMMA CoreAlways == Spec => []Core
<1>1. Init => Core
  BY CoreInit
<1>2. Core /\ [Next]_vars => Core'
  BY CoreStep
<1>. QED BY <1>1, <1>2, PTL DEF Spec

-----------------------------------------------------------------------------
(* What follows from the core alone.  *)

(* A refresh cancels a job only when its dependencies, as they are, leave no hope.  *)
LEMMA RefreshCancels ==
    ASSUME NEW j \in Jobs, NEW st \in [Jobs -> States], NEW sp \in [Jobs -> Plan], NEW why,
           NEW changed, NEW same, Refresh(j, st, sp, why, changed, same), st[j] # "Cancelled",
           state'[j] = "Cancelled", spec'[j].mode = "All"
    PROVE  Hopeless(j)'
<1>. DEFINE rt == Build(sp[j], st)
            bad == {d \in DepsIn(sp[j]) : st[d] \in Unsuccessful}
<1>1. st[j] = "Queued" /\ rt.impossible /\ spec' = sp
  BY DEF Refresh
<1>2. sp[j] \in Plan /\ DepsIn(sp[j]) \in SUBSET Jobs
  BY DepsType
<1>3. /\ bad \in SUBSET Jobs
      /\ Listed(sp[j], DepsIn(sp[j])) \in Nat
      /\ Listed(sp[j], {d \in DepsIn(sp[j]) : st[d] = "Finished"}) \in Nat
      /\ Listed(sp[j], bad) \in Nat
      /\ Listed(sp[j], bad) = 0 <=> bad = {}
  <2>1. bad \in SUBSET Jobs /\ {d \in DepsIn(sp[j]) : st[d] = "Finished"} \in SUBSET Jobs
    BY <1>2
  <2>. HIDE DEF bad
  <2>. QED BY <1>2, <2>1, ListedType
<1>4. rt = Judged(sp[j].mode, Listed(sp[j], DepsIn(sp[j])),
                  Listed(sp[j], {d \in DepsIn(sp[j]) : st[d] = "Finished"}), Listed(sp[j], bad))
  BY DEF Build
<1>5. Listed(sp[j], bad) > 0
  <2>. HIDE DEF bad, rt
  <2>1. sp[j].mode = "All"
    BY <1>1
  <2>. QED BY <1>1, <1>3, <1>4, <2>1, JudgedImpossible
<1>6. PICK d \in DepsIn(sp[j]) : st[d] \in Unsuccessful
  BY <1>3, <1>5
<1>7. d \in Jobs /\ d # j
  BY <1>1, <1>2, <1>6 DEF Unsuccessful
<1>8. state'[d] = st[d]
  BY <1>7, RefreshMoves
<1>. QED BY <1>1, <1>6, <1>8 DEF Hopeless, DepsOf, Ended, Unsuccessful

(* One step cancels a job that needs all of its dependencies only for one that failed.  *)
LEMMA JustifiedStep ==
    ASSUME Core, [Next]_vars, NEW j \in Jobs, AutoCancelled(j), spec'[j].mode = "All"
    PROVE  Hopeless(j)'
<1>. USE NamesType DEF Core
<1>0. /\ state \in [Jobs -> States] /\ spec \in [Jobs -> Plan] /\ reason \in [Jobs -> Reasons]
      /\ state[j] = "Queued" /\ state'[j] = "Cancelled" /\ reason'[j] = "DependencyFailed"
  BY DEF TypeOK, AutoCancelled
<1>1. ASSUME NEW i \in Jobs, NEW st \in [Jobs -> States], NEW sp \in [Jobs -> Plan], NEW why,
             NEW changed, NEW same, Refresh(i, st, sp, why, changed, same),
             \A k \in Jobs : k # i => st[k] = state[k], st[i] # "Cancelled"
      PROVE  Hopeless(j)'
  <2>1. i = j
    BY <1>0, <1>1, RefreshMoves
  <2>. QED BY <1>0, <1>1, <2>1, RefreshCancels
<1>2. ASSUME NEW i \in Jobs, NEW sp \in [Jobs -> Plan], NEW why, NEW others,
             RefreshJob(i, Moved({i}, "Queued"), sp, why, others)
      PROVE  Hopeless(j)'
  <2>. DEFINE st == Moved({i}, "Queued")
  <2>1. st \in [Jobs -> States] /\ st[i] = "Queued" /\ \A k \in Jobs : k # i => st[k] = state[k]
    BY MovedType DEF Moved
  <2>2. Refresh(i, st, sp, why, Wave(i) \o others, others)
    BY <1>2 DEF RefreshJob
  <2>. HIDE DEF st
  <2>. QED BY <1>1, <2>1, <2>2
<1>3. ASSUME NEW i \in Jobs, state[i] \in {"Queued", "Hold"}, NEW sp \in [Jobs -> Plan], NEW why,
             NEW others, RefreshJob(i, state, sp, why, others)
      PROVE  Hopeless(j)'
  BY <1>0, <1>1, <1>3 DEF RefreshJob
<1>4. ASSUME NEW i \in Jobs, Submit(i) PROVE Hopeless(j)'
  <2>1. PICK p \in Allowed.plans[i] :
           RefreshJob(i, Moved({i}, "Queued"), [spec EXCEPT ![i] = p], "None", <<>>)
    BY <1>4 DEF Submit
  <2>2. p \in Plan
    BY SetupsAssumption DEF TypeOK, Allowed
  <2>. DEFINE sp == [spec EXCEPT ![i] = p]
  <2>3. sp \in [Jobs -> Plan] /\ RefreshJob(i, Moved({i}, "Queued"), sp, "None", <<>>)
    BY <2>1, <2>2, PlanType
  <2>. HIDE DEF sp
  <2>. QED BY <1>2, <2>3
<1>5. ASSUME NEW i \in Jobs, Release(i) PROVE Hopeless(j)'
  BY <1>0, <1>2, <1>5 DEF Release
<1>6. ASSUME NEW i \in Jobs, ReleaseAt(i) PROVE Hopeless(j)'
  <2>. DEFINE sp == [spec EXCEPT ![i].begin = "future"]
  <2>1. sp \in [Jobs -> Plan]
    <3>1. [spec[i] EXCEPT !.begin = "future"] \in Plan
      BY <1>0 DEF Plan
    <3>. QED BY <1>0, <3>1
  <2>2. RefreshJob(i, Moved({i}, "Queued"), sp, "None", <<>>) \/ state' = state
    BY <1>6 DEF ReleaseAt
  <2>. HIDE DEF sp
  <2>. QED BY <1>0, <1>2, <2>1, <2>2
<1>7. ASSUME NEW i \in Jobs, NEW final \in Ended, NEW why, why # "DependencyFailed",
             End(i, final, why)
      PROVE  Hopeless(j)'
  <2>1. i = j
    BY <1>0, <1>7 DEF End, Moved
  <2>2. reason'[j] = why
    BY <1>7, <2>1 DEF End, Because
  <2>. QED BY <1>0, <1>7, <2>2
<1>8. ASSUME NEW i \in Jobs, Update(i) PROVE Hopeless(j)'
  <2>1. PICK p \in Revised(i) : RefreshJob(i, state, [spec EXCEPT ![i] = p], reason[i], <<>>)
    BY <1>8 DEF Update
  <2>. DEFINE sp == [spec EXCEPT ![i] = p]
  <2>2. sp \in [Jobs -> Plan] /\ RefreshJob(i, state, sp, reason[i], <<>>)
    BY <2>1, RevisedType, PlanType
  <2>3. state[i] \in {"Queued", "Hold"}
    BY <1>8 DEF Update, MayUpdate
  <2>. HIDE DEF sp
  <2>. QED BY <1>3, <2>2, <2>3
<1>9. ASSUME NEW i \in Jobs, PropagateTo(i) PROVE Hopeless(j)'
  <2>. DEFINE rt == Count(dep_rt[i], spec[i].mode, top.success)
  <2>1. /\ ~Unlocked /\ i \in top.left /\ top \in PropagateWalk /\ spec' = spec
    BY <1>9, StackType, WalkKinds DEF PropagateTo, In, TypeOK
  <2>2. rt.impossible /\ ~dep_rt[i].impossible /\ state' = Moved({i}, "Cancelled")
    BY <1>0, <1>9 DEF PropagateTo
  <2>3. i = j
    BY <1>0, <2>2 DEF Moved
  <2>. HIDE DEF rt
  <2>4. ~top.success
    <3>1. CASE top.success = TRUE
      BY <1>0, <2>2, <2>3, <3>1, SuccessSpares DEF rt
    <3>. QED BY <2>1, <3>1 DEF PropagateWalk
  <2>5. FrameSound(top, state, spec)
    BY <2>1, <2>4, WalkTop, StackTop DEF SuccessWalk, TypeOK
  <2>6. PICK d \in DepsOf(j) : state[d] \in Unsuccessful
    BY <2>1, <2>3, <2>5 DEF FrameSound, PropagateWalk, DepsOf
  <2>7. d \in Jobs /\ d # j
    BY <2>6, DepsAreJobs, NotOnItself
  <2>8. state'[d] = state[d] /\ DepsOf(j)' = DepsOf(j)
    BY <2>1, <2>2, <2>3, <2>7 DEF Moved, DepsOf
  <2>. QED BY <2>6, <2>8 DEF Hopeless, Ended, Unsuccessful
<1>10. ASSUME NEW i \in Jobs, WaveTo(i) PROVE Hopeless(j)'
  <2>. DEFINE next == [top EXCEPT !.left = @ \ {i}]
  <2>1. CASE state[i] = "Queued"
    <3>1. Refresh(i, state, spec, reason[i], With([next EXCEPT !.work = Append(@, i)]),
                With(next))
      BY <1>10, <2>1 DEF WaveTo
    <3>. HIDE DEF next
    <3>. QED BY <1>0, <1>1, <2>1, <3>1
  <2>2. CASE state[i] # "Queued"
    BY <1>0, <1>10, <2>2 DEF WaveTo
  <2>. QED BY <2>1, <2>2
<1>11. ASSUME NEW i \in Jobs, Retarget(i) PROVE Hopeless(j)'
  <2>. DEFINE next == [top EXCEPT !.left = @ \ {i}]
              sp == [spec EXCEPT ![i] = RetargetedPlan(i, top.old, top.new)]
  <2>1. ~Unlocked /\ top.kind = "retry"
    BY <1>11 DEF Retarget, In
  <2>2. \/ state[i] \in Retargeted /\ RefreshJob(i, state, sp, reason[i], With(next))
        \/ state' = state
    BY <1>11 DEF Retarget, RetargetedPlan
  <2>3. sp \in [Jobs -> Plan]
    BY <2>1, RetryTop, RetargetedPlanType, PlanType
  <2>. HIDE DEF next, sp
  <2>. QED BY <1>0, <1>3, <2>2, <2>3 DEF Retargeted
<1>12. ASSUME NEW i \in Jobs, NEW n \in Jobs, FailAndRetry(i, n) PROVE Hopeless(j)'
  <2>. DEFINE w == [kind |-> "retry", old |-> i, new |-> n, left |-> Dependents(i)]
              sp == [spec EXCEPT ![n] = RetryPlan(i)]
  <2>1. sp \in [Jobs -> Plan]
    BY <1>12, RetryPlanType, PlanType DEF FailAndRetry
  <2>2. RefreshJob(n, Moved({n}, "Queued"), sp, "None", <<w>>)
    BY <1>12 DEF FailAndRetry, RetryPlan
  <2>. HIDE DEF w, sp
  <2>. QED BY <1>2, <2>1, <2>2
<1>13. CASE Pass
  BY <1>0, <1>13 DEF Pass, Moved
<1>14. CASE Return
  BY <1>0, <1>14 DEF Return, Moved
<1>15. ASSUME NEW i \in Jobs, Hold(i) PROVE Hopeless(j)'
  BY <1>0, <1>15 DEF Hold, Moved
<1>16. CASE state' = state
  BY <1>0, <1>16
<1>17. Ended = {"Finished", "Failed", "Cancelled"}
  BY DEF Ended
<1>18. ASSUME NEW i \in Jobs, Cancel(i) \/ Finish(i) \/ Fail(i) PROVE Hopeless(j)'
  BY <1>7, <1>17, <1>18 DEF Cancel, Finish, Fail
<1>19. ASSUME \/ \E i \in Jobs : Tick(i)
              \/ ReleaseDue \/ Restart \/ NextSource \/ NextWave \/ UNCHANGED vars
       PROVE  state' = state
  BY <1>19 DEF Tick, ReleaseDue, Restart, NextSource, NextWave, vars
<1>. QED
  BY <1>4, <1>5, <1>6, <1>8, <1>9, <1>10, <1>11, <1>12, <1>13, <1>14, <1>15, <1>16, <1>18, <1>19
  DEF Next

(* One step fails a job that is retried only when nobody waits for it.  *)
LEMMA RetryTakesStep ==
    ASSUME Core, [Next]_vars, NEW j \in Jobs, In("retry"), state[j] = "Running",
           state'[j] = "Failed", NEW k \in Jobs, state[k] \in {"Queued", "Hold"}
    PROVE  j \notin DepsOf(k)
<1>. USE NamesType DEF Core
<1>1. ~Unlocked /\ top.kind = "retry" /\ state \in [Jobs -> States] /\ spec \in [Jobs -> Plan]
  BY DEF In, TypeOK
<1>2. ASSUME NEW i \in Jobs, Retarget(i) PROVE FALSE
  <2>. DEFINE next == [top EXCEPT !.left = @ \ {i}]
              sp == [spec EXCEPT ![i] = RetargetedPlan(i, top.old, top.new)]
  <2>1. RefreshJob(i, state, sp, reason[i], With(next)) \/ state' = state
    BY <1>2 DEF Retarget, RetargetedPlan
  <2>. HIDE DEF next, sp
  <2>. QED BY <1>1, <2>1, RefreshJobMoves
<1>3. CASE Return
  <2>1. j = top.old /\ top.left = {}
    BY <1>1, <1>3 DEF Return, Moved
  <2>. QED BY <1>1, <2>1, RetryTop DEF FrameSound, DepsOf
<1>4. ASSUME NEW i \in Jobs, PropagateTo(i) \/ WaveTo(i) PROVE FALSE
  BY <1>1, <1>4 DEF PropagateTo, WaveTo, In
<1>5. CASE NextSource \/ NextWave
  BY <1>1, <1>5 DEF NextSource, NextWave, In
<1>6. CASE UNCHANGED vars
  BY <1>6 DEF vars
<1>7. ASSUME NEW i \in Jobs,
             \/ Submit(i) \/ Hold(i) \/ Release(i) \/ ReleaseAt(i) \/ Cancel(i) \/ Finish(i)
             \/ Fail(i) \/ Update(i) \/ Tick(i) \/ (\E n \in Jobs : FailAndRetry(i, n))
             \/ ReleaseDue \/ Pass \/ Restart
      PROVE  Unlocked
  BY <1>7 DEF Submit, Hold, Release, ReleaseAt, Cancel, Finish, Fail, End, Update, Tick,
              FailAndRetry, ReleaseDue, Pass, Restart
<1>. QED BY <1>1, <1>2, <1>3, <1>4, <1>5, <1>6, <1>7 DEF Next

-----------------------------------------------------------------------------
(* The counters.  *)

(* The dependencies of a job that have finished.  *)
Done(k) == {d \in DepsOf(k) : state[d] = "Finished"}

(* The dependents that the walk of a success has still to tell of it.  *)
Told(c, E) ==
    {k \in Jobs : /\ c # <<>> /\ c[1].kind = "propagate" /\ c[1].success
                  /\ \/ c[1].work # <<>> /\ <<c[1].work[1][1], k>> \in E
                     \/ c[1].work = <<>> /\ k \in c[1].left}
Coming(k) == IF k \in Told(calls, edges) THEN 1 ELSE 0

(* A count between the successes and the times they are listed.  *)
Counted(sp, done, n) == Cardinality(done) <= n /\ n <= Listed(sp, done)

(* The successes that are counted or on their way are at least the dependencies that
   finished, and at most the places those have in the list.  *)
CountersSound ==
    \A k \in Jobs : state[k] # "Absent" =>
        Counted(spec[k], Done(k), dep_rt[k].success + Coming(k))

(* What the stack holds does not start with the walk of a success.  *)
NoSuccess(c) == c # <<>> => ~(c[1].kind = "propagate" /\ c[1].success)

(* Without a walk nobody is told anything ...  *)
LEMMA NothingTold ==
    ASSUME NEW c, NEW E, NoSuccess(c)
    PROVE  Told(c, E) = {}
BY DEF NoSuccess, Told

(* ... nor by a stack that follows failures only ...  *)
LEMMA FailuresTellNothing ==
    ASSUME NEW c \in Seq(Walk), NEW st, NEW sp, StackSound(c, st, sp)
    PROVE  NoSuccess(c)
<1>1. c # <<>> => Len(c) \in Nat \ {0}
  BY EmptySeq
<1>. QED BY <1>1 DEF NoSuccess, StackSound, FrameSound

(* ... nor when a walk of a failure or a wave is on top ...  *)
LEMMA PrependedTellsNothing ==
    ASSUME NEW w \in Walk, NEW s \in Seq(Walk), ~(w.kind = "propagate" /\ w.success)
    PROVE  NoSuccess(<<w>> \o s)
BY PrependType DEF NoSuccess

(* ... as it is after an end that is no success.  *)
LEMMA PropagateTellsNothing ==
    ASSUME NEW j \in Jobs, NEW c \in Seq(Walk)
    PROVE  NoSuccess(Propagate(j, FALSE) \o c)
<1>. DEFINE w == [kind |-> "propagate", work |-> << <<j, FALSE>> >>, success |-> FALSE,
                  left |-> {}]
<1>1. Propagate(j, FALSE) = <<w>> /\ w.success = FALSE
  BY DEF Propagate
<1>2. \A s \in BOOLEAN : Propagate(j, s) \in Seq(Walk)
  BY NewWalks
<1>. HIDE DEF w
<1>3. <<w>> \in Seq(Walk)
  BY <1>1, <1>2, Zenon
<1>4. w \in Walk
  BY <1>3
<1>. QED BY <1>1, <1>4, PrependedTellsNothing

(* A refresh starts no walk of a success.  *)
LEMMA RefreshTellsNothing ==
    ASSUME NEW j \in Jobs, NEW st, NEW sp, NEW why, NEW changed \in Seq(Walk),
           NEW same \in Seq(Walk), NoSuccess(changed), NoSuccess(same),
           Refresh(j, st, sp, why, changed, same)
    PROVE  NoSuccess(calls')
<1>1. calls' \in {changed, same} \/ calls' = Propagate(j, FALSE) \o changed
  BY DEF Refresh
<1>. QED BY <1>1, PropagateTellsNothing

(* Nor does a wave tell anybody of a success.  *)
LEMMA WaveTellsNothing ==
    ASSUME NEW j \in Jobs, NEW others \in Seq(Walk)
    PROVE  Wave(j) \o others \in Seq(Walk) /\ NoSuccess(Wave(j) \o others)
<1>. DEFINE w == [kind |-> "wave", work |-> <<j>>, seen |-> {}, left |-> {}]
<1>1. Wave(j) = <<w>> /\ w.kind = "wave"
  BY DEF Wave
<1>2. Wave(j) \in Seq(Walk)
  BY NewWalks
<1>. HIDE DEF w
<1>3. w \in Walk
  BY <1>1, <1>2
<1>. QED BY <1>1, <1>2, <1>3, PrependedTellsNothing, PrependType

(* A recount counts what is finished.  *)
LEMMA RebuiltCount ==
    ASSUME NEW sp \in Plan, NEW st \in [Jobs -> States]
    PROVE  Counted(sp, {d \in DepsIn(sp) : st[d] = "Finished"}, Build(sp, st).success + 0)
<1>. DEFINE D == {d \in DepsIn(sp) : st[d] = "Finished"}
<1>1. D \in SUBSET Jobs
  BY DepsType
<1>2. Build(sp, st).success = Listed(sp, D)
  BY BuildVerdict
<1>. HIDE DEF D
<1>3. Listed(sp, D) \in Nat /\ Cardinality(D) \in Nat /\ Cardinality(D) <= Listed(sp, D)
  BY <1>1, ListedType
<1>4. Counted(sp, D, Build(sp, st).success + 0)
  BY <1>2, <1>3 DEF Counted
<1>. QED BY <1>4 DEF D

(* What leaves a job's plan, its finished dependencies and its successes alone.  *)
CountKept(k) ==
    /\ state'[k] # "Absent" => state[k] # "Absent"
    /\ \A S \in SUBSET Jobs : Listed(spec'[k], S) = Listed(spec[k], S)
    /\ Done(k)' = Done(k)
    /\ dep_rt'[k].success + Coming(k)' = dep_rt[k].success + Coming(k)

(* Then its counters stay true.  *)
LEMMA CountStays ==
    ASSUME Core, CountersSound, NEW k \in Jobs, CountKept(k), state'[k] # "Absent"
    PROVE  Counted(spec'[k], Done(k)', dep_rt'[k].success + Coming(k)')
<1>1. Done(k) \in SUBSET Jobs
  BY DepsAreJobs DEF Core, Done
<1>. QED BY <1>1 DEF CountKept, Counted, CountersSound

(* The counters after a step are true when those of each job are.  *)
LEMMA CountersPrime ==
    ASSUME \A k \in Jobs : state'[k] # "Absent" =>
                Counted(spec'[k], Done(k)', dep_rt'[k].success + Coming(k)')
    PROVE  CountersSound'
BY DEF CountersSound

(* A refresh recounts its own job and leaves the others alone.  *)
LEMMA RefreshCounts ==
    ASSUME Core, CountersSound, NEW j \in Jobs, NEW st \in [Jobs -> States],
           NEW sp \in [Jobs -> Plan], NEW why, NEW changed \in Seq(Walk), NEW same \in Seq(Walk),
           Refresh(j, st, sp, why, changed, same),
           NoSuccess(changed), NoSuccess(same), NoSuccess(calls),
           \A k \in Jobs : k # j => sp[k] = spec[k] /\ st[k] = state[k],
           st[j] # "Finished", state[j] # "Finished"
    PROVE  CountersSound'
<1>. USE DEF Core
<1>1. /\ spec' = sp
      /\ \A k \in Jobs : k # j => state'[k] = state[k]
      /\ state'[j] = st[j] \/ state'[j] = "Cancelled"
      /\ dep_rt' = [dep_rt EXCEPT ![j] = Build(sp[j], st)]
  BY RefreshMoves
<1>2. /\ \A k \in Jobs : state'[k] = "Finished" <=> state[k] = "Finished"
      /\ \A k \in Jobs : state'[k] = "Finished" <=> st[k] = "Finished"
  BY <1>1
<1>3. \A k \in Jobs : Coming(k) = 0 /\ Coming(k)' = 0
  BY NothingTold, RefreshTellsNothing DEF Coming
<1>4. \A k \in Jobs : DepsIn(sp[k]) \in SUBSET Jobs
  BY DepsType
<1>5. ASSUME NEW k \in Jobs, k # j, state'[k] # "Absent"
      PROVE  Counted(spec'[k], Done(k)', dep_rt'[k].success + Coming(k)')
  <2>1. spec'[k] = spec[k] /\ dep_rt'[k] = dep_rt[k] /\ DepsOf(k)' = DepsOf(k)
    BY <1>1, <1>5 DEF TypeOK, DepsOf
  <2>2. Done(k)' = Done(k)
    BY <1>2, <1>4, <2>1, DepsAreJobs DEF Done
  <2>3. CountKept(k)
    BY <1>1, <1>3, <1>5, <2>1, <2>2 DEF CountKept
  <2>. QED BY <1>5, <2>3, CountStays
<1>6. Counted(spec'[j], Done(j)', dep_rt'[j].success + Coming(j)')
  <2>1. dep_rt'[j] = Build(sp[j], st)
    BY <1>1 DEF TypeOK
  <2>2. Done(j)' = {d \in DepsIn(sp[j]) : st[d] = "Finished"}
    BY <1>1, <1>2, <1>4 DEF Done, DepsOf
  <2>3. Counted(sp[j], {d \in DepsIn(sp[j]) : st[d] = "Finished"}, Build(sp[j], st).success + 0)
    BY RebuiltCount
  <2>4. spec'[j] = sp[j] /\ Coming(j)' = 0
    BY <1>1, <1>3
  <2>. QED BY <2>1, <2>2, <2>3, <2>4
<1>. QED BY <1>5, <1>6, CountersPrime

(* The same of a refresh after which the dependents are refreshed.  *)
LEMMA RefreshJobCounts ==
    ASSUME Core, CountersSound, NEW j \in Jobs, NEW st \in [Jobs -> States],
           NEW sp \in [Jobs -> Plan], NEW why, NEW others \in Seq(Walk),
           RefreshJob(j, st, sp, why, others), NoSuccess(others), NoSuccess(calls),
           \A k \in Jobs : k # j => sp[k] = spec[k] /\ st[k] = state[k],
           st[j] # "Finished", state[j] # "Finished"
    PROVE  CountersSound'
BY WaveTellsNothing, RefreshCounts DEF RefreshJob

(* One dependency finishes.  *)
LEMMA FinishCounts ==
    ASSUME Core, CountersSound, NEW j \in Jobs, NEW why, End(j, "Finished", why)
    PROVE  CountersSound'
<1>. USE DEF Core
<1>. DEFINE w == [kind |-> "propagate", work |-> << <<j, TRUE>> >>, success |-> TRUE,
                  left |-> {}]
<1>0. Propagate(j, TRUE) = <<w>>
  BY DEF Propagate
<1>1. /\ state[j] = "Running" /\ spec' = spec /\ dep_rt' = dep_rt /\ edges' = edges
      /\ state'[j] = "Finished" /\ \A k \in Jobs : k # j => state'[k] = state[k]
      /\ calls = <<>> /\ calls' = <<w>>
  <2>1. state \in [Jobs -> States]
    BY DEF TypeOK
  <2>2. ("Finished" = "Finished") = TRUE
    OBVIOUS
  <2>3. calls' = <<w>>
    BY <1>0, <2>2 DEF End
  <2>4. state[j] = "Running"
    BY <2>1 DEF End, CanTransitionTo, States, Ended
  <2>. HIDE DEF w
  <2>. QED BY <2>3, <2>4 DEF End, Moved, Unlocked
<1>2. w.kind = "propagate" /\ w.success = TRUE /\ w.work # <<>> /\ w.work[1][1] = j
  OBVIOUS
<1>. HIDE DEF w
<1>3. \A k \in Jobs : Coming(k) = 0 /\ Coming(k)' = IF j \in DepsOf(k) THEN 1 ELSE 0
  <2>1. \A k \in Jobs : <<j, k>> \in edges' <=> j \in DepsOf(k)
    BY <1>1, GraphEdges
  <2>2. calls' # <<>> /\ calls'[1] = w
    BY <1>1
  <2>3. \A k \in Jobs : k \in Told(calls', edges') <=> j \in DepsOf(k)
    BY <1>2, <2>1, <2>2 DEF Told
  <2>4. NoSuccess(calls)
    BY <1>1 DEF NoSuccess
  <2>. QED BY <2>3, <2>4, NothingTold DEF Coming
<1>4. ASSUME NEW k \in Jobs, state'[k] # "Absent"
      PROVE  Counted(spec'[k], Done(k)', dep_rt'[k].success + Coming(k)')
  <2>1. state[k] # "Absent" /\ DepsOf(k)' = DepsOf(k) /\ DepsOf(k) \in SUBSET Jobs
        /\ spec[k] \in Plan
    BY <1>1, <1>4, DepsAreJobs DEF DepsOf
  <2>2. Counted(spec[k], Done(k), dep_rt[k].success)
    <3>1. dep_rt[k].success + 0 = dep_rt[k].success
      BY DEF TypeOK, Counters
    <3>. QED BY <1>3, <2>1, <3>1 DEF CountersSound
  <2>3. CASE j \in DepsOf(k)
    <3>1. Done(k)' = Done(k) \cup {j} /\ j \notin Done(k) /\ Done(k) \in SUBSET Jobs
      BY <1>1, <2>1, <2>3 DEF Done
    <3>2. /\ Cardinality(Done(k)') = Cardinality(Done(k)) + 1
          /\ Listed(spec[k], Done(k)) + 1 <= Listed(spec[k], Done(k)')
          /\ Cardinality(Done(k)) \in Nat /\ Listed(spec[k], Done(k)) \in Nat
      BY <2>1, <3>1, ListedAdd, ListedType
    <3>3. Listed(spec[k], Done(k)') \in Nat
      BY <2>1, <3>1, ListedType
    <3>4. dep_rt[k].success \in Nat
      BY DEF TypeOK, Counters
    <3>. QED BY <1>1, <1>3, <2>2, <2>3, <3>2, <3>3, <3>4 DEF Counted
  <2>4. CASE j \notin DepsOf(k)
    <3>1. Done(k)' = Done(k)
      BY <1>1, <2>1, <2>4 DEF Done
    <3>2. dep_rt[k].success + 0 = dep_rt[k].success
      BY DEF TypeOK, Counters
    <3>. QED BY <1>1, <1>3, <2>2, <2>4, <3>1, <3>2
  <2>. QED BY <2>3, <2>4
<1>. QED BY <1>4, CountersPrime

(* A step that neither edits plans nor counters, nor finishes a job, nor tells of one.  *)
LEMMA CountsUntouched ==
    ASSUME Core, CountersSound,
           \A k \in Jobs : /\ DepsOf(k)' = DepsOf(k)
                           /\ spec'[k].again = spec[k].again
                           /\ dep_rt'[k].success = dep_rt[k].success
                           /\ k \in Told(calls', edges') <=> k \in Told(calls, edges)
                           /\ state'[k] = "Finished" <=> state[k] = "Finished"
                           /\ state'[k] = "Absent" <=> state[k] = "Absent"
    PROVE  CountersSound'
<1>1. ASSUME NEW k \in Jobs PROVE CountKept(k)
  <2>1. Done(k)' = Done(k)
    BY DepsAreJobs DEF Done, Core
  <2>2. Coming(k)' = Coming(k)
    BY DEF Coming
  <2>. QED BY <2>1, <2>2 DEF CountKept, Listed
<1>. QED BY <1>1, CountStays, CountersPrime

(* A plan with a begin time is a plan.  *)
LEMMA DelayedPlan ==
    ASSUME NEW p \in Plan
    PROVE  [p EXCEPT !.begin = "future"] \in Plan
BY DEF Plan

(* The next source: the success that is known, or one more failure.  *)
LEMMA NextSourceTells ==
    ASSUME Core, NextSource
    PROVE  \A k \in Jobs : k \in Told(calls', edges') <=> k \in Told(calls, edges)
<1>. USE DEF Core
<1>. DEFINE source == top.work[Len(top.work)]
            work == SubSeq(top.work, 1, Len(top.work) - 1)
            w == [top EXCEPT !.work = work, !.success = source[2],
                             !.left = Dependents(source[1])]
<1>1. /\ top \in PropagateWalk /\ rest \in Seq(Walk) /\ top.work # <<>> /\ ~Unlocked
      /\ top.kind = "propagate" /\ top = calls[1] /\ calls # <<>>
      /\ edges' = edges
  BY StackType, WalkKinds DEF NextSource, In, TypeOK, Unlocked
<1>2. /\ source \in Jobs \X BOOLEAN
      /\ work \in Seq(Jobs \X BOOLEAN)
      /\ Len(work) = Len(top.work) - 1
      /\ Len(top.work) \in Nat \ {0}
  <2>1. top.work \in Seq(Jobs \X BOOLEAN)
    BY <1>1 DEF PropagateWalk
  <2>2. Len(top.work) \in Nat \ {0}
    BY <1>1, <2>1, EmptySeq
  <2>. QED BY <1>1, <2>2, PropagateWalkType
<1>3. calls' = <<w>> \o rest
  BY DEF NextSource, With
<1>4. Dependents(source[1]) = {k \in Jobs : <<source[1], k>> \in edges}
  BY DEF Dependents
<1>5. FrameSound(top, state, spec) => top.success = FALSE /\ source[2] = FALSE
  BY <1>1, <1>2 DEF FrameSound, PropagateWalk
<1>6. SuccessWalk(top, state) => /\ top.success = TRUE /\ source[2] = TRUE
                                 /\ source = top.work[1] /\ Len(work) = 0
  BY <1>1, <1>2 DEF SuccessWalk, PropagateWalk
<1>. HIDE DEF source, work
<1>7. /\ w.kind = "propagate" /\ w.work = work /\ w.success = source[2]
      /\ w.left = Dependents(source[1])
      /\ w \in PropagateWalk
  BY <1>1, <1>2, <1>4 DEF PropagateWalk
<1>. HIDE DEF w
<1>8. calls'[1] = w /\ calls' # <<>>
  <2>1. w \in Walk
    BY <1>7, WalkKinds
  <2>2. /\ <<w>> \o rest \in Seq(Walk) /\ Len(<<w>> \o rest) = 1 + Len(rest)
        /\ (<<w>> \o rest)[1] = w /\ Len(rest) \in Nat
    BY <1>1, <2>1, PrependType
  <2>. QED BY <1>3, <2>2, EmptySeq
<1>9. CASE SuccessWalk(top, state)
  <2>1. work = <<>>
    BY <1>2, <1>6, <1>9, EmptySeq
  <2>. QED BY <1>1, <1>4, <1>6, <1>7, <1>8, <1>9, <2>1 DEF Told
<1>10. CASE FrameSound(top, state, spec)
  BY <1>1, <1>5, <1>7, <1>8, <1>10 DEF Told
<1>. QED BY <1>1, <1>9, <1>10, WalkTop, StackTop DEF TypeOK

(* One dependent is told of a success, which its counters take in.  *)
LEMMA PropagateCounts ==
    ASSUME Core, CountersSound, NEW j \in Jobs, PropagateTo(j)
    PROVE  CountersSound'
<1>. USE DEF Core
<1>. DEFINE S == top.left \ {j}
            next == [top EXCEPT !.left = S]
            rt == Count(dep_rt[j], spec[j].mode, top.success)
            more == [next EXCEPT !.work = Append(@, <<j, FALSE>>)]
<1>1. /\ top \in PropagateWalk /\ rest \in Seq(Walk) /\ ~Unlocked /\ j \in top.left
      /\ top.kind = "propagate" /\ top = calls[1] /\ calls # <<>>
  BY StackType, WalkKinds DEF PropagateTo, In, TypeOK, Unlocked
<1>2. /\ spec' = spec /\ edges' = edges /\ dep_rt' = [dep_rt EXCEPT ![j] = rt]
      /\ \/ /\ state[j] = "Queued" /\ rt.impossible /\ ~dep_rt[j].impossible
            /\ state' = Moved({j}, "Cancelled")
            /\ calls' = Propagate(j, FALSE) \o (<<more>> \o rest)
         \/ state' = state /\ calls' = <<next>> \o rest
  BY DEF PropagateTo, With
<1>3. S \in SUBSET Jobs /\ \A k : k \in S <=> k \in top.left /\ k # j
  BY <1>1 DEF PropagateWalk
<1>. HIDE DEF S
<1>4. /\ next \in PropagateWalk /\ next.work = top.work /\ next.success = top.success
      /\ next.left = S /\ next.kind = "propagate"
  BY <1>1, <1>3 DEF PropagateWalk
<1>5. more \in PropagateWalk
  BY <1>1, <1>3, PropagateWalkType
<1>6. next \in Walk /\ more \in Walk
  BY <1>4, <1>5, WalkKinds
<1>7. dep_rt[j] \in Counters /\ dep_rt[j].success \in Nat
  BY DEF TypeOK, Counters
<1>8. /\ \A k \in Jobs : k # j => dep_rt'[k] = dep_rt[k]
      /\ dep_rt'[j] = rt
  BY <1>2 DEF TypeOK
<1>9. rt.success = IF top.success THEN dep_rt[j].success + 1 ELSE dep_rt[j].success
  <2>1. /\ dep_rt[j].total \in Nat /\ dep_rt[j].success \in Nat /\ dep_rt[j].failure \in Nat
        /\ dep_rt[j].success + 1 \in Nat /\ dep_rt[j].failure + 1 \in Nat
    BY <1>7 DEF Counters
  <2>. QED BY <2>1, JudgedType DEF Count
<1>. HIDE DEF next, more, rt
<1>10. \A k \in Jobs : DepsOf(k)' = DepsOf(k)
  BY <1>2 DEF DepsOf
<1>11. CASE rest = <<>> /\ SuccessWalk(top, state)
  <2>1. top.success = TRUE /\ state[j] # "Absent" /\ top.work = <<>>
    BY <1>1, <1>11 DEF SuccessWalk, PropagateWalk
  <2>2. rt.impossible => dep_rt[j].impossible
    BY <2>1, SuccessSpares DEF rt
  <2>3. state' = state /\ calls' = <<next>> \o rest
    BY <1>2, <2>2
  <2>4. calls' # <<>> /\ calls'[1] = next
    BY <1>6, <1>11, <2>3, PrependType, EmptySeq
  <2>5. \A k \in Jobs : /\ k \in Told(calls, edges) <=> k \in top.left
                        /\ k \in Told(calls', edges') <=> k \in S
    BY <1>1, <1>4, <2>1, <2>4 DEF Told
  <2>6. ASSUME NEW k \in Jobs, state'[k] # "Absent" PROVE CountKept(k)
    <3>1. Done(k)' = Done(k) /\ spec'[k] = spec[k]
      BY <1>2, <1>10, <2>3 DEF Done
    <3>2. dep_rt'[k].success + Coming(k)' = dep_rt[k].success + Coming(k)
      <4>1. CASE k = j
        <5>1. Coming(k) = 1 /\ Coming(k)' = 0
          BY <1>1, <1>3, <2>5, <4>1 DEF Coming
        <5>2. dep_rt'[k].success = dep_rt[j].success + 1
          BY <1>8, <1>9, <2>1, <4>1
        <5>. QED BY <1>7, <4>1, <5>1, <5>2
      <4>2. CASE k # j
        BY <1>3, <1>8, <2>5, <4>2 DEF Coming
      <4>. QED BY <4>1, <4>2
    <3>. QED BY <2>3, <2>6, <3>1, <3>2 DEF CountKept
  <2>. QED BY <2>6, CountStays, CountersPrime
<1>12. CASE StackSound(calls, state, spec)
  <2>1. top.success = FALSE
    BY <1>1, <1>12, StackTop DEF FrameSound, TypeOK, PropagateWalk
  <2>2. NoSuccess(calls')
    <3>1. NoSuccess(<<next>> \o rest)
      BY <1>1, <1>4, <1>6, <2>1, PrependedTellsNothing
    <3>2. NoSuccess(Propagate(j, FALSE) \o (<<more>> \o rest))
      <4>1. \A c \in Seq(Walk) : NoSuccess(Propagate(j, FALSE) \o c)
        BY PropagateTellsNothing
      <4>2. <<more>> \o rest \in Seq(Walk)
        BY <1>1, <1>6, PrependType
      <4>. QED BY <4>1, <4>2
    <3>. QED BY <1>2, <3>1, <3>2
  <2>3. NoSuccess(calls)
    BY <1>1, <2>1 DEF NoSuccess
  <2>4. \A k \in Jobs : /\ state'[k] = "Finished" <=> state[k] = "Finished"
                        /\ state'[k] = "Absent" <=> state[k] = "Absent"
    BY <1>2 DEF Moved, TypeOK
  <2>5. \A k \in Jobs : dep_rt'[k].success = dep_rt[k].success
    BY <1>8, <1>9, <2>1
  <2>. QED BY <1>2, <1>10, <2>2, <2>3, <2>4, <2>5, NothingTold, CountsUntouched
<1>. QED BY <1>1, <1>11, <1>12, WalkTop

(* A walk that is over has nobody left to tell.  *)
LEMMA ReturnTells ==
    ASSUME Core, Return
    PROVE  Told(calls, edges) = {} /\ Told(calls', edges') = {}
<1>. USE DEF Core
<1>1. /\ ~Unlocked /\ calls' = rest /\ top.left = {} /\ top = calls[1]
      /\ top.kind # "retry" => top.work = <<>>
  BY StackType DEF Return, TypeOK
<1>2. CASE rest = <<>> /\ SuccessWalk(top, state)
  BY <1>1, <1>2 DEF Told, SuccessWalk
<1>3. CASE StackSound(calls, state, spec)
  <2>1. calls \in Seq(Walk) /\ rest \in Seq(Walk) /\ StackSound(rest, state, spec)
    BY <1>1, <1>3, StackTop, WalkTop DEF TypeOK
  <2>. QED BY <1>1, <1>3, <2>1, FailuresTellNothing, NothingTold
<1>. QED BY <1>1, <1>2, <1>3, WalkTop

(* Every step keeps the counters true.  *)
LEMMA CountersStep ==
    ASSUME Core, CountersSound, [Next]_vars
    PROVE  CountersSound'
<1>. USE NamesType DEF Core
<1>0. /\ state \in [Jobs -> States] /\ spec \in [Jobs -> Plan] /\ dep_rt \in [Jobs -> Counters]
      /\ calls \in Seq(Walk) /\ NoSuccess(<<>>)
  BY DEF TypeOK, NoSuccess
<1>1. ASSUME spec' = spec, dep_rt' = dep_rt, NoSuccess(calls), NoSuccess(calls'),
             \A k \in Jobs : /\ state'[k] = "Finished" <=> state[k] = "Finished"
                             /\ state'[k] = "Absent" <=> state[k] = "Absent"
      PROVE  CountersSound'
  BY <1>1, NothingTold, CountsUntouched DEF DepsOf
<1>2. Unlocked => NoSuccess(calls)
  BY DEF Unlocked, NoSuccess
<1>3. ASSUME NEW j \in Jobs, NEW sp \in [Jobs -> Plan], NEW others \in Seq(Walk), Unlocked,
             RefreshJob(j, Moved({j}, "Queued"), sp, "None", others), NoSuccess(others),
             \A k \in Jobs : k # j => sp[k] = spec[k], state[j] # "Finished"
      PROVE  CountersSound'
  <2>. DEFINE st == Moved({j}, "Queued")
  <2>1. st \in [Jobs -> States] /\ st[j] = "Queued" /\ \A k \in Jobs : k # j => st[k] = state[k]
    BY MovedType DEF Moved
  <2>2. RefreshJob(j, st, sp, "None", others)
    BY <1>3
  <2>. HIDE DEF st
  <2>. QED BY <1>2, <1>3, <2>1, <2>2, RefreshJobCounts
<1>4. ASSUME NEW j \in Jobs, Submit(j) PROVE CountersSound'
  <2>1. PICK p \in Allowed.plans[j] :
           RefreshJob(j, Moved({j}, "Queued"), [spec EXCEPT ![j] = p], "None", <<>>)
    BY <1>4 DEF Submit
  <2>2. p \in Plan
    BY SetupsAssumption DEF TypeOK, Allowed
  <2>. DEFINE sp == [spec EXCEPT ![j] = p]
  <2>3. /\ sp \in [Jobs -> Plan] /\ \A k \in Jobs : k # j => sp[k] = spec[k]
        /\ RefreshJob(j, Moved({j}, "Queued"), sp, "None", <<>>)
    BY <1>0, <2>1, <2>2
  <2>4. Unlocked /\ state[j] = "Absent"
    BY <1>4 DEF Submit, Next_id
  <2>. HIDE DEF sp
  <2>. QED BY <1>0, <1>3, <2>3, <2>4
<1>5. ASSUME NEW j \in Jobs, Release(j) PROVE CountersSound'
  <2>1. /\ Unlocked /\ state[j] # "Finished"
        /\ RefreshJob(j, Moved({j}, "Queued"), spec, "None", <<>>)
    BY <1>0, <1>5 DEF Release, CanTransitionTo, Ended
  <2>. QED BY <1>0, <1>3, <2>1
<1>6. ASSUME NEW j \in Jobs, ReleaseAt(j) PROVE CountersSound'
  <2>. DEFINE sp == [spec EXCEPT ![j].begin = "future"]
  <2>1. sp \in [Jobs -> Plan] /\ \A k \in Jobs : k # j => sp[k] = spec[k]
    <3>1. [spec[j] EXCEPT !.begin = "future"] \in Plan
      BY <1>0, DelayedPlan
    <3>. QED BY <1>0, <3>1
  <2>2. CASE "Queued" \in CanTransitionTo[state[j]]
    <3>1. /\ Unlocked /\ state[j] # "Finished"
          /\ RefreshJob(j, Moved({j}, "Queued"), sp, "None", <<>>)
      BY <1>0, <1>6, <2>2 DEF ReleaseAt, CanTransitionTo, Ended
    <3>. HIDE DEF sp
    <3>. QED BY <1>0, <1>3, <2>1, <3>1
  <2>3. CASE "Queued" \notin CanTransitionTo[state[j]]
    <3>1. /\ spec' = sp /\ state' = state /\ dep_rt' = dep_rt /\ edges' = edges /\ calls' = calls
      BY <1>6, <2>3 DEF ReleaseAt
    <3>2. \A k \in Jobs : spec'[k].again = spec[k].again /\ DepsOf(k)' = DepsOf(k)
      BY <3>1, SpecBegin DEF DepsKept
    <3>. HIDE DEF sp
    <3>. QED BY <3>1, <3>2, CountsUntouched
  <2>. QED BY <2>2, <2>3
<1>7. ASSUME NEW j \in Jobs, NEW final \in {"Failed", "Cancelled"}, NEW why, End(j, final, why)
      PROVE  CountersSound'
  <2>1. calls' = Propagate(j, FALSE)
    <3>1. (final = "Finished") = FALSE
      BY <1>7
    <3>. QED BY <1>7, <3>1 DEF End
  <2>2. NoSuccess(calls') /\ NoSuccess(calls)
    <3>1. Propagate(j, FALSE) \o <<>> = Propagate(j, FALSE)
      BY DEF Propagate
    <3>. QED BY <1>0, <1>2, <1>7, <2>1, <3>1, PropagateTellsNothing DEF End
  <2>. QED BY <1>0, <1>1, <1>7, <2>2 DEF End, Moved, CanTransitionTo, Ended
<1>8. ASSUME NEW j \in Jobs, Update(j) PROVE CountersSound'
  <2>1. PICK p \in Revised(j) : RefreshJob(j, state, [spec EXCEPT ![j] = p], reason[j], <<>>)
    BY <1>8 DEF Update
  <2>. DEFINE sp == [spec EXCEPT ![j] = p]
  <2>2. sp \in [Jobs -> Plan] /\ \A k \in Jobs : k # j => sp[k] = spec[k]
    BY <1>0, RevisedType, PlanType
  <2>3. /\ RefreshJob(j, state, sp, reason[j], <<>>)
        /\ state[j] # "Finished" /\ Unlocked
    BY <1>8, <2>1 DEF Update, MayUpdate
  <2>. HIDE DEF sp
  <2>4. NoSuccess(calls) /\ NoSuccess(<<>>) /\ <<>> \in Seq(Walk) /\ state \in [Jobs -> States]
    BY <1>0, <1>2, <2>3
  <2>. QED BY <2>2, <2>3, <2>4, RefreshJobCounts
<1>9. ASSUME NEW j \in Jobs, WaveTo(j) PROVE CountersSound'
  <2>. DEFINE S == top.left \ {j}
              next == [top EXCEPT !.left = S]
              more == [next EXCEPT !.work = Append(@, j)]
  <2>1. /\ ~Unlocked /\ top.kind = "wave"
        /\ \/ state[j] = "Queued" /\ Refresh(j, state, spec, reason[j], <<more>> \o rest,
                                             <<next>> \o rest)
           \/ /\ state' = state /\ spec' = spec /\ calls' = <<next>> \o rest
              /\ dep_rt' = dep_rt
    BY <1>9 DEF WaveTo, In, With
  <2>2. top \in WaveWalk /\ rest \in Seq(Walk) /\ top = calls[1]
    BY <1>0, <2>1, WalkTop, WalkKinds, StackType
  <2>3. S \in SUBSET Jobs
    BY <2>2 DEF WaveWalk
  <2>. HIDE DEF S
  <2>4. next \in WaveWalk /\ more \in WaveWalk
    BY <2>2, <2>3, WaveWalkType
  <2>. HIDE DEF next, more
  <2>5. next.kind = "wave" /\ more.kind = "wave" /\ next \in Walk /\ more \in Walk
    BY <2>4, WalkKinds DEF WaveWalk
  <2>6. /\ <<next>> \o rest \in Seq(Walk) /\ <<more>> \o rest \in Seq(Walk)
        /\ NoSuccess(<<next>> \o rest) /\ NoSuccess(<<more>> \o rest) /\ NoSuccess(calls)
    BY <2>1, <2>2, <2>5, PrependType, PrependedTellsNothing DEF NoSuccess
  <2>. QED BY <1>0, <1>1, <2>1, <2>6, RefreshCounts
<1>10. ASSUME NEW j \in Jobs, Retarget(j) PROVE CountersSound'
  <2>. DEFINE next == [top EXCEPT !.left = top.left \ {j}]
              sp == [spec EXCEPT ![j] = RetargetedPlan(j, top.old, top.new)]
  <2>1. /\ ~Unlocked /\ top.kind = "retry"
        /\ \/ state[j] \in Retargeted /\ RefreshJob(j, state, sp, reason[j], <<next>> \o rest)
           \/ state' = state /\ spec' = spec /\ calls' = <<next>> \o rest /\ dep_rt' = dep_rt
    BY <1>10 DEF Retarget, RetargetedPlan, In, With
  <2>2. top \in RetryWalk /\ rest \in Seq(Walk) /\ top = calls[1] /\ top.old \in Jobs
        /\ top.new \in Jobs
    BY <1>0, <2>1, WalkTop, RetryTop, StackType
  <2>3. sp \in [Jobs -> Plan] /\ \A k \in Jobs : k # j => sp[k] = spec[k]
    BY <1>0, <2>2, RetargetedPlanType, PlanType
  <2>4. next \in RetryWalk /\ next.kind = "retry" /\ next \in Walk
    <3>1. top.left \ {j} \in SUBSET Jobs
      BY <2>2 DEF RetryWalk
    <3>. QED BY <2>2, <3>1, RetryWalkType, WalkKinds
  <2>. HIDE DEF next, sp
  <2>5. /\ <<next>> \o rest \in Seq(Walk)
        /\ NoSuccess(<<next>> \o rest) /\ NoSuccess(calls)
    BY <2>1, <2>2, <2>4, PrependType, PrependedTellsNothing DEF NoSuccess
  <2>6. CASE state[j] \in Retargeted /\ RefreshJob(j, state, sp, reason[j], <<next>> \o rest)
    BY <1>0, <2>3, <2>5, <2>6, RefreshJobCounts DEF Retargeted
  <2>7. CASE state' = state /\ spec' = spec /\ calls' = <<next>> \o rest /\ dep_rt' = dep_rt
    BY <1>1, <2>5, <2>7
  <2>. QED BY <2>1, <2>6, <2>7
<1>11. ASSUME NEW j \in Jobs, NEW n \in Jobs, FailAndRetry(j, n) PROVE CountersSound'
  <2>. DEFINE w == [kind |-> "retry", old |-> j, new |-> n, left |-> Dependents(j)]
              sp == [spec EXCEPT ![n] = RetryPlan(j)]
  <2>1. sp \in [Jobs -> Plan] /\ \A k \in Jobs : k # n => sp[k] = spec[k]
    BY <1>0, <1>11, RetryPlanType, PlanType DEF FailAndRetry
  <2>2. /\ RefreshJob(n, Moved({n}, "Queued"), sp, "None", <<w>>)
        /\ Unlocked /\ state[n] = "Absent"
    BY <1>11 DEF FailAndRetry, RetryPlan, Next_id
  <2>3. <<w>> \in Seq(Walk) /\ NoSuccess(<<w>>)
    <3>1. w \in RetryWalk
      BY DEF RetryWalk, Dependents
    <3>2. w \in Walk /\ w.kind = "retry"
      BY <3>1, WalkKinds
    <3>. HIDE DEF w
    <3>. QED BY <3>2 DEF NoSuccess
  <2>. HIDE DEF w, sp
  <2>. QED BY <1>3, <2>1, <2>2, <2>3
<1>12. ASSUME NEW j \in Jobs, Hold(j) PROVE CountersSound'
  BY <1>0, <1>1, <1>2, <1>12 DEF Hold, Moved, CanTransitionTo
<1>13. ASSUME NEW j \in Jobs, Tick(j) PROVE CountersSound'
  <2>1. \A k \in Jobs : spec'[k].again = spec[k].again /\ DepsOf(k)' = DepsOf(k)
    BY <1>13, SpecBegin DEF DepsKept, Tick
  <2>. QED BY <1>13, <2>1, CountsUntouched DEF Tick
<1>14. CASE ReleaseDue
  BY <1>1, <1>2, <1>14 DEF ReleaseDue
<1>15. CASE Pass
  <2>1. PICK S \in SUBSET Runnable : state' = Moved(S, "Running")
    BY <1>15 DEF Pass
  <2>2. \A k \in S : state[k] = "Queued"
    BY DEF Runnable, Valid
  <2>3. \A k \in Jobs : /\ state'[k] = "Finished" <=> state[k] = "Finished"
                        /\ state'[k] = "Absent" <=> state[k] = "Absent"
    BY <1>0, <2>1, <2>2 DEF Moved
  <2>. QED BY <1>1, <1>2, <1>15, <2>3 DEF Pass
<1>16. CASE Restart
  <2>1. /\ spec' = spec /\ state' = state /\ NoSuccess(calls')
        /\ \A k \in Jobs : state[k] # "Absent" => dep_rt'[k] = Build(spec[k], state)
    BY <1>2, <1>16 DEF Restart
  <2>2. ASSUME NEW k \in Jobs, state'[k] # "Absent"
        PROVE  Counted(spec'[k], Done(k)', dep_rt'[k].success + Coming(k)')
    <3>1. Coming(k)' = 0 /\ Done(k)' = {d \in DepsIn(spec[k]) : state[d] = "Finished"}
      BY <2>1, NothingTold DEF Coming, Done, DepsOf
    <3>2. Counted(spec[k], {d \in DepsIn(spec[k]) : state[d] = "Finished"},
                  Build(spec[k], state).success + 0)
      BY <1>0, RebuiltCount
    <3>3. dep_rt'[k] = Build(spec[k], state) /\ spec'[k] = spec[k]
      BY <2>1, <2>2
    <3>. QED BY <3>1, <3>2, <3>3
  <2>. QED BY <2>2, CountersPrime
<1>17. CASE NextSource
  <2>1. spec' = spec /\ dep_rt' = dep_rt /\ state' = state
    BY <1>17 DEF NextSource
  <2>. QED BY <1>17, <2>1, NextSourceTells, CountsUntouched DEF DepsOf
<1>18. CASE NextWave
  <2>. DEFINE w == [top EXCEPT !.work = Tail(@),
                               !.seen = @ \cup {Head(top.work)},
                               !.left = IF Head(top.work) \in top.seen THEN {}
                                        ELSE Dependents(Head(top.work))]
  <2>1. /\ calls' = <<w>> \o rest /\ state' = state /\ spec' = spec /\ dep_rt' = dep_rt
        /\ ~Unlocked /\ top.kind = "wave" /\ top.work # <<>>
    BY <1>18 DEF NextWave, With, In
  <2>2. top \in WaveWalk /\ rest \in Seq(Walk) /\ top = calls[1]
    BY <1>0, <2>1, WalkTop, WalkKinds, StackType
  <2>3. w.kind = "wave" /\ w \in WaveWalk
    <3>1. Head(top.work) \in Jobs /\ Tail(top.work) \in Seq(Jobs)
      BY <2>1, <2>2, WaveWalkType
    <3>2. Dependents(Head(top.work)) \in SUBSET Jobs
      BY DEF Dependents
    <3>. QED BY <2>2, <3>1, <3>2 DEF WaveWalk
  <2>. HIDE DEF w
  <2>4. w \in Walk
    BY <2>3, WalkKinds
  <2>5. NoSuccess(calls) /\ NoSuccess(calls')
    BY <2>1, <2>2, <2>3, <2>4, PrependedTellsNothing DEF NoSuccess
  <2>. QED BY <1>1, <2>1, <2>5
<1>19. CASE Return
  <2>1. top.kind = "retry" => state[top.old] = "Running" /\ top.old \in Jobs
    BY <1>19, RetryTop DEF Return
  <2>2. \A k \in Jobs : /\ state'[k] = "Finished" <=> state[k] = "Finished"
                        /\ state'[k] = "Absent" <=> state[k] = "Absent"
    BY <1>0, <1>19, <2>1 DEF Return, Moved
  <2>3. spec' = spec /\ dep_rt' = dep_rt
    BY <1>19 DEF Return
  <2>. QED BY <1>19, <2>2, <2>3, ReturnTells, CountsUntouched DEF DepsOf
<1>20. CASE UNCHANGED vars
  <2>1. spec' = spec /\ dep_rt' = dep_rt /\ state' = state /\ calls' = calls /\ edges' = edges
    BY <1>20 DEF vars
  <2>. QED BY <2>1, CountsUntouched DEF DepsOf
<1>21. ASSUME NEW j \in Jobs, Cancel(j) \/ Finish(j) \/ Fail(j) PROVE CountersSound'
  BY <1>7, <1>21, FinishCounts DEF Cancel, Finish, Fail
<1>. QED
  BY <1>4, <1>5, <1>6, <1>8, <1>9, <1>10, <1>11, <1>12, <1>13, <1>14, <1>15, <1>16, <1>17, <1>18,
     <1>19, <1>20, <1>21, PropagateCounts DEF Next

-----------------------------------------------------------------------------
(* The ready heap and the reasons.  *)

(* No entry is from the future, and one that is not stale is of a job that waits for no
   begin time.  *)
HeapSound ==
    \A e \in heap : /\ e.epoch <= epoch[e.job]
                    /\ e.epoch = epoch[e.job] => spec[e.job].begin # "future"

(* A job waits for its dependencies when its counters say so.  *)
ReasonsSound ==
    \A k \in Jobs : state[k] = "Queued" /\ spec[k].begin = "none"
        => (reason[k] = "Dependency" <=> ~dep_rt[k].satisfied)

(* No job lists a dependency twice.  *)
NoAgain == \A k \in Jobs : spec[k].again = {}

(* What a refresh does to the heap and to the reason of its job.  *)
LEMMA RefreshHeap ==
    ASSUME TypeOK, HeapSound, NEW j \in Jobs, NEW st, NEW sp, NEW why, NEW changed, NEW same,
           Refresh(j, st, sp, why, changed, same),
           \A k \in Jobs : k # j => sp[k].begin = spec[k].begin
    PROVE  HeapSound'
<1>1. /\ spec' = sp
      /\ epoch'[j] = epoch[j] + 1 /\ epoch[j] \in Nat
      /\ \A k \in Jobs : k # j => epoch'[k] = epoch[k]
      /\ \A e \in heap : e.job \in Jobs /\ e.epoch \in Nat
  BY DEF Refresh, TypeOK, Entry
<1>2. ASSUME NEW e \in heap'
      PROVE  e \in heap \/ (e.job = j /\ e.epoch = epoch[j] + 1 /\ sp[j].begin # "future")
  <2>. DEFINE rt == Build(sp[j], st)
  <2>1. heap' = heap \/ heap' = Pushed(heap, j, st[j], sp[j], rt, epoch[j] + 1)
    BY DEF Refresh
  <2>. HIDE DEF rt
  <2>2. \/ heap' = heap
        \/ /\ heap' = heap \cup {[job |-> j, epoch |-> epoch[j] + 1, key |-> sp[j].key]}
           /\ sp[j].begin # "future"
    BY <2>1 DEF Pushed
  <2>. QED BY <1>2, <2>2
<1>3. ASSUME NEW e \in heap'
      PROVE  e.epoch <= epoch'[e.job]
             /\ (e.epoch = epoch'[e.job] => spec'[e.job].begin # "future")
  <2>1. CASE e \in heap /\ e.job # j
    BY <1>1, <2>1 DEF HeapSound
  <2>2. CASE e \in heap /\ e.job = j
    <3>1. e.epoch <= epoch[j] /\ e.epoch \in Nat
      BY <1>1, <2>2 DEF HeapSound
    <3>. QED BY <1>1, <2>2, <3>1
  <2>3. CASE e.job = j /\ e.epoch = epoch[j] + 1 /\ sp[j].begin # "future"
    BY <1>1, <2>3
  <2>. QED BY <1>2, <2>1, <2>2, <2>3
<1>. QED BY <1>3 DEF HeapSound

(* The reason a refresh writes is the one the counters give.  *)
LEMMA RefreshReason ==
    ASSUME TypeOK, ReasonsSound, NEW j \in Jobs, NEW st \in [Jobs -> States], NEW sp, NEW why,
           NEW changed, NEW same, Refresh(j, st, sp, why, changed, same),
           \A k \in Jobs : k # j => /\ sp[k].begin = spec[k].begin
                                    /\ st[k] = "Queued" => state[k] = "Queued"
    PROVE  ReasonsSound'
<1>. DEFINE rt == Build(sp[j], st)
<1>1. /\ spec' = sp
      /\ \A k \in Jobs : k # j => state'[k] = st[k]
      /\ dep_rt' = [dep_rt EXCEPT ![j] = rt]
  BY RefreshMoves
<1>2. \/ state' = [st EXCEPT ![j] = "Cancelled"]
         /\ reason' = [reason EXCEPT ![j] = "DependencyFailed"]
      \/ state' = st /\ reason' = [reason EXCEPT ![j] = Synced(why, WaitReason(st[j], sp[j], rt))]
  BY DEF Refresh
<1>. HIDE DEF rt
<1>3. dep_rt'[j] = rt /\ \A k \in Jobs : k # j => dep_rt'[k] = dep_rt[k]
  BY <1>1 DEF TypeOK
<1>4. \A k \in Jobs : k # j => reason'[k] = reason[k]
  BY <1>2 DEF TypeOK
<1>5. ASSUME state'[j] = "Queued", spec'[j].begin = "none"
      PROVE  reason'[j] = "Dependency" <=> ~dep_rt'[j].satisfied
  <2>1. st[j] = "Queued" /\ reason'[j] = Synced(why, WaitReason("Queued", sp[j], rt))
    BY <1>2, <1>5 DEF TypeOK
  <2>2. WaitReason("Queued", sp[j], rt) = IF rt.satisfied THEN "None" ELSE "Dependency"
    BY <1>1, <1>5 DEF WaitReason
  <2>. QED BY <1>3, <2>1, <2>2 DEF Synced
<1>6. ASSUME NEW k \in Jobs, k # j, state'[k] = "Queued", spec'[k].begin = "none"
      PROVE  reason'[k] = "Dependency" <=> ~dep_rt'[k].satisfied
  <2>1. state[k] = "Queued" /\ spec[k].begin = "none"
    BY <1>1, <1>6
  <2>. QED BY <1>3, <1>4, <1>6, <2>1 DEF ReasonsSound
<1>. QED BY <1>5, <1>6 DEF ReasonsSound

(* A release at a time finds its job on hold, as the client made sure; nobody else has
   released it since.  *)
HeldUntilReleased == \A u \in DOMAIN Setups : Setups[u].delayed \subseteq {"Hold"}

(* No dependency is listed twice.  *)
ListedOnce == \A u \in DOMAIN Setups : \A j \in Jobs : \A p \in Setups[u].plans[j] : p.again = {}

(* Every step keeps the entries of the heap true, if releases at a time find jobs on
   hold.  *)
LEMMA HeapStep ==
    ASSUME HeldUntilReleased, Core, HeapSound, [Next]_vars
    PROVE  HeapSound'
<1>. USE NamesType DEF Core
<1>0. /\ state \in [Jobs -> States] /\ spec \in [Jobs -> Plan] /\ epoch \in [Jobs -> Nat]
      /\ \A e \in heap : e.job \in Jobs /\ e.epoch \in Nat
  BY DEF TypeOK, Entry
<1>1. ASSUME heap' \subseteq heap, \A k \in Jobs : /\ spec'[k].begin = "future"
                                                      => spec[k].begin = "future"
                                                   /\ epoch'[k] \in {epoch[k], epoch[k] + 1}
      PROVE  HeapSound'
  <2>1. ASSUME NEW e \in heap'
        PROVE  e.epoch <= epoch'[e.job]
               /\ (e.epoch = epoch'[e.job] => spec'[e.job].begin # "future")
    <3>1. e.job \in Jobs /\ e.epoch \in Nat /\ epoch[e.job] \in Nat /\ e.epoch <= epoch[e.job]
          /\ (e.epoch = epoch[e.job] => spec[e.job].begin # "future")
          /\ epoch'[e.job] \in {epoch[e.job], epoch[e.job] + 1}
      BY <1>0, <1>1, <2>1 DEF HeapSound
    <3>. QED BY <1>1, <3>1
  <2>. QED BY <2>1 DEF HeapSound
<1>2. ASSUME NEW j \in Jobs, NEW st, NEW sp, NEW why, NEW others,
             RefreshJob(j, st, sp, why, others),
             \A k \in Jobs : k # j => sp[k].begin = spec[k].begin
      PROVE  HeapSound'
  BY <1>2, RefreshHeap DEF RefreshJob
<1>3. ASSUME NEW j \in Jobs, Submit(j) PROVE HeapSound'
  <2>1. PICK p \in Allowed.plans[j] :
           RefreshJob(j, Moved({j}, "Queued"), [spec EXCEPT ![j] = p], "None", <<>>)
    BY <1>3 DEF Submit
  <2>. DEFINE sp == [spec EXCEPT ![j] = p]
  <2>2. /\ \A k \in Jobs : k # j => sp[k] = spec[k]
        /\ RefreshJob(j, Moved({j}, "Queued"), sp, "None", <<>>)
    BY <1>0, <2>1
  <2>. HIDE DEF sp
  <2>. QED BY <1>2, <2>2
<1>4. ASSUME NEW j \in Jobs, Release(j) PROVE HeapSound'
  BY <1>2, <1>4 DEF Release
<1>5. ASSUME NEW j \in Jobs, ReleaseAt(j) PROVE HeapSound'
  <2>. DEFINE sp == [spec EXCEPT ![j].begin = "future"]
  <2>1. \A k \in Jobs : k # j => sp[k] = spec[k]
    BY <1>0
  <2>2. state[j] = "Hold"
    BY <1>5 DEF ReleaseAt, HeldUntilReleased, Allowed, TypeOK
  <2>3. "Queued" \in CanTransitionTo[state[j]]
    BY <2>2 DEF CanTransitionTo, States, Ended
  <2>4. RefreshJob(j, Moved({j}, "Queued"), sp, "None", <<>>)
    BY <1>5, <2>3 DEF ReleaseAt
  <2>. HIDE DEF sp
  <2>. QED BY <1>2, <2>1, <2>4
<1>6. ASSUME NEW j \in Jobs, Update(j) PROVE HeapSound'
  <2>1. PICK p \in Revised(j) : RefreshJob(j, state, [spec EXCEPT ![j] = p], reason[j], <<>>)
    BY <1>6 DEF Update
  <2>. DEFINE sp == [spec EXCEPT ![j] = p]
  <2>2. /\ \A k \in Jobs : k # j => sp[k] = spec[k]
        /\ RefreshJob(j, state, sp, reason[j], <<>>)
    BY <1>0, <2>1
  <2>. HIDE DEF sp
  <2>. QED BY <1>2, <2>2
<1>7. ASSUME NEW j \in Jobs, PropagateTo(j) PROVE HeapSound'
  <2>. DEFINE rt == Count(dep_rt[j], spec[j].mode, top.success)
  <2>1. /\ spec' = spec
        /\ \/ heap' = heap /\ epoch' = Bumped({j})
           \/ /\ heap' = heap \/ heap' = Pushed(heap, j, state[j], spec[j], rt, epoch[j])
              /\ epoch' = epoch
    BY <1>7 DEF PropagateTo
  <2>. HIDE DEF rt
  <2>2. CASE heap' = heap
    <3>1. \A k \in Jobs : epoch'[k] \in {epoch[k], epoch[k] + 1}
      BY <1>0, <2>1 DEF Bumped
    <3>. QED BY <1>1, <2>1, <2>2, <3>1
  <2>3. CASE heap' = Pushed(heap, j, state[j], spec[j], rt, epoch[j]) /\ epoch' = epoch
    <3>1. ASSUME NEW e \in heap'
          PROVE  e \in heap \/ (e.job = j /\ e.epoch = epoch[j] /\ spec[j].begin # "future")
      BY <2>3, <3>1 DEF Pushed
    <3>. QED BY <1>0, <2>1, <2>3, <3>1 DEF HeapSound
  <2>. QED BY <2>1, <2>2, <2>3
<1>8. ASSUME NEW j \in Jobs, WaveTo(j) PROVE HeapSound'
  <2>. DEFINE next == [top EXCEPT !.left = @ \ {j}]
  <2>1. \/ Refresh(j, state, spec, reason[j], With([next EXCEPT !.work = Append(@, j)]),
                   With(next))
        \/ heap' = heap /\ spec' = spec /\ epoch' = epoch
    BY <1>8 DEF WaveTo
  <2>. HIDE DEF next
  <2>. QED BY <1>1, <2>1, RefreshHeap
<1>9. ASSUME NEW j \in Jobs, Retarget(j) PROVE HeapSound'
  <2>. DEFINE next == [top EXCEPT !.left = @ \ {j}]
              sp == [spec EXCEPT ![j] = RetargetedPlan(j, top.old, top.new)]
  <2>1. \/ RefreshJob(j, state, sp, reason[j], With(next))
        \/ heap' = heap /\ spec' = spec /\ epoch' = epoch
    BY <1>9 DEF Retarget, RetargetedPlan
  <2>2. \A k \in Jobs : k # j => sp[k] = spec[k]
    BY <1>0
  <2>. HIDE DEF next, sp
  <2>. QED BY <1>1, <1>2, <2>1, <2>2
<1>10. ASSUME NEW j \in Jobs, NEW n \in Jobs, FailAndRetry(j, n) PROVE HeapSound'
  <2>. DEFINE w == [kind |-> "retry", old |-> j, new |-> n, left |-> Dependents(j)]
              sp == [spec EXCEPT ![n] = RetryPlan(j)]
  <2>1. /\ \A k \in Jobs : k # n => sp[k] = spec[k]
        /\ RefreshJob(n, Moved({n}, "Queued"), sp, "None", <<w>>)
    BY <1>0, <1>10 DEF FailAndRetry, RetryPlan
  <2>. HIDE DEF w, sp
  <2>. QED BY <1>2, <2>1
<1>11. ASSUME NEW j \in Jobs, Hold(j) \/ (\E final, why : End(j, final, why)) PROVE HeapSound'
  <2>1. heap' = heap /\ spec' = spec /\ epoch' = Bumped({j})
    BY <1>11 DEF Hold, End
  <2>. QED BY <1>0, <1>1, <2>1 DEF Bumped
<1>12. ASSUME NEW j \in Jobs, Tick(j) PROVE HeapSound'
  <2>1. \A k \in Jobs : spec'[k].begin = "future" => spec[k].begin = "future"
    BY <1>0, <1>12, SpecBegin DEF Tick, Plan
  <2>. QED BY <1>1, <1>12, <2>1 DEF Tick
<1>13. CASE ReleaseDue
  <2>1. ASSUME NEW e \in heap'
        PROVE  e \in heap \/ (e.job \in Jobs /\ e.epoch = epoch[e.job]
                              /\ spec[e.job].begin # "future")
    <3>1. \/ e \in heap
          \/ \E j \in Jobs : /\ e = [job |-> j, epoch |-> epoch[j], key |-> spec[j].key]
                             /\ spec[j].begin = "due"
      BY <1>13, <2>1 DEF ReleaseDue, Due
    <3>. QED BY <3>1
  <2>2. epoch' = epoch /\ spec' = spec
    BY <1>13 DEF ReleaseDue
  <2>. QED BY <1>0, <2>1, <2>2 DEF HeapSound
<1>14. CASE Pass
  <2>1. PICK S \in SUBSET Runnable :
           /\ epoch' = Bumped(S)
           /\ heap' = {[job |-> j, epoch |-> epoch[j], key |-> spec[j].key] :
                          j \in {k \in Runnable \ S : spec[k].begin # "future"}}
    BY <1>14 DEF Pass
  <2>2. Runnable \subseteq Jobs
    BY <1>0 DEF Runnable
  <2>3. ASSUME NEW e \in heap'
        PROVE  e.job \in Jobs /\ e.epoch = epoch'[e.job] /\ spec[e.job].begin # "future"
    <3>1. PICK j \in Runnable \ S : /\ e = [job |-> j, epoch |-> epoch[j], key |-> spec[j].key]
                                    /\ spec[j].begin # "future"
      BY <2>1, <2>3
    <3>. QED BY <2>1, <2>2, <3>1 DEF Bumped
  <2>4. \A k \in Jobs : epoch'[k] \in Nat
    BY <1>0, <2>1 DEF Bumped
  <2>5. spec' = spec
    BY <1>14 DEF Pass
  <2>. QED BY <2>3, <2>4, <2>5 DEF HeapSound
<1>15. CASE Restart
  <2>1. ASSUME NEW e \in heap'
        PROVE  e.job \in Jobs /\ e.epoch = 0 /\ spec[e.job].begin # "future"
    <3>1. \E j \in Jobs : /\ e = [job |-> j, epoch |-> 0, key |-> spec[j].key]
                          /\ spec[j].begin # "future"
      BY <1>15, <2>1 DEF Restart
    <3>. QED BY <3>1
  <2>2. epoch' = [j \in Jobs |-> 0] /\ spec' = spec
    BY <1>15 DEF Restart
  <2>. QED BY <2>1, <2>2 DEF HeapSound
<1>16. CASE NextSource \/ NextWave \/ UNCHANGED vars
  <2>1. heap' = heap /\ spec' = spec /\ epoch' = epoch
    BY <1>16 DEF NextSource, NextWave, vars
  <2>. QED BY <1>1, <2>1
<1>17. CASE Return
  <2>1. heap' = heap /\ spec' = spec /\ (epoch' = epoch \/ epoch' = Bumped({top.old}))
    BY <1>17 DEF Return
  <2>. QED BY <1>0, <1>1, <2>1 DEF Bumped
<1>18. ASSUME NEW j \in Jobs, Cancel(j) \/ Finish(j) \/ Fail(j) PROVE HeapSound'
  BY <1>11, <1>18 DEF Cancel, Finish, Fail
<1>. QED
  BY <1>3, <1>4, <1>5, <1>6, <1>7, <1>8, <1>9, <1>10, <1>11, <1>12, <1>13, <1>14, <1>15, <1>16,
     <1>17, <1>18 DEF Next

(* Every step keeps the reasons true.  *)
LEMMA ReasonsStep ==
    ASSUME Core, ReasonsSound, [Next]_vars
    PROVE  ReasonsSound'
<1>. USE NamesType DEF Core
<1>0. /\ state \in [Jobs -> States] /\ spec \in [Jobs -> Plan] /\ dep_rt \in [Jobs -> Counters]
      /\ reason \in [Jobs -> Reasons]
  BY DEF TypeOK
<1>1. ASSUME \A k \in Jobs : state'[k] = "Queued" /\ spec'[k].begin = "none" =>
                /\ state[k] = "Queued" /\ spec[k].begin = "none"
                /\ reason'[k] = "Dependency" <=> reason[k] = "Dependency"
                /\ dep_rt'[k] = dep_rt[k]
      PROVE  ReasonsSound'
  BY <1>1 DEF ReasonsSound
<1>2. ASSUME NEW j \in Jobs, NEW st \in [Jobs -> States], NEW sp, NEW why, NEW others,
             RefreshJob(j, st, sp, why, others),
             \A k \in Jobs : k # j => sp[k].begin = spec[k].begin /\ st[k] = state[k]
      PROVE  ReasonsSound'
  BY <1>2, RefreshReason DEF RefreshJob
<1>3. \A j \in Jobs : /\ Moved({j}, "Queued") \in [Jobs -> States]
                      /\ \A k \in Jobs : k # j => Moved({j}, "Queued")[k] = state[k]
  BY MovedType DEF Moved
<1>4. ASSUME NEW j \in Jobs, Submit(j) PROVE ReasonsSound'
  <2>1. PICK p \in Allowed.plans[j] :
           RefreshJob(j, Moved({j}, "Queued"), [spec EXCEPT ![j] = p], "None", <<>>)
    BY <1>4 DEF Submit
  <2>. DEFINE sp == [spec EXCEPT ![j] = p]
              st == Moved({j}, "Queued")
  <2>2. /\ \A k \in Jobs : k # j => sp[k] = spec[k] /\ st[k] = state[k]
        /\ st \in [Jobs -> States]
        /\ RefreshJob(j, st, sp, "None", <<>>)
    BY <1>0, <1>3, <2>1
  <2>. HIDE DEF sp, st
  <2>. QED BY <1>2, <2>2
<1>5. ASSUME NEW j \in Jobs, Release(j) PROVE ReasonsSound'
  <2>. DEFINE st == Moved({j}, "Queued")
  <2>1. /\ RefreshJob(j, st, spec, "None", <<>>)
        /\ st \in [Jobs -> States] /\ \A k \in Jobs : k # j => st[k] = state[k]
    BY <1>3, <1>5 DEF Release
  <2>. HIDE DEF st
  <2>. QED BY <1>2, <2>1
<1>6. ASSUME NEW j \in Jobs, ReleaseAt(j) PROVE ReasonsSound'
  <2>. DEFINE sp == [spec EXCEPT ![j].begin = "future"]
              st == Moved({j}, "Queued")
  <2>1. /\ \A k \in Jobs : k # j => sp[k] = spec[k] /\ st[k] = state[k]
        /\ st \in [Jobs -> States] /\ sp[j].begin = "future"
    BY <1>0, <1>3 DEF Plan
  <2>2. \/ RefreshJob(j, st, sp, "None", <<>>)
        \/ spec' = sp /\ state' = state /\ reason' = reason /\ dep_rt' = dep_rt
    BY <1>6 DEF ReleaseAt
  <2>. HIDE DEF sp, st
  <2>3. CASE RefreshJob(j, st, sp, "None", <<>>)
    BY <1>2, <2>1, <2>3
  <2>4. CASE spec' = sp /\ state' = state /\ reason' = reason /\ dep_rt' = dep_rt
    <3>1. \A k \in Jobs : spec'[k].begin = "none" => k # j /\ spec[k].begin = "none"
      BY <2>1, <2>4
    <3>. QED BY <1>1, <2>4, <3>1
  <2>. QED BY <2>2, <2>3, <2>4
<1>7. ASSUME NEW j \in Jobs, Update(j) PROVE ReasonsSound'
  <2>1. PICK p \in Revised(j) : RefreshJob(j, state, [spec EXCEPT ![j] = p], reason[j], <<>>)
    BY <1>7 DEF Update
  <2>. DEFINE sp == [spec EXCEPT ![j] = p]
  <2>2. /\ \A k \in Jobs : k # j => sp[k] = spec[k]
        /\ RefreshJob(j, state, sp, reason[j], <<>>)
    BY <1>0, <2>1
  <2>. HIDE DEF sp
  <2>. QED BY <1>0, <1>2, <2>2
<1>8. ASSUME NEW j \in Jobs, PropagateTo(j) PROVE ReasonsSound'
  <2>. DEFINE rt == Count(dep_rt[j], spec[j].mode, top.success)
              why == Synced(reason[j], WaitReason(state[j], spec[j], rt))
  <2>1. /\ spec' = spec /\ dep_rt' = [dep_rt EXCEPT ![j] = rt]
        /\ \/ state' = Moved({j}, "Cancelled") /\ reason' = Because({j}, "DependencyFailed")
           \/ state' = state /\ reason' = Because({j}, why)
    BY <1>8 DEF PropagateTo
  <2>. HIDE DEF rt
  <2>2. ASSUME NEW k \in Jobs, k # j
        PROVE  state'[k] = state[k] /\ reason'[k] = reason[k] /\ dep_rt'[k] = dep_rt[k]
    BY <1>0, <2>1, <2>2 DEF Moved, Because
  <2>3. ASSUME state'[j] = "Queued", spec[j].begin = "none"
        PROVE  reason'[j] = "Dependency" <=> ~dep_rt'[j].satisfied
    <3>1. state[j] = "Queued" /\ reason'[j] = why /\ dep_rt'[j] = rt
      BY <1>0, <2>1, <2>3 DEF Moved, Because
    <3>2. WaitReason(state[j], spec[j], rt) = IF rt.satisfied THEN "None" ELSE "Dependency"
      BY <2>3, <3>1 DEF WaitReason
    <3>. QED BY <3>1, <3>2 DEF Synced
  <2>. QED BY <2>1, <2>2, <2>3 DEF ReasonsSound
<1>9. ASSUME NEW j \in Jobs, WaveTo(j) PROVE ReasonsSound'
  <2>. DEFINE next == [top EXCEPT !.left = @ \ {j}]
  <2>1. \/ Refresh(j, state, spec, reason[j], With([next EXCEPT !.work = Append(@, j)]),
                   With(next))
        \/ state' = state /\ spec' = spec /\ reason' = reason /\ dep_rt' = dep_rt
    BY <1>9 DEF WaveTo
  <2>. HIDE DEF next
  <2>. QED BY <1>0, <1>1, <2>1, RefreshReason
<1>10. ASSUME NEW j \in Jobs, Retarget(j) PROVE ReasonsSound'
  <2>. DEFINE next == [top EXCEPT !.left = @ \ {j}]
              sp == [spec EXCEPT ![j] = RetargetedPlan(j, top.old, top.new)]
  <2>1. \/ RefreshJob(j, state, sp, reason[j], With(next))
        \/ state' = state /\ spec' = spec /\ reason' = reason /\ dep_rt' = dep_rt
    BY <1>10 DEF Retarget, RetargetedPlan
  <2>2. \A k \in Jobs : k # j => sp[k] = spec[k]
    BY <1>0
  <2>. HIDE DEF next, sp
  <2>. QED BY <1>0, <1>1, <1>2, <2>1, <2>2
<1>11. ASSUME NEW j \in Jobs, NEW n \in Jobs, FailAndRetry(j, n) PROVE ReasonsSound'
  <2>. DEFINE w == [kind |-> "retry", old |-> j, new |-> n, left |-> Dependents(j)]
              sp == [spec EXCEPT ![n] = RetryPlan(j)]
              st == Moved({n}, "Queued")
  <2>1. /\ \A k \in Jobs : k # n => sp[k] = spec[k] /\ st[k] = state[k]
        /\ st \in [Jobs -> States]
        /\ RefreshJob(n, st, sp, "None", <<w>>)
    BY <1>0, <1>3, <1>11 DEF FailAndRetry, RetryPlan
  <2>. HIDE DEF w, sp, st
  <2>. QED BY <1>2, <2>1
<1>12. ASSUME NEW j \in Jobs, NEW final, final # "Queued", NEW why,
              state' = Moved({j}, final), reason' = Because({j}, why), spec' = spec,
              dep_rt' = dep_rt
       PROVE  ReasonsSound'
  BY <1>1, <1>12 DEF Moved, Because
<1>13. ASSUME NEW j \in Jobs, Hold(j) PROVE ReasonsSound'
  BY <1>12, <1>13 DEF Hold
<1>14. ASSUME NEW j \in Jobs, Cancel(j) \/ Finish(j) \/ Fail(j) PROVE ReasonsSound'
  BY <1>12, <1>14 DEF Cancel, Finish, Fail, End
<1>15. ASSUME NEW j \in Jobs, Tick(j) PROVE ReasonsSound'
  <2>1. \A k \in Jobs : spec'[k].begin = "none" => spec[k].begin = "none"
    BY <1>0, <1>15, SpecBegin DEF Tick, Plan
  <2>. QED BY <1>1, <1>15, <2>1 DEF Tick
<1>16. CASE ReleaseDue
  <2>1. \A k \in Jobs : spec[k].begin = "none" => k \notin Due
    BY DEF Due
  <2>. QED BY <1>1, <1>16, <2>1 DEF ReleaseDue
<1>17. CASE Pass
  <2>1. PICK S \in SUBSET Runnable :
           /\ state' = Moved(S, "Running")
           /\ reason' = [j \in Jobs |-> IF j \in S THEN "None"
                                        ELSE IF j \in Runnable \ S THEN "Resources"
                                        ELSE reason[j]]
    BY <1>17 DEF Pass
  <2>2. \A k \in Runnable : dep_rt[k].satisfied
    BY DEF Runnable, Valid
  <2>3. spec' = spec /\ dep_rt' = dep_rt
    BY <1>17 DEF Pass
  <2>4. ASSUME NEW k \in Jobs, state'[k] = "Queued", spec[k].begin = "none"
        PROVE  reason'[k] = "Dependency" <=> ~dep_rt[k].satisfied
    <3>1. k \notin S /\ state[k] = "Queued"
      BY <2>1, <2>4 DEF Moved
    <3>. QED BY <2>1, <2>2, <2>4, <3>1 DEF ReasonsSound
  <2>. QED BY <2>3, <2>4 DEF ReasonsSound
<1>18. CASE Restart
  <2>. DEFINE rt == [j \in Jobs |-> IF state[j] = "Absent" THEN NoCounters
                                    ELSE Build(spec[j], state)]
  <2>1. /\ spec' = spec /\ state' = state /\ dep_rt' = rt
        /\ reason' = [j \in Jobs |-> Synced(reason[j], WaitReason(state[j], spec[j], rt[j]))]
    BY <1>18 DEF Restart
  <2>. HIDE DEF rt
  <2>2. ASSUME NEW k \in Jobs, state[k] = "Queued", spec[k].begin = "none"
        PROVE  reason'[k] = "Dependency" <=> ~rt[k].satisfied
    <3>1. reason'[k] = Synced(reason[k], WaitReason("Queued", spec[k], rt[k]))
      BY <2>1, <2>2
    <3>2. WaitReason("Queued", spec[k], rt[k]) = IF rt[k].satisfied THEN "None" ELSE "Dependency"
      BY <2>2 DEF WaitReason
    <3>. QED BY <3>1, <3>2 DEF Synced
  <2>. QED BY <2>1, <2>2 DEF ReasonsSound
<1>19. CASE NextSource \/ NextWave \/ UNCHANGED vars
  <2>1. state' = state /\ spec' = spec /\ reason' = reason /\ dep_rt' = dep_rt
    BY <1>19 DEF NextSource, NextWave, vars
  <2>. QED BY <1>1, <2>1
<1>20. CASE Return
  <2>1. CASE top.kind = "retry"
    BY <1>12, <1>20, <2>1, RetryTop DEF Return
  <2>2. CASE top.kind # "retry"
    BY <1>1, <1>20, <2>2 DEF Return
  <2>. QED BY <2>1, <2>2
<1>. QED
  BY <1>4, <1>5, <1>6, <1>7, <1>8, <1>9, <1>10, <1>11, <1>13, <1>14, <1>15, <1>16, <1>17, <1>18,
     <1>19, <1>20 DEF Next

(* No handler lists a dependency twice, unless its user does.  *)
LEMMA NoAgainStep ==
    ASSUME ListedOnce, Core, NoAgain, [Next]_vars
    PROVE  NoAgain'
<1>. USE NamesType DEF Core
<1>0. state \in [Jobs -> States] /\ spec \in [Jobs -> Plan]
  BY DEF TypeOK
<1>1. ASSUME NEW j \in Jobs, NEW p \in Plan, spec' = [spec EXCEPT ![j] = p], p.again = {}
      PROVE  NoAgain'
  BY <1>0, <1>1 DEF NoAgain
<1>2. ASSUME spec' = spec PROVE NoAgain'
  BY <1>2 DEF NoAgain
<1>3. ASSUME NEW j \in Jobs, NEW b, spec' = [spec EXCEPT ![j].begin = b] PROVE NoAgain'
  BY <1>3, SpecBegin DEF NoAgain
<1>4. ASSUME NEW j \in Jobs, Submit(j) PROVE NoAgain'
  <2>1. PICK p \in Allowed.plans[j] :
           RefreshJob(j, Moved({j}, "Queued"), [spec EXCEPT ![j] = p], "None", <<>>)
    BY <1>4 DEF Submit
  <2>2. p \in Plan /\ p.again = {}
    BY SetupsAssumption DEF TypeOK, Allowed, ListedOnce
  <2>3. spec' = [spec EXCEPT ![j] = p]
    BY <2>1 DEF RefreshJob, Refresh
  <2>. QED BY <1>1, <2>2, <2>3
<1>5. ASSUME NEW j \in Jobs, Release(j) PROVE NoAgain'
  BY <1>2, <1>5 DEF Release, RefreshJob, Refresh
<1>6. ASSUME NEW j \in Jobs, ReleaseAt(j) PROVE NoAgain'
  <2>1. spec' = [spec EXCEPT ![j].begin = "future"]
    BY <1>6 DEF ReleaseAt, RefreshJob, Refresh
  <2>. QED BY <1>3, <2>1
<1>7. ASSUME NEW j \in Jobs, Update(j) PROVE NoAgain'
  <2>1. PICK p \in Revised(j) : RefreshJob(j, state, [spec EXCEPT ![j] = p], reason[j], <<>>)
    BY <1>7 DEF Update
  <2>2. p \in Plan /\ p.again = {}
    BY RevisedType DEF NoAgain
  <2>3. spec' = [spec EXCEPT ![j] = p]
    BY <2>1 DEF RefreshJob, Refresh
  <2>. QED BY <1>1, <2>2, <2>3
<1>8. ASSUME NEW j \in Jobs, WaveTo(j) PROVE NoAgain'
  BY <1>2, <1>8 DEF WaveTo, Refresh
<1>9. ASSUME NEW j \in Jobs, Retarget(j) PROVE NoAgain'
  <2>. DEFINE next == [top EXCEPT !.left = @ \ {j}]
              p == RetargetedPlan(j, top.old, top.new)
  <2>1. ~Unlocked /\ top.kind = "retry"
    BY <1>9 DEF Retarget, In
  <2>2. \/ RefreshJob(j, state, [spec EXCEPT ![j] = p], reason[j], With(next))
        \/ spec' = spec
    BY <1>9 DEF Retarget, RetargetedPlan
  <2>3. p \in Plan /\ p.again = {}
    BY <2>1, RetryTop, RetargetedPlanType
  <2>. HIDE DEF next, p
  <2>4. spec' = [spec EXCEPT ![j] = p] \/ spec' = spec
    BY <2>2 DEF RefreshJob, Refresh
  <2>. QED BY <1>1, <1>2, <2>3, <2>4
<1>10. ASSUME NEW j \in Jobs, NEW n \in Jobs, FailAndRetry(j, n) PROVE NoAgain'
  <2>. DEFINE p == RetryPlan(j)
              w == [kind |-> "retry", old |-> j, new |-> n, left |-> Dependents(j)]
  <2>1. RefreshJob(n, Moved({n}, "Queued"), [spec EXCEPT ![n] = p], "None", <<w>>)
    BY <1>10 DEF FailAndRetry, RetryPlan
  <2>2. p \in Plan /\ p.again = {}
    BY <1>10, RetryPlanType DEF FailAndRetry, NoAgain
  <2>. HIDE DEF p, w
  <2>3. spec' = [spec EXCEPT ![n] = p]
    BY <2>1 DEF RefreshJob, Refresh
  <2>. QED BY <1>1, <2>2, <2>3
<1>11. ASSUME NEW j \in Jobs, Tick(j) PROVE NoAgain'
  BY <1>3, <1>11 DEF Tick
<1>12. ASSUME NEW j \in Jobs, Hold(j) \/ Cancel(j) \/ Finish(j) \/ Fail(j) \/ PropagateTo(j)
       PROVE  NoAgain'
  BY <1>2, <1>12 DEF Hold, Cancel, Finish, Fail, End, PropagateTo
<1>13. CASE ReleaseDue \/ Pass \/ Restart \/ NextSource \/ NextWave \/ Return \/ UNCHANGED vars
  BY <1>2, <1>13 DEF ReleaseDue, Pass, Restart, NextSource, NextWave, Return, vars
<1>. QED
  BY <1>4, <1>5, <1>6, <1>7, <1>8, <1>9, <1>10, <1>11, <1>12, <1>13 DEF Next

-----------------------------------------------------------------------------
(* The theorems.  *)

(* When nobody holds the lock, counters that say a job may run are right; and they are
   exact when no dependency is listed twice.  *)
LEMMA CountersMeanReady ==
    ASSUME Core, CountersSound, Unlocked, NEW j \in Jobs, state[j] # "Absent"
    PROVE  /\ dep_rt[j].satisfied => DependenciesMet(j)
           /\ NoAgain => /\ DependenciesMet(j) => dep_rt[j].satisfied
                         /\ dep_rt[j].success = Cardinality(Done(j))
<1>. USE DEF Core
<1>. DEFINE D == DepsOf(j)
            F == Done(j)
            s == dep_rt[j].success
            t == Listed(spec[j], D)
<1>1. /\ spec[j] \in Plan /\ D \in SUBSET Jobs /\ F \in SUBSET D /\ F \in SUBSET Jobs
      /\ s \in Nat /\ dep_rt[j].failure \in Nat
      /\ \A d \in D : d \in F <=> state[d] = "Finished"
  BY DepsAreJobs DEF TypeOK, Counters, Done
<1>2. Counted(spec[j], F, s)
  <2>1. Coming(j) = 0
    BY NothingTold DEF Unlocked, NoSuccess, Coming
  <2>. QED BY <1>1, <2>1 DEF CountersSound
<1>3. dep_rt[j].satisfied <=> \/ t = 0
                              \/ spec[j].mode = "All" /\ s = t
                              \/ spec[j].mode = "Any" /\ s > 0
  <2>1. dep_rt[j] = Judged(spec[j].mode, t, s, dep_rt[j].failure)
    BY DEF VerdictsSound
  <2>. HIDE DEF t, s
  <2>2. \A mode, total, ok, bad :
           Judged(mode, total, ok, bad).satisfied <=> \/ total = 0
                                                      \/ mode = "All" /\ ok = total
                                                      \/ mode = "Any" /\ ok > 0
    BY DEF Judged
  <2>. QED BY <2>1, <2>2
<1>. DEFINE f == Listed(spec[j], F)
            c == Cardinality(F)
<1>4. /\ t \in Nat /\ f \in Nat /\ c \in Nat
      /\ t = 0 <=> D = {}
      /\ f = 0 <=> F = {}
      /\ f <= t
      /\ f = t => F = D
      /\ spec[j].again = {} => f = c
  <2>. HIDE DEF D, F
  <2>. QED BY <1>1, ListedType, ListedWhole
<1>5. c <= s /\ s <= f
  BY <1>2 DEF Counted
<1>6. spec[j].mode \in {"All", "Any"}
  BY <1>1 DEF Plan
<1>7. DependenciesMet(j) <=> \/ D = {}
                             \/ spec[j].mode = "All" /\ F = D
                             \/ spec[j].mode = "Any" /\ F # {}
  BY <1>1 DEF DependenciesMet
<1>. HIDE DEF D, F, s, t, f, c
<1>8. dep_rt[j].satisfied => DependenciesMet(j)
  BY <1>1, <1>3, <1>4, <1>5, <1>7
<1>9. ASSUME NoAgain
      PROVE  (DependenciesMet(j) => dep_rt[j].satisfied) /\ s = c
  <2>1. s = f /\ f = c
    BY <1>1, <1>4, <1>5, <1>9 DEF NoAgain
  <2>2. F = D => f = t
    BY DEF f, t
  <2>. QED BY <1>3, <1>4, <1>7, <2>1, <2>2
<1>. QED BY <1>8, <1>9 DEF s, c, F

(* What every job, edge, counter and variable holds is of its type (core/scheduler.rs and
   transitions.rs).  *)
THEOREM TypeCorrect == Spec => []TypeOK
<1>1. Core => TypeOK
  BY DEF Core
<1>. QED BY <1>1, CoreAlways, PTL

(* The reverse graph that every walk follows is the inverse of the dependencies at every
   step, whatever is edited or retried (update_job, retarget_dependents_to_retry).  *)
THEOREM GraphInverse == Spec => []GraphExact
<1>1. Core => GraphExact
  BY DEF Core
<1>. QED BY <1>1, CoreAlways, PTL

(* The dependencies never form a cycle: what update_job checks, and what a retry keeps.  *)
THEOREM Acyclic == Spec => []NoCycle
<1>1. Core => NoCycle
  BY DEF Core
<1>. QED BY <1>1, CoreAlways, PTL

(* A job that needs all of its dependencies is auto-cancelled only when one of them has
   failed or was cancelled (refresh_single_job_readiness, the propagation).  *)
THEOREM Justified == Spec => AllCancelJustified
<1>1. Core /\ [Next]_vars =>
         [\A j \in Jobs : AutoCancelled(j) /\ spec'[j].mode = "All" => Hopeless(j)']_vars
  BY JustifiedStep
<1>. QED BY <1>1, CoreAlways, PTL DEF Spec, AllCancelJustified

(* When a retried job fails, no job that waits depends on it: its walk had still to move
   every one that did (finalize_job_with_retry).  *)
THEOREM RetryTakes == Spec => RetryTakesDependents
<1>1. Core /\ [Next]_vars =>
         [\A j \in Jobs : In("retry") /\ state[j] = "Running" /\ state'[j] = "Failed"
            => \A k \in Jobs : state[k] \in {"Queued", "Hold"} => j \notin DepsOf(k)]_vars
  BY RetryTakesStep
<1>. QED BY <1>1, CoreAlways, PTL DEF Spec, RetryTakesDependents

(* The counters are between what has finished and what has finished as often as it is
   listed, whatever walk is under way.  *)
LEMMA CountersAlways == Spec => []CountersSound
<1>1. Init => CountersSound
  BY DEF Init, CountersSound
<1>2. Core /\ CountersSound /\ [Next]_vars => CountersSound'
  BY CountersStep
<1>. QED BY <1>1, <1>2, CoreAlways, PTL DEF Spec

(* So the reasons are those of the counters at every step.  *)
LEMMA ReasonsAlways == Spec => []ReasonsSound
<1>1. Init => ReasonsSound
  BY DEF Init, ReasonsSound
<1>2. Core /\ ReasonsSound /\ [Next]_vars => ReasonsSound'
  BY ReasonsStep
<1>. QED BY <1>1, <1>2, CoreAlways, PTL DEF Spec

(* One step starts a job only when its dependencies and its begin time allow it.  *)
LEMMA StartsStep ==
    ASSUME Core, CountersSound, HeapSound, [Next]_vars, NEW j \in Jobs, Starts(j)
    PROVE  DependenciesMet(j) /\ spec[j].begin # "future"
<1>. USE NamesType DEF Core
<1>0. /\ state \in [Jobs -> States] /\ state[j] # "Running" /\ state'[j] = "Running"
      /\ spec \in [Jobs -> Plan]
  BY DEF TypeOK, Starts
<1>1. CASE Pass
  <2>1. PICK S \in SUBSET Runnable : state' = Moved(S, "Running")
    BY <1>1 DEF Pass
  <2>2. j \in Runnable
    BY <1>0, <2>1 DEF Moved
  <2>3. PICK e \in heap : e.job = j /\ Valid(e)
    BY <2>2 DEF Runnable
  <2>4. state[j] = "Queued" /\ dep_rt[j].satisfied /\ spec[j].begin # "future"
    BY <2>3 DEF Valid, HeapSound
  <2>. QED BY <1>1, <2>4, CountersMeanReady DEF Pass
<1>2. ASSUME NEW i \in Jobs, NEW st \in [Jobs -> States], NEW sp, NEW why, NEW changed, NEW same,
             Refresh(i, st, sp, why, changed, same), st[i] # "Running",
             \A k \in Jobs : k # i => st[k] = state[k]
      PROVE  FALSE
  BY <1>0, <1>2, RefreshMoves
<1>3. ASSUME NEW i \in Jobs, NEW sp, NEW why, NEW others,
             RefreshJob(i, Moved({i}, "Queued"), sp, why, others)
      PROVE  FALSE
  <2>. DEFINE st == Moved({i}, "Queued")
  <2>1. /\ st \in [Jobs -> States] /\ st[i] = "Queued"
        /\ \A k \in Jobs : k # i => st[k] = state[k]
        /\ Refresh(i, st, sp, why, Wave(i) \o others, others)
    BY <1>3, MovedType DEF Moved, RefreshJob
  <2>. HIDE DEF st
  <2>. QED BY <1>2, <2>1
<1>4. ASSUME NEW i \in Jobs, state[i] \in {"Queued", "Hold"}, NEW sp, NEW why, NEW others,
             RefreshJob(i, state, sp, why, others)
      PROVE  FALSE
  BY <1>0, <1>2, <1>4 DEF RefreshJob
<1>5. ASSUME NEW i \in Jobs, Submit(i) PROVE FALSE
  <2>1. PICK p \in Allowed.plans[i] :
           RefreshJob(i, Moved({i}, "Queued"), [spec EXCEPT ![i] = p], "None", <<>>)
    BY <1>5 DEF Submit
  <2>. DEFINE sp == [spec EXCEPT ![i] = p]
  <2>2. RefreshJob(i, Moved({i}, "Queued"), sp, "None", <<>>)
    BY <2>1
  <2>. HIDE DEF sp
  <2>. QED BY <1>3, <2>2
<1>6. ASSUME NEW i \in Jobs, Release(i) PROVE FALSE
  BY <1>3, <1>6 DEF Release
<1>7. ASSUME NEW i \in Jobs, ReleaseAt(i) PROVE FALSE
  <2>. DEFINE sp == [spec EXCEPT ![i].begin = "future"]
  <2>1. RefreshJob(i, Moved({i}, "Queued"), sp, "None", <<>>) \/ state' = state
    BY <1>7 DEF ReleaseAt
  <2>. HIDE DEF sp
  <2>. QED BY <1>0, <1>3, <2>1
<1>8. ASSUME NEW i \in Jobs, Update(i) PROVE FALSE
  <2>1. PICK p \in Revised(i) : RefreshJob(i, state, [spec EXCEPT ![i] = p], reason[i], <<>>)
    BY <1>8 DEF Update
  <2>. DEFINE sp == [spec EXCEPT ![i] = p]
  <2>2. RefreshJob(i, state, sp, reason[i], <<>>) /\ state[i] \in {"Queued", "Hold"}
    BY <1>8, <2>1 DEF Update, MayUpdate
  <2>. HIDE DEF sp
  <2>. QED BY <1>4, <2>2
<1>9. ASSUME NEW i \in Jobs, WaveTo(i) PROVE FALSE
  <2>. DEFINE next == [top EXCEPT !.left = @ \ {i}]
  <2>1. \/ /\ state[i] = "Queued"
           /\ Refresh(i, state, spec, reason[i], With([next EXCEPT !.work = Append(@, i)]),
                      With(next))
        \/ state' = state
    BY <1>9 DEF WaveTo
  <2>. HIDE DEF next
  <2>. QED BY <1>0, <1>2, <2>1
<1>10. ASSUME NEW i \in Jobs, Retarget(i) PROVE FALSE
  <2>. DEFINE next == [top EXCEPT !.left = @ \ {i}]
              sp == [spec EXCEPT ![i] = RetargetedPlan(i, top.old, top.new)]
  <2>1. \/ state[i] \in Retargeted /\ RefreshJob(i, state, sp, reason[i], With(next))
        \/ state' = state
    BY <1>10 DEF Retarget, RetargetedPlan
  <2>. HIDE DEF next, sp
  <2>. QED BY <1>0, <1>4, <2>1 DEF Retargeted
<1>11. ASSUME NEW i \in Jobs, NEW n \in Jobs, FailAndRetry(i, n) PROVE FALSE
  <2>. DEFINE w == [kind |-> "retry", old |-> i, new |-> n, left |-> Dependents(i)]
              sp == [spec EXCEPT ![n] = RetryPlan(i)]
  <2>1. RefreshJob(n, Moved({n}, "Queued"), sp, "None", <<w>>)
    BY <1>11 DEF FailAndRetry, RetryPlan
  <2>. HIDE DEF w, sp
  <2>. QED BY <1>3, <2>1
<1>12. ASSUME NEW i \in Jobs, PropagateTo(i) \/ Hold(i) PROVE FALSE
  BY <1>0, <1>12 DEF PropagateTo, Hold, Moved
<1>13. ASSUME NEW i \in Jobs, Cancel(i) \/ Finish(i) \/ Fail(i) PROVE FALSE
  BY <1>0, <1>13 DEF Cancel, Finish, Fail, End, Moved
<1>14. CASE Return
  BY <1>0, <1>14 DEF Return, Moved
<1>15. ASSUME \/ \E i \in Jobs : Tick(i)
              \/ ReleaseDue \/ Restart \/ NextSource \/ NextWave \/ UNCHANGED vars
       PROVE  FALSE
  BY <1>0, <1>15 DEF Tick, ReleaseDue, Restart, NextSource, NextWave, vars
<1>. QED
  BY <1>1, <1>5, <1>6, <1>7, <1>8, <1>9, <1>10, <1>11, <1>12, <1>13, <1>14, <1>15 DEF Next

(* A job starts only when its dependencies, as they are now, allow it, and not before its
   begin time (prepare_jobs_for_execution): the counters never run ahead of the jobs, and a
   heap entry that is still valid is of a job that waits for no begin time.  Without the
   hypothesis, gjob release --at on a job that was just released breaks it.  *)
THEOREM Starting ==
    ASSUME HeldUntilReleased
    PROVE  Spec => StartsOnlyWhenReady
<1>1. Init => HeapSound
  BY DEF Init, HeapSound
<1>2. Core /\ HeapSound /\ [Next]_vars => HeapSound'
  BY HeapStep
<1>3. Core /\ CountersSound /\ HeapSound /\ [Next]_vars =>
         [\A j \in Jobs : Starts(j) => DependenciesMet(j) /\ spec[j].begin # "future"]_vars
  BY StartsStep
<1>. QED BY <1>1, <1>2, <1>3, CoreAlways, CountersAlways, PTL DEF Spec, StartsOnlyWhenReady

(* What jobs, graph, counters and reasons say of each other is true whenever the lock is
   free.  A dependency that is listed twice is counted once when it ends, and the job then
   waits forever: the hypothesis leaves that out.  *)
THEOREM Bookkeeping ==
    ASSUME ListedOnce
    PROVE  Spec => []BookkeepingExact
<1>1. Init => NoAgain
  BY DEF Init, NoAgain, Blank
<1>2. Core /\ NoAgain /\ [Next]_vars => NoAgain'
  BY NoAgainStep
<1>3. Core /\ CountersSound /\ ReasonsSound /\ NoAgain => BookkeepingExact
  <2>. SUFFICES ASSUME Core, CountersSound, ReasonsSound, NoAgain
                PROVE  BookkeepingExact
    OBVIOUS
  <2>0. \A j \in Jobs : dep_rt[j].satisfied \in BOOLEAN
    BY DEF Core, TypeOK, Counters
  <2>1. ReadinessExact
    <3>. SUFFICES ASSUME Unlocked, NEW j \in Jobs, state[j] \in {"Queued", "Hold"}
                  PROVE  /\ dep_rt[j].satisfied = DependenciesMet(j)
                         /\ dep_rt[j].success = Cardinality(Done(j))
      BY DEF ReadinessExact, Done
    <3>1. /\ dep_rt[j].satisfied <=> DependenciesMet(j)
          /\ dep_rt[j].success = Cardinality(Done(j))
      BY CountersMeanReady
    <3>2. DependenciesMet(j) \in BOOLEAN
      BY DEF DependenciesMet
    <3>. QED BY <2>0, <3>1, <3>2, Zenon
  <2>2. ReasonExact
    <3>. SUFFICES ASSUME Unlocked, NEW j \in Jobs, state[j] = "Queued", spec[j].begin = "none"
                  PROVE  (reason[j] = "Dependency") = ~DependenciesMet(j)
      BY DEF ReasonExact
    <3>1. reason[j] = "Dependency" <=> ~DependenciesMet(j)
      BY CountersMeanReady DEF ReasonsSound
    <3>. QED BY <3>1
  <2>. QED BY <2>1, <2>2 DEF BookkeepingExact, Core
<1>. QED BY <1>1, <1>2, <1>3, CoreAlways, CountersAlways, ReasonsAlways, PTL DEF Spec

-----------------------------------------------------------------------------
(* No queued job is stuck.  *)

(* The failures that walk w has still to tell dependent k of: that of its current source,
   in place 0, and those of the sources it has still to follow.  *)
Untold(w, E, k) ==
    IF w.kind # "propagate" THEN {}
    ELSE {p \in 0 .. Len(w.work) : IF p = 0 THEN ~w.success /\ k \in w.left
                                   ELSE ~w.work[p][2] /\ <<w.work[p][1], k>> \in E}

(* Those of walk number i, counted from the bottom of stack c, and those of all of them.  *)
UntoldBy(c, E, k, i) == {i} \X Untold(c[Len(c) + 1 - i], E, k)
UntoldOf(c, E, k) == UNION {UntoldBy(c, E, k, i) : i \in 1 .. Len(c)}

Failing(c, E, k) == Cardinality(UntoldOf(c, E, k))
FailingIn(w, E, k) == Cardinality(Untold(w, E, k))

(* A walk has finitely many failures to tell of.  *)
LEMMA UntoldFinite ==
    ASSUME NEW w \in Walk, NEW E, NEW k
    PROVE  /\ IsFiniteSet(Untold(w, E, k))
           /\ FailingIn(w, E, k) \in Nat
           /\ w.kind # "propagate" => FailingIn(w, E, k) = 0
<1>1. CASE w.kind # "propagate"
  BY <1>1, FS_EmptySet DEF Untold, FailingIn
<1>2. CASE w.kind = "propagate"
  <2>1. w \in PropagateWalk
    BY <1>2, WalkKinds
  <2>2. Len(w.work) \in Nat
    BY <2>1 DEF PropagateWalk
  <2>3. IsFiniteSet(0 .. Len(w.work)) /\ Untold(w, E, k) \in SUBSET (0 .. Len(w.work))
    BY <1>2, <2>2, FS_Interval DEF Untold
  <2>. QED BY <1>2, <2>3, FS_Subset, FS_CardinalityType DEF FailingIn
<1>. QED BY <1>1, <1>2

(* ... and so has a stack.  *)
LEMMA UntoldOfFinite ==
    ASSUME NEW c \in Seq(Walk), NEW E, NEW k
    PROVE  /\ IsFiniteSet(UntoldOf(c, E, k))
           /\ Failing(c, E, k) \in Nat
<1>. DEFINE n == Len(c)
            f == [i \in 1 .. n |-> UntoldBy(c, E, k, i)]
            T == {UntoldBy(c, E, k, i) : i \in 1 .. n}
<1>1. n \in Nat /\ IsFiniteSet(1 .. n)
  BY FS_Interval
<1>2. f \in Surjection(1 .. n, T)
  BY DEF Surjection
<1>3. IsFiniteSet(T)
  BY <1>1, <1>2, FS_Surjection
<1>4. ASSUME NEW i \in 1 .. n PROVE IsFiniteSet(UntoldBy(c, E, k, i))
  <2>1. c[n + 1 - i] \in Walk
    <3>1. n + 1 - i \in 1 .. n
      BY <1>1
    <3>. QED BY <3>1, ElementOfSeq
  <2>2. IsFiniteSet(Untold(c[n + 1 - i], E, k)) /\ IsFiniteSet({i})
    BY <2>1, UntoldFinite, FS_Singleton
  <2>. QED BY <2>2, FS_Product DEF UntoldBy
<1>5. \A S \in T : IsFiniteSet(S)
  BY <1>4
<1>. HIDE DEF T
<1>6. IsFiniteSet(UNION T)
  BY <1>3, <1>5, FS_UNION
<1>. QED BY <1>6, FS_CardinalityType DEF T, UntoldOf, Failing

(* A walk on top adds its own.  *)
LEMMA FailingPush ==
    ASSUME NEW w \in Walk, NEW c \in Seq(Walk), NEW E, NEW k
    PROVE  Failing(<<w>> \o c, E, k) = Failing(c, E, k) + FailingIn(w, E, k)
<1>. DEFINE n == Len(c)
            b == <<w>> \o c
            A == UntoldOf(c, E, k)
            B == {n + 1} \X Untold(w, E, k)
<1>1. /\ n \in Nat /\ Len(b) = 1 + n /\ b[1] = w
      /\ \A i \in 2 .. 1 + n : b[i] = c[i - 1]
  BY PrependType
<1>. HIDE DEF b
<1>2. \A i \in 1 .. n : UntoldBy(b, E, k, i) = UntoldBy(c, E, k, i)
  <2>1. ASSUME NEW i \in 1 .. n PROVE b[Len(b) + 1 - i] = c[n + 1 - i]
    <3>1. Len(b) + 1 - i \in 2 .. 1 + n /\ (Len(b) + 1 - i) - 1 = n + 1 - i
      BY <1>1
    <3>. QED BY <1>1, <3>1
  <2>. QED BY <2>1 DEF UntoldBy
<1>3. UntoldBy(b, E, k, n + 1) = B
  <2>1. Len(b) + 1 - (n + 1) = 1
    BY <1>1
  <2>. QED BY <1>1, <2>1 DEF UntoldBy
<1>. HIDE DEF n
<1>4. UntoldOf(b, E, k) = A \cup B
  <2>1. 1 .. Len(b) = (1 .. n) \cup {n + 1}
    BY <1>1
  <2>2. UntoldOf(b, E, k) = UNION {UntoldBy(b, E, k, i) : i \in (1 .. n) \cup {n + 1}}
    BY <2>1 DEF UntoldOf
  <2>3. UntoldOf(c, E, k) = UNION {UntoldBy(c, E, k, i) : i \in 1 .. n}
    BY DEF UntoldOf, n
  <2>. QED BY <1>2, <1>3, <2>2, <2>3
<1>5. A \cap B = {}
  <2>1. ASSUME NEW x \in A PROVE x[1] \in 1 .. n
    <3>1. PICK i \in 1 .. n : x \in UntoldBy(c, E, k, i)
      BY DEF UntoldOf, n
    <3>. QED BY <3>1 DEF UntoldBy
  <2>2. \A x \in B : x[1] = n + 1
    OBVIOUS
  <2>. QED BY <1>1, <2>1, <2>2
<1>6. IsFiniteSet(A) /\ Cardinality(A) \in Nat
  BY UntoldOfFinite DEF Failing
<1>7. IsFiniteSet(B) /\ Cardinality(B) = FailingIn(w, E, k) /\ FailingIn(w, E, k) \in Nat
  <2>1. IsFiniteSet(Untold(w, E, k)) /\ FailingIn(w, E, k) \in Nat
    BY UntoldFinite
  <2>2. IsFiniteSet({n + 1}) /\ Cardinality({n + 1}) = 1
    BY FS_Singleton
  <2>3. IsFiniteSet(B) /\ Cardinality(B) = 1 * Cardinality(Untold(w, E, k))
    BY <2>1, <2>2, FS_Product
  <2>. QED BY <2>1, <2>3 DEF FailingIn
<1>8. Cardinality(A \cup B) = Cardinality(A) + Cardinality(B) - 0
  BY <1>5, <1>6, <1>7, FS_Union, FS_EmptySet
<1>. HIDE DEF A, B
<1>9. Failing(b, E, k) = Cardinality(A \cup B)
  BY <1>4 DEF Failing
<1>10. Failing(c, E, k) = Cardinality(A)
  BY DEF Failing, A
<1>. QED BY <1>6, <1>7, <1>8, <1>9, <1>10 DEF b

(* No walk, nothing to tell.  *)
LEMMA FailingNone == \A E, k : Failing(<<>>, E, k) = 0
<1>1. ASSUME NEW E, NEW k PROVE UntoldOf(<<>>, E, k) = {}
  BY DEF UntoldOf
<1>. QED BY <1>1, FS_EmptySet DEF Failing

(* The walk of an end that is no success tells the dependents of it.  *)
LEMMA FailingAnew ==
    ASSUME NEW j \in Jobs, NEW c \in Seq(Walk)
    PROVE  \A E, k : Failing(Propagate(j, FALSE) \o c, E, k)
                        = Failing(c, E, k) + IF <<j, k>> \in E THEN 1 ELSE 0
<1>. SUFFICES ASSUME NEW E, NEW k
              PROVE  Failing(Propagate(j, FALSE) \o c, E, k)
                        = Failing(c, E, k) + IF <<j, k>> \in E THEN 1 ELSE 0
  OBVIOUS
<1>. DEFINE w == [kind |-> "propagate", work |-> << <<j, FALSE>> >>, success |-> FALSE,
                  left |-> {}]
<1>1. Propagate(j, FALSE) = <<w>>
  BY DEF Propagate
<1>2. w \in Walk
  <2>1. << <<j, FALSE>> >> \in Seq(Jobs \X BOOLEAN)
    <3>1. <<j, FALSE>> \in Jobs \X BOOLEAN
      OBVIOUS
    <3>2. \A x \in Jobs \X BOOLEAN : <<x>> \in Seq(Jobs \X BOOLEAN)
      OBVIOUS
    <3>. QED BY <3>1, <3>2, Zenon
  <2>. QED BY <2>1, WalkKinds DEF PropagateWalk
<1>3. /\ w.kind = "propagate" /\ Len(w.work) = 1 /\ w.work[1] = <<j, FALSE>>
      /\ w.success = FALSE /\ w.left = {}
  OBVIOUS
<1>. HIDE DEF w
<1>4. Untold(w, E, k) = IF <<j, k>> \in E THEN {1} ELSE {}
  <2>1. 0 .. Len(w.work) = {0, 1}
    BY <1>3
  <2>2. w.work[1][1] = j /\ w.work[1][2] = FALSE
    BY <1>3
  <2>3. Untold(w, E, k) = {p \in {0, 1} : IF p = 0 THEN ~w.success /\ k \in w.left
                              ELSE ~w.work[p][2] /\ <<w.work[p][1], k>> \in E}
    BY <1>3, <2>1 DEF Untold
  <2>4. ASSUME NEW p PROVE p \in Untold(w, E, k) <=> p = 1 /\ <<j, k>> \in E
    <3>1. CASE p = 0
      BY <1>3, <2>3, <3>1
    <3>2. CASE p = 1
      BY <2>2, <2>3, <3>2
    <3>3. CASE p \notin {0, 1}
      BY <2>3, <3>3
    <3>. QED BY <3>1, <3>2, <3>3
  <2>. QED BY <2>4
<1>5. FailingIn(w, E, k) = IF <<j, k>> \in E THEN 1 ELSE 0
  BY <1>4, FS_EmptySet, FS_Singleton DEF FailingIn
<1>6. Failing(<<w>> \o c, E, k) = Failing(c, E, k) + FailingIn(w, E, k)
  BY <1>2, FailingPush
<1>. QED BY <1>1, <1>5, <1>6

(* A wave tells nobody of an end.  *)
LEMMA FailingWave ==
    ASSUME NEW j \in Jobs, NEW c \in Seq(Walk), NEW E, NEW k
    PROVE  Failing(Wave(j) \o c, E, k) = Failing(c, E, k)
<1>. DEFINE w == [kind |-> "wave", work |-> <<j>>, seen |-> {}, left |-> {}]
<1>1. Wave(j) = <<w>> /\ w.kind = "wave"
  BY DEF Wave
<1>2. w \in Walk
  <2>1. <<j>> \in Seq(Jobs)
    OBVIOUS
  <2>. QED BY <2>1, WalkKinds DEF WaveWalk
<1>. HIDE DEF w
<1>3. FailingIn(w, E, k) = 0 /\ Failing(c, E, k) \in Nat
  BY <1>1, <1>2, UntoldFinite, UntoldOfFinite
<1>4. Failing(<<w>> \o c, E, k) = Failing(c, E, k) + FailingIn(w, E, k)
  BY <1>2, FailingPush
<1>. QED BY <1>1, <1>3, <1>4

(* What is on top and what is below.  *)
LEMMA FailingTop ==
    ASSUME calls \in Seq(Walk), ~Unlocked, NEW E, NEW k
    PROVE  /\ Failing(calls, E, k) = Failing(rest, E, k) + FailingIn(top, E, k)
           /\ Failing(rest, E, k) \in Nat
           /\ FailingIn(top, E, k) \in Nat
<1>1. /\ top \in Walk /\ rest \in Seq(Walk) /\ Len(calls) \in Nat \ {0} /\ top = calls[1]
      /\ Len(rest) = Len(calls) - 1
      /\ \A i \in 1 .. Len(rest) : rest[i] = calls[i + 1]
  BY StackType
<1>2. calls = <<top>> \o rest
  <2>1. /\ <<top>> \o rest \in Seq(Walk) /\ Len(<<top>> \o rest) = 1 + Len(rest)
        /\ (<<top>> \o rest)[1] = top
        /\ \A i \in 2 .. 1 + Len(rest) : (<<top>> \o rest)[i] = rest[i - 1]
    BY <1>1, PrependType
  <2>2. ASSUME NEW i \in 1 .. Len(calls) PROVE calls[i] = (<<top>> \o rest)[i]
    <3>1. CASE i = 1
      BY <1>1, <2>1, <3>1
    <3>2. CASE i # 1
      <4>1. i \in 2 .. 1 + Len(rest) /\ i - 1 \in 1 .. Len(rest) /\ (i - 1) + 1 = i
        BY <1>1, <3>2
      <4>. QED BY <1>1, <2>1, <4>1
    <3>. QED BY <3>1, <3>2
  <2>3. Len(calls) = Len(<<top>> \o rest)
    BY <1>1, <2>1
  <2>. QED BY <2>1, <2>2, <2>3, SeqEqual
<1>3. Failing(<<top>> \o rest, E, k) = Failing(rest, E, k) + FailingIn(top, E, k)
  BY <1>1, FailingPush
<1>. QED BY <1>1, <1>2, <1>3, UntoldFinite, UntoldOfFinite

(* The walk of a success tells of no failure.  *)
LEMMA FailingSuccess ==
    ASSUME NEW w \in Walk, NEW st, SuccessWalk(w, st), NEW E, NEW k
    PROVE  FailingIn(w, E, k) = 0
<1>1. w \in PropagateWalk
  BY WalkKinds DEF SuccessWalk
<1>2. Len(w.work) \in {0, 1} /\ (Len(w.work) = 1 => w.work[1][2])
  <2>1. w.work = <<>> => Len(w.work) = 0
    OBVIOUS
  <2>. QED BY <1>1, <2>1 DEF SuccessWalk
<1>3. \A p \in 0 .. Len(w.work) : p = 0 \/ (p = 1 /\ Len(w.work) = 1)
  <2>. DEFINE n == Len(w.work)
  <2>1. n \in {0, 1}
    BY <1>2
  <2>. HIDE DEF n
  <2>2. \A p \in 0 .. n : p = 0 \/ (p = 1 /\ n = 1)
    BY <2>1
  <2>. QED BY <2>2 DEF n
<1>4. Untold(w, E, k) = {}
  BY <1>2, <1>3 DEF Untold, SuccessWalk
<1>. QED BY <1>4, FS_EmptySet DEF FailingIn

(* One dependent is told.  *)
LEMMA FailingTold ==
    ASSUME NEW w \in PropagateWalk, NEW j \in w.left, NEW E, NEW k
    PROVE  LET next == [w EXCEPT !.left = w.left \ {j}]
               more == [next EXCEPT !.work = Append(@, <<j, FALSE>>)]
           IN  /\ FailingIn(next, E, k) = IF k = j /\ ~w.success THEN FailingIn(w, E, k) - 1
                                                                 ELSE FailingIn(w, E, k)
               /\ FailingIn(next, E, k) <= FailingIn(more, E, k)
<1>. DEFINE S == w.left \ {j}
            next == [w EXCEPT !.left = S]
            more == [next EXCEPT !.work = Append(@, <<j, FALSE>>)]
<1>1. S \in SUBSET Jobs /\ j \in Jobs /\ w \in Walk /\ w.kind = "propagate"
      /\ Len(w.work) \in Nat /\ w.work \in Seq(Jobs \X BOOLEAN)
  BY WalkKinds DEF PropagateWalk
<1>2. \A x : x \in S <=> x \in w.left /\ x # j
  OBVIOUS
<1>. HIDE DEF S
<1>3. /\ next.kind = "propagate" /\ next.work = w.work /\ next.success = w.success
      /\ next.left = S /\ next \in PropagateWalk
  BY <1>1, PropagateWalkType DEF PropagateWalk
<1>. HIDE DEF next
<1>4. /\ more.kind = "propagate" /\ more.work = Append(w.work, <<j, FALSE>>)
      /\ more.success = w.success /\ more.left = S
  BY <1>1, <1>3 DEF PropagateWalk
<1>5. more \in PropagateWalk
  BY <1>1, <1>4, AppendProperties DEF PropagateWalk, next
<1>. HIDE DEF more
<1>6. IsFiniteSet(Untold(w, E, k)) /\ IsFiniteSet(Untold(more, E, k))
  BY <1>1, <1>5, WalkKinds, UntoldFinite
<1>7. Untold(next, E, k) = IF k = j THEN Untold(w, E, k) \ {0} ELSE Untold(w, E, k)
  BY <1>1, <1>2, <1>3 DEF Untold
<1>8. k = j /\ ~w.success => 0 \in Untold(w, E, k)
  BY <1>1 DEF Untold
<1>9. w.success => 0 \notin Untold(w, E, k)
  BY <1>1 DEF Untold
<1>10. Untold(next, E, k) \in SUBSET Untold(more, E, k)
  <2>1. Len(more.work) = Len(w.work) + 1
        /\ \A i \in 1 .. Len(w.work) : more.work[i] = w.work[i]
    BY <1>1, <1>4, AppendProperties
  <2>2. ASSUME NEW p \in Untold(next, E, k) PROVE p \in Untold(more, E, k)
    <3>1. p \in 0 .. Len(w.work)
      BY <1>3 DEF Untold
    <3>2. p \in 0 .. Len(more.work)
      BY <1>1, <2>1, <3>1
    <3>3. CASE p = 0
      BY <1>3, <1>4, <2>2, <3>2, <3>3 DEF Untold
    <3>4. CASE p # 0
      <4>1. more.work[p] = w.work[p]
        BY <1>1, <2>1, <3>1, <3>4
      <4>2. ~w.work[p][2] /\ <<w.work[p][1], k>> \in E
        BY <1>3, <2>2, <3>4 DEF Untold
      <4>. QED BY <1>4, <3>2, <3>4, <4>1, <4>2 DEF Untold
    <3>. QED BY <3>3, <3>4
  <2>. QED BY <2>2
<1>11. FailingIn(next, E, k) <= FailingIn(more, E, k)
  BY <1>6, <1>10, FS_Subset DEF FailingIn
<1>12. Cardinality(Untold(w, E, k) \ {0}) = IF 0 \in Untold(w, E, k)
                                            THEN Cardinality(Untold(w, E, k)) - 1
                                            ELSE Cardinality(Untold(w, E, k))
  BY <1>6, FS_RemoveElement
<1>13. FailingIn(next, E, k) = IF k = j /\ ~w.success THEN FailingIn(w, E, k) - 1
                                                      ELSE FailingIn(w, E, k)
  BY <1>7, <1>8, <1>9, <1>12 DEF FailingIn
<1>. QED BY <1>11, <1>13 DEF next, more, S

(* A failure becomes the source that is followed: those who are told of it stay as many.  *)
LEMMA FailingSource ==
    ASSUME NEW w \in PropagateWalk, w.left = {}, w.work # <<>>, NEW E, NEW k \in Jobs,
           ~w.work[Len(w.work)][2]
    PROVE  LET source == w.work[Len(w.work)]
           IN  FailingIn([w EXCEPT !.work = SubSeq(@, 1, Len(@) - 1), !.success = source[2],
                                   !.left = {x \in Jobs : <<source[1], x>> \in E}], E, k)
                  = FailingIn(w, E, k)
<1>. DEFINE n == Len(w.work)
            source == w.work[n]
            work == SubSeq(w.work, 1, n - 1)
            D == {x \in Jobs : <<source[1], x>> \in E}
            v == [w EXCEPT !.work = work, !.success = source[2], !.left = D]
<1>1. w.work \in Seq(Jobs \X BOOLEAN) /\ w.kind = "propagate" /\ w \in Walk
  BY WalkKinds DEF PropagateWalk
<1>2. n \in Nat \ {0}
  BY <1>1, EmptySeq
<1>3. /\ source \in Jobs \X BOOLEAN /\ work \in Seq(Jobs \X BOOLEAN) /\ Len(work) = n - 1
      /\ \A i \in 1 .. n - 1 : work[i] = w.work[i]
  BY PropagateWalkType
<1>4. D \in SUBSET Jobs /\ (k \in D <=> <<source[1], k>> \in E)
  OBVIOUS
<1>5. ~source[2]
  OBVIOUS
<1>. HIDE DEF D, work
<1>6. v.kind = "propagate" /\ v.work = work /\ v.success = source[2] /\ v.left = D
  BY <1>1 DEF PropagateWalk
<1>. HIDE DEF v
<1>7. IsFiniteSet(Untold(w, E, k))
  BY <1>1, UntoldFinite
<1>8. Untold(v, E, k) = IF n \in Untold(w, E, k) THEN (Untold(w, E, k) \ {n}) \cup {0}
                                                 ELSE Untold(w, E, k)
  <2>1. \A p : p \in Untold(w, E, k) <=> /\ p \in 1 .. n
                                         /\ ~w.work[p][2] /\ <<w.work[p][1], k>> \in E
    BY <1>1, <1>2 DEF Untold
  <2>2. \A p : p \in Untold(v, E, k) <=>
                  \/ p = 0 /\ <<source[1], k>> \in E
                  \/ p \in 1 .. n - 1 /\ ~w.work[p][2] /\ <<w.work[p][1], k>> \in E
    <3>1. \A p : p \in Untold(v, E, k) <=>
                    /\ p \in 0 .. n - 1
                    /\ IF p = 0 THEN <<source[1], k>> \in E
                       ELSE ~work[p][2] /\ <<work[p][1], k>> \in E
      BY <1>3, <1>4, <1>5, <1>6 DEF Untold
    <3>2. \A p : p \in 0 .. n - 1 <=> p = 0 \/ p \in 1 .. n - 1
      BY <1>2
    <3>3. 0 \notin 1 .. n - 1
      BY <1>2
    <3>. QED BY <1>3, <3>1, <3>2, <3>3
  <2>3. n \in Untold(w, E, k) <=> <<source[1], k>> \in E
    <3>1. n \in 1 .. n
      BY <1>2
    <3>. QED BY <1>5, <2>1, <3>1
  <2>4. \A p : p \in 1 .. n <=> p = n \/ p \in 1 .. n - 1
    BY <1>2
  <2>5. n \notin 1 .. n - 1 /\ n # 0
    BY <1>2
  <2>. HIDE DEF n, source
  <2>. QED BY <2>1, <2>2, <2>3, <2>4, <2>5
<1>9. 0 \notin Untold(w, E, k)
  BY <1>1 DEF Untold
<1>10. ASSUME n \in Untold(w, E, k)
       PROVE  Cardinality((Untold(w, E, k) \ {n}) \cup {0}) = Cardinality(Untold(w, E, k))
  <2>. DEFINE U == Untold(w, E, k) \ {n}
  <2>1. IsFiniteSet(U) /\ Cardinality(U) = Cardinality(Untold(w, E, k)) - 1
    BY <1>7, <1>10, FS_RemoveElement
  <2>2. 0 \notin U
    BY <1>9
  <2>3. Cardinality(U \cup {0}) = Cardinality(U) + 1
    BY <2>1, <2>2, FS_AddElement
  <2>4. Cardinality(Untold(w, E, k)) \in Nat
    BY <1>7, FS_CardinalityType
  <2>. QED BY <2>1, <2>3, <2>4
<1>11. FailingIn(v, E, k) = FailingIn(w, E, k)
  BY <1>8, <1>10 DEF FailingIn
<1>. QED BY <1>11 DEF v, work, D

(* A step that refreshes one job, new or edited, and leaves the others alone.  *)
Anew(j, p) ==
    /\ state[j] = "Absent"
    /\ \/ p \in Allowed.plans[j]
       \/ /\ p.begin = "none"
          /\ \E i \in Jobs : /\ state[i] # "Absent"
                            /\ p.mode = spec[i].mode /\ p.key = spec[i].key
Reworked(j, p) ==
    /\ state[j] \in {"Queued", "Hold"}
    /\ p.key \in Allowed.keys \cup {spec[j].key}
    /\ p.mode \in Allowed.modes \cup {spec[j].mode}
    /\ p.begin = spec[j].begin \/ Allowed.delayed # {}

RefreshStep(j, st, sp, why, changed, same) ==
    /\ Refresh(j, st, sp, why, changed, same)
    /\ st \in [Jobs -> States] /\ sp \in [Jobs -> Plan]
    /\ changed \in Seq(Walk) /\ same \in Seq(Walk)
    /\ \A k \in Jobs : k # j => st[k] = state[k] /\ sp[k] = spec[k]
    /\ st[j] \in {"Queued", "Hold"}
    /\ Anew(j, sp[j]) \/ Reworked(j, sp[j])
    /\ \A k \in Jobs : k # j => /\ Failing(calls, edges, k) <= Failing(changed, edges', k)
                                /\ Failing(calls, edges, k) <= Failing(same, edges', k)

Refreshes == \E j \in Jobs : \E st, sp, why, changed, same :
                RefreshStep(j, st, sp, why, changed, same)

(* A step of a walk that changes nothing else, and forgets no failure.  *)
WalksOn ==
    /\ UNCHANGED <<state, reason, spec, edges, dep_rt, epoch, heap>>
    /\ \A k \in Jobs : Failing(calls, edges, k) <= Failing(calls', edges', k)

(* All steps, as far as they matter to who waits for what.  *)
OtherStep ==
    \/ \E j \in Jobs : Hold(j) \/ Cancel(j) \/ Finish(j) \/ Fail(j) \/ Tick(j) \/ PropagateTo(j)
    \/ ReleaseDue \/ Pass \/ Restart \/ Return

(* The refresh of a handler, with a stack below that forgets no failure.  *)
LEMMA RefreshJobStep ==
    ASSUME NEW j \in Jobs, NEW st \in [Jobs -> States], NEW sp \in [Jobs -> Plan], NEW why,
           NEW others \in Seq(Walk), RefreshJob(j, st, sp, why, others),
           \A k \in Jobs : k # j => st[k] = state[k] /\ sp[k] = spec[k],
           st[j] \in {"Queued", "Hold"},
           Anew(j, sp[j]) \/ Reworked(j, sp[j]),
           \A k \in Jobs : k # j => Failing(calls, edges, k) <= Failing(others, edges', k)
    PROVE  Refreshes
<1>1. Wave(j) \o others \in Seq(Walk)
  BY NewWalks, ConcatProperties
<1>2. \A k \in Jobs : Failing(Wave(j) \o others, edges', k) = Failing(others, edges', k)
  BY FailingWave
<1>3. RefreshStep(j, st, sp, why, Wave(j) \o others, others)
  BY <1>1, <1>2 DEF RefreshStep, RefreshJob
<1>. QED BY <1>3 DEF Refreshes

(* Nothing is forgotten of an empty stack.  *)
LEMMA NothingForgotten ==
    ASSUME Unlocked, NEW c \in Seq(Walk)
    PROVE  \A k \in Jobs : Failing(calls, edges, k) <= Failing(c, edges', k)
<1>1. \A k \in Jobs : Failing(calls, edges, k) = 0
  BY FailingNone DEF Unlocked
<1>2. \A k \in Jobs : Failing(c, edges', k) \in Nat
  BY UntoldOfFinite
<1>. QED BY <1>1, <1>2

(* What a step of a walk on top does to the failures the stack tells of.  *)
LEMMA TopChanges ==
    ASSUME calls \in Seq(Walk), ~Unlocked, NEW w \in Walk, edges' = edges,
           \A k \in Jobs : FailingIn(top, edges, k) <= FailingIn(w, edges, k)
    PROVE  /\ <<w>> \o rest \in Seq(Walk)
           /\ \A k \in Jobs : Failing(calls, edges, k) <= Failing(<<w>> \o rest, edges', k)
<1>1. rest \in Seq(Walk)
  BY StackType
<1>2. \A k \in Jobs : FailingIn(w, edges, k) \in Nat
  BY UntoldFinite
<1>3. \A k \in Jobs : Failing(<<w>> \o rest, edges, k)
                         = Failing(rest, edges, k) + FailingIn(w, edges, k)
  BY <1>1, FailingPush
<1>. QED BY <1>1, <1>2, <1>3, FailingTop, PrependType

(* The next source is told of to as many.  *)
LEMMA NextSourceWalksOn ==
    ASSUME Core, NextSource
    PROVE  WalksOn
<1>. USE DEF Core
<1>. DEFINE source == top.work[Len(top.work)]
            w == [top EXCEPT !.work = SubSeq(@, 1, Len(@) - 1), !.success = source[2],
                             !.left = {x \in Jobs : <<source[1], x>> \in edges}]
<1>1. /\ ~Unlocked /\ top.kind = "propagate" /\ top.left = {} /\ top.work # <<>>
      /\ UNCHANGED <<state, reason, spec, edges, dep_rt, epoch, heap>>
      /\ calls' = <<w>> \o rest
  BY DEF NextSource, In, With, Dependents
<1>2. calls \in Seq(Walk) /\ top \in Walk /\ rest \in Seq(Walk) /\ top \in PropagateWalk
  BY <1>1, StackType, WalkKinds DEF TypeOK
<1>3. w \in Walk
  <2>1. /\ source[2] \in BOOLEAN
        /\ SubSeq(top.work, 1, Len(top.work) - 1) \in Seq(Jobs \X BOOLEAN)
    BY <1>1, <1>2, PropagateWalkType
  <2>2. {x \in Jobs : <<source[1], x>> \in edges} \in SUBSET Jobs
    OBVIOUS
  <2>3. ASSUME NEW a \in Seq(Jobs \X BOOLEAN), NEW b \in BOOLEAN, NEW D \in SUBSET Jobs
        PROVE  [top EXCEPT !.work = a, !.success = b, !.left = D] \in PropagateWalk
    BY <1>2 DEF PropagateWalk
  <2>. QED BY <2>1, <2>2, <2>3, WalkKinds
<1>4. ASSUME NEW k \in Jobs PROVE FailingIn(top, edges, k) <= FailingIn(w, edges, k)
  <2>1. CASE SuccessWalk(top, state)
    <3>1. FailingIn(top, edges, k) = 0
      BY <1>2, <2>1, FailingSuccess
    <3>2. FailingIn(w, edges, k) \in Nat
      BY <1>3, UntoldFinite
    <3>. QED BY <3>1, <3>2
  <2>2. CASE StackSound(calls, state, spec)
    <3>1. FrameSound(top, state, spec)
      BY <1>1, <1>2, <2>2, StackTop
    <3>2. Len(top.work) \in 1 .. Len(top.work)
      <4>1. top.work \in Seq(Jobs \X BOOLEAN)
        BY <1>2 DEF PropagateWalk
      <4>2. Len(top.work) \in Nat \ {0}
        BY <1>1, <4>1, EmptySeq
      <4>. QED BY <4>2
    <3>3. ~source[2]
      BY <1>1, <3>1, <3>2 DEF FrameSound
    <3>4. FailingIn(w, edges, k) = FailingIn(top, edges, k)
      BY <1>1, <1>2, <3>3, FailingSource
    <3>5. FailingIn(top, edges, k) \in Nat
      BY <1>2, UntoldFinite
    <3>. QED BY <3>4, <3>5
  <2>. QED BY <1>1, <2>1, <2>2, WalkTop
<1>. HIDE DEF w
<1>5. \A k \in Jobs : Failing(calls, edges, k) <= Failing(<<w>> \o rest, edges', k)
  BY <1>1, <1>2, <1>3, <1>4, TopChanges
<1>. QED BY <1>1, <1>5 DEF WalksOn

(* Nor does a wave forget any, or the walk of a retry, on which no other is.  *)
LEMMA WaveKeeps ==
    ASSUME calls \in Seq(Walk), ~Unlocked, top.kind # "propagate",
           NEW w \in Walk, w.kind # "propagate", edges' = edges
    PROVE  /\ <<w>> \o rest \in Seq(Walk)
           /\ \A k \in Jobs : Failing(calls, edges, k) <= Failing(<<w>> \o rest, edges', k)
<1>1. \A k \in Jobs : FailingIn(top, edges, k) = 0 /\ FailingIn(w, edges, k) = 0
  BY StackType, UntoldFinite
<1>. QED BY <1>1, TopChanges

(* The walk of a retry runs alone, when no walk has a failure left to tell.  *)
LEMMA RetryKeeps ==
    ASSUME Core, ~Unlocked, top.kind = "retry", NEW c \in Seq(Walk)
    PROVE  \A k \in Jobs : Failing(calls, edges, k) <= Failing(c, edges', k)
<1>1. calls \in Seq(Walk) /\ rest = <<>> /\ top \in Walk
  BY RetryTop, StackType DEF Core, TypeOK
<1>2. \A k \in Jobs : Failing(calls, edges, k) = 0
  BY <1>1, FailingTop, FailingNone, UntoldFinite
<1>3. \A k \in Jobs : Failing(c, edges', k) \in Nat
  BY UntoldOfFinite
<1>. QED BY <1>2, <1>3

(* Every step refreshes a job, or goes on with a walk, or is one of the others.  *)
LEMMA Kinds ==
    ASSUME HeldUntilReleased, Core, [Next]_vars
    PROVE  Refreshes \/ WalksOn \/ OtherStep
<1>. USE NamesType DEF Core
<1>0. /\ state \in [Jobs -> States] /\ spec \in [Jobs -> Plan] /\ calls \in Seq(Walk)
      /\ <<>> \in Seq(Walk)
  BY DEF TypeOK
<1>1. ASSUME NEW j \in Jobs, NEW sp \in [Jobs -> Plan], NEW others \in Seq(Walk), Unlocked,
             RefreshJob(j, Moved({j}, "Queued"), sp, "None", others),
             \A k \in Jobs : k # j => sp[k] = spec[k],
             Anew(j, sp[j]) \/ Reworked(j, sp[j])
      PROVE  Refreshes
  <2>. DEFINE st == Moved({j}, "Queued")
  <2>1. st \in [Jobs -> States] /\ st[j] = "Queued" /\ \A k \in Jobs : k # j => st[k] = state[k]
    BY MovedType DEF Moved
  <2>2. RefreshJob(j, st, sp, "None", others)
    BY <1>1
  <2>. HIDE DEF st
  <2>. QED BY <1>0, <1>1, <2>1, <2>2, NothingForgotten, RefreshJobStep
<1>2. ASSUME NEW j \in Jobs, Submit(j) PROVE Refreshes
  <2>1. PICK p \in Allowed.plans[j] :
           RefreshJob(j, Moved({j}, "Queued"), [spec EXCEPT ![j] = p], "None", <<>>)
    BY <1>2 DEF Submit
  <2>2. p \in Plan
    BY SetupsAssumption DEF TypeOK, Allowed
  <2>. DEFINE sp == [spec EXCEPT ![j] = p]
  <2>3. /\ sp \in [Jobs -> Plan] /\ sp[j] = p /\ \A k \in Jobs : k # j => sp[k] = spec[k]
        /\ RefreshJob(j, Moved({j}, "Queued"), sp, "None", <<>>)
    BY <1>0, <2>1, <2>2
  <2>4. Unlocked /\ Anew(j, p)
    BY <1>2 DEF Submit, Next_id, Anew
  <2>. HIDE DEF sp
  <2>. QED BY <1>0, <1>1, <2>3, <2>4
<1>3. ASSUME NEW j \in Jobs, Release(j) PROVE Refreshes
  <2>1. /\ Unlocked /\ state[j] = "Hold"
        /\ RefreshJob(j, Moved({j}, "Queued"), spec, "None", <<>>)
    BY <1>0, <1>3 DEF Release, CanTransitionTo, Ended
  <2>. QED BY <1>0, <1>1, <2>1 DEF Reworked
<1>4. ASSUME NEW j \in Jobs, ReleaseAt(j) PROVE Refreshes
  <2>. DEFINE p == [spec[j] EXCEPT !.begin = "future"]
              sp == [spec EXCEPT ![j].begin = "future"]
  <2>1. /\ p \in Plan /\ p.key = spec[j].key /\ p.mode = spec[j].mode
    <3>1. spec[j] \in Plan
      BY <1>0
    <3>. QED BY <3>1 DEF Plan
  <2>2. sp \in [Jobs -> Plan] /\ sp[j] = p /\ \A k \in Jobs : k # j => sp[k] = spec[k]
    BY <1>0, <2>1
  <2>3. state[j] = "Hold" /\ Allowed.delayed # {} /\ Unlocked
    BY <1>4 DEF ReleaseAt, HeldUntilReleased, Allowed, TypeOK
  <2>4. RefreshJob(j, Moved({j}, "Queued"), sp, "None", <<>>)
    <3>1. "Queued" \in CanTransitionTo[state[j]]
      BY <2>3 DEF CanTransitionTo, States, Ended
    <3>. QED BY <1>4, <3>1 DEF ReleaseAt
  <2>. HIDE DEF sp, p
  <2>5. Reworked(j, sp[j])
    BY <2>1, <2>2, <2>3 DEF Reworked
  <2>. QED BY <1>0, <1>1, <2>2, <2>3, <2>4, <2>5
<1>5. ASSUME NEW j \in Jobs, Update(j) PROVE Refreshes
  <2>1. PICK p \in Revised(j) : RefreshJob(j, state, [spec EXCEPT ![j] = p], reason[j], <<>>)
    BY <1>5 DEF Update
  <2>. DEFINE sp == [spec EXCEPT ![j] = p]
  <2>2. /\ p \in Plan /\ p.begin = spec[j].begin
        /\ p.key \in Allowed.keys \cup {spec[j].key}
        /\ p.mode \in Allowed.modes \cup {spec[j].mode}
    BY RevisedType
  <2>3. /\ sp \in [Jobs -> Plan] /\ sp[j] = p /\ \A k \in Jobs : k # j => sp[k] = spec[k]
        /\ RefreshJob(j, state, sp, reason[j], <<>>)
    BY <1>0, <2>1, <2>2
  <2>4. state[j] \in {"Queued", "Hold"} /\ Unlocked
    BY <1>5 DEF Update, MayUpdate
  <2>. HIDE DEF sp
  <2>5. Reworked(j, sp[j])
    BY <2>2, <2>3, <2>4 DEF Reworked
  <2>. QED BY <1>0, <2>3, <2>4, <2>5, NothingForgotten, RefreshJobStep
<1>6. ASSUME NEW j \in Jobs, NEW n \in Jobs, FailAndRetry(j, n) PROVE Refreshes
  <2>. DEFINE w == [kind |-> "retry", old |-> j, new |-> n, left |-> Dependents(j)]
              sp == [spec EXCEPT ![n] = RetryPlan(j)]
  <2>1. /\ sp \in [Jobs -> Plan] /\ sp[n] = RetryPlan(j)
        /\ \A k \in Jobs : k # n => sp[k] = spec[k]
    BY <1>0, <1>6, RetryPlanType, PlanType DEF FailAndRetry
  <2>2. /\ RefreshJob(n, Moved({n}, "Queued"), sp, "None", <<w>>)
        /\ Unlocked /\ state[n] = "Absent" /\ state[j] = "Running"
    BY <1>6 DEF FailAndRetry, RetryPlan, Next_id
  <2>3. <<w>> \in Seq(Walk)
    <3>1. w \in RetryWalk
      BY DEF RetryWalk, Dependents
    <3>2. w \in Walk
      BY <3>1, WalkKinds
    <3>. HIDE DEF w
    <3>. QED BY <3>2
  <2>. HIDE DEF w, sp
  <2>4. /\ RetryPlan(j).begin = "none" /\ RetryPlan(j).mode = spec[j].mode
        /\ RetryPlan(j).key = spec[j].key
    <3>1. spec[j] \in Plan
      BY <1>0
    <3>2. RetryPlan(j).key = spec[j].key
      BY <3>1 DEF RetryPlan, Plan
    <3>. QED BY <1>6, <3>2, RetryPlanType DEF FailAndRetry
  <2>5. Anew(n, sp[n])
    BY <2>1, <2>2, <2>4 DEF Anew
  <2>. QED BY <1>1, <2>1, <2>2, <2>3, <2>5
<1>7. ASSUME NEW j \in Jobs, WaveTo(j) PROVE Refreshes \/ WalksOn
  <2>. DEFINE S == top.left \ {j}
              next == [top EXCEPT !.left = S]
              more == [next EXCEPT !.work = Append(@, j)]
  <2>1. /\ ~Unlocked /\ top.kind = "wave" /\ edges' = edges
        /\ \/ state[j] = "Queued" /\ Refresh(j, state, spec, reason[j], <<more>> \o rest,
                                             <<next>> \o rest)
           \/ /\ UNCHANGED <<state, reason, spec, edges, dep_rt, epoch, heap>>
              /\ calls' = <<next>> \o rest
    BY <1>7 DEF WaveTo, In, With
  <2>2. top \in WaveWalk
    BY <1>0, <2>1, WalkTop, WalkKinds
  <2>3. S \in SUBSET Jobs
    BY <2>2 DEF WaveWalk
  <2>. HIDE DEF S
  <2>4. next \in WaveWalk /\ more \in WaveWalk
    BY <2>2, <2>3, WaveWalkType
  <2>. HIDE DEF next, more
  <2>5. next.kind = "wave" /\ more.kind = "wave" /\ next \in Walk /\ more \in Walk
    BY <2>4, WalkKinds DEF WaveWalk
  <2>6. \A w \in {next, more} :
           /\ <<w>> \o rest \in Seq(Walk)
           /\ \A k \in Jobs : Failing(calls, edges, k) <= Failing(<<w>> \o rest, edges', k)
    <3>1. ASSUME NEW w \in {next, more} PROVE w \in Walk /\ w.kind # "propagate"
      BY <2>5
    <3>. QED BY <1>0, <2>1, <3>1, WaveKeeps
  <2>7. CASE state[j] = "Queued" /\ Refresh(j, state, spec, reason[j], <<more>> \o rest,
                                            <<next>> \o rest)
    <3>1. RefreshStep(j, state, spec, reason[j], <<more>> \o rest, <<next>> \o rest)
      BY <1>0, <2>6, <2>7 DEF RefreshStep, Reworked
    <3>. QED BY <3>1 DEF Refreshes
  <2>. QED BY <2>1, <2>6, <2>7 DEF WalksOn
<1>8. ASSUME NEW j \in Jobs, Retarget(j) PROVE Refreshes \/ WalksOn
  <2>. DEFINE next == [top EXCEPT !.left = top.left \ {j}]
              sp == [spec EXCEPT ![j] = RetargetedPlan(j, top.old, top.new)]
  <2>1. /\ ~Unlocked /\ top.kind = "retry"
        /\ \/ state[j] \in Retargeted /\ RefreshJob(j, state, sp, reason[j], <<next>> \o rest)
           \/ /\ UNCHANGED <<state, reason, spec, edges, dep_rt, epoch, heap>>
              /\ calls' = <<next>> \o rest
    BY <1>8 DEF Retarget, RetargetedPlan, In, With
  <2>2. top \in RetryWalk /\ rest \in Seq(Walk) /\ top.old \in Jobs /\ top.new \in Jobs
    BY <1>0, <2>1, WalkTop, RetryTop
  <2>3. /\ sp \in [Jobs -> Plan] /\ sp[j] = RetargetedPlan(j, top.old, top.new)
        /\ \A k \in Jobs : k # j => sp[k] = spec[k]
    BY <1>0, <2>2, RetargetedPlanType, PlanType
  <2>4. next \in Walk
    <3>1. top.left \ {j} \in SUBSET Jobs
      BY <2>2 DEF RetryWalk
    <3>. QED BY <2>2, <3>1, RetryWalkType, WalkKinds
  <2>. HIDE DEF next, sp
  <2>5. <<next>> \o rest \in Seq(Walk)
    BY <2>2, <2>4, PrependType
  <2>6. \A k \in Jobs : Failing(calls, edges, k) <= Failing(<<next>> \o rest, edges', k)
    BY <2>1, <2>5, RetryKeeps
  <2>7. CASE state[j] \in Retargeted /\ RefreshJob(j, state, sp, reason[j], <<next>> \o rest)
    <3>1. Reworked(j, sp[j])
      BY <2>2, <2>3, <2>7, RetargetedPlanType DEF Reworked, Retargeted
    <3>2. state[j] \in {"Queued", "Hold"} /\ RefreshJob(j, state, sp, reason[j], <<next>> \o rest)
      BY <2>7 DEF Retargeted
    <3>3. state \in [Jobs -> States] /\ \A k \in Jobs : k # j => state[k] = state[k]
      BY <1>0
    <3>4. Anew(j, sp[j]) \/ Reworked(j, sp[j])
      BY <3>1
    <3>5. \A k \in Jobs : k # j => state[k] = state[k] /\ sp[k] = spec[k]
      BY <2>3
    <3>6. \A k \in Jobs : k # j => Failing(calls, edges, k) <= Failing(<<next>> \o rest, edges', k)
      BY <2>6
    <3>7. sp \in [Jobs -> Plan] /\ <<next>> \o rest \in Seq(Walk)
      BY <2>3, <2>5
    <3>8. state[j] \in {"Queued", "Hold"}
      BY <3>2
    <3>9. RefreshJob(j, state, sp, reason[j], <<next>> \o rest)
      BY <3>2
    <3>. HIDE DEF Reworked
    <3>. QED BY <3>3, <3>4, <3>5, <3>6, <3>7, <3>8, <3>9, RefreshJobStep
  <2>. QED BY <2>1, <2>6, <2>7 DEF WalksOn
<1>9. CASE NextWave
  <2>. DEFINE w == [top EXCEPT !.work = Tail(@),
                               !.seen = @ \cup {Head(top.work)},
                               !.left = IF Head(top.work) \in top.seen THEN {}
                                        ELSE Dependents(Head(top.work))]
  <2>1. /\ calls' = <<w>> \o rest
        /\ UNCHANGED <<state, reason, spec, edges, dep_rt, epoch, heap>>
        /\ ~Unlocked /\ top.kind = "wave" /\ top.work # <<>>
    BY <1>9 DEF NextWave, With, In
  <2>2. top \in WaveWalk /\ rest \in Seq(Walk)
    BY <1>0, <2>1, WalkTop, WalkKinds
  <2>3. w.kind = "wave" /\ w \in WaveWalk
    <3>1. Head(top.work) \in Jobs /\ Tail(top.work) \in Seq(Jobs)
      BY <2>1, <2>2, WaveWalkType
    <3>2. Dependents(Head(top.work)) \in SUBSET Jobs
      BY DEF Dependents
    <3>. QED BY <2>2, <3>1, <3>2 DEF WaveWalk
  <2>. HIDE DEF w
  <2>4. w \in Walk
    BY <2>3, WalkKinds
  <2>5. \A k \in Jobs : Failing(calls, edges, k) <= Failing(<<w>> \o rest, edges', k)
    BY <1>0, <2>1, <2>3, <2>4, WaveKeeps
  <2>. QED BY <2>1, <2>5 DEF WalksOn
<1>10. CASE UNCHANGED vars
  <2>1. /\ UNCHANGED <<state, reason, spec, edges, dep_rt, epoch, heap>>
        /\ calls' = calls
    BY <1>10 DEF vars
  <2>2. \A k \in Jobs : Failing(calls, edges, k) \in Nat
    BY <1>0, UntoldOfFinite
  <2>3. \A k \in Jobs : Failing(calls', edges', k) = Failing(calls, edges, k)
    BY <2>1
  <2>. QED BY <2>1, <2>2, <2>3 DEF WalksOn
<1>. QED
  BY <1>2, <1>3, <1>4, <1>5, <1>6, <1>7, <1>8, <1>9, <1>10, NextSourceWalksOn
  DEF Next, OtherStep

(* The dependencies of a job that ended without success.  *)
Bad(k) == {d \in DepsOf(k) : state[d] \in Unsuccessful}

(* Each of them is counted by a job that waits, or a walk has still to tell it.  *)
FailuresSound ==
    \A k \in Jobs : state[k] \in {"Queued", "Hold"} =>
        Cardinality(Bad(k)) <= dep_rt[k].failure + Failing(calls, edges, k)

(* One more job that ended is one more bad dependency at most, of those that depend on it. *)
LEMMA BadGrows ==
    ASSUME TypeOK, NEW k \in Jobs, NEW j, DepsOf(k)' = DepsOf(k),
           \A d \in Jobs : d # j /\ state'[d] \in Unsuccessful => state[d] \in Unsuccessful
    PROVE  /\ Cardinality(Bad(k)) \in Nat
           /\ Cardinality(Bad(k)') \in Nat
           /\ Cardinality(Bad(k)') <= Cardinality(Bad(k)) + IF j \in DepsOf(k) THEN 1 ELSE 0
<1>. DEFINE B == Bad(k)
            C == Bad(k)'
            X == IF j \in DepsOf(k) THEN {j} ELSE {}
<1>1. DepsOf(k) \in SUBSET Jobs
  BY DepsAreJobs
<1>2. C = {d \in DepsOf(k) : state'[d] \in Unsuccessful}
  BY DEF Bad, Unsuccessful
<1>3. B \in SUBSET Jobs /\ C \in SUBSET (B \cup X)
  BY <1>1, <1>2 DEF Bad
<1>. HIDE DEF B, C
<1>4. IsFiniteSet(B) /\ Cardinality(B) \in Nat
  BY <1>3, JobsAssumption, FS_Subset, FS_CardinalityType
<1>5. /\ IsFiniteSet(B \cup X)
      /\ Cardinality(B \cup X) <= Cardinality(B) + IF j \in DepsOf(k) THEN 1 ELSE 0
  <2>1. CASE j \in DepsOf(k)
    <3>1. /\ IsFiniteSet(B \cup {j})
          /\ Cardinality(B \cup {j}) = IF j \in B THEN Cardinality(B) ELSE Cardinality(B) + 1
      BY <1>4, FS_AddElement
    <3>2. X = {j}
      BY <2>1
    <3>. QED BY <1>4, <2>1, <3>1, <3>2
  <2>2. CASE j \notin DepsOf(k)
    <3>1. B \cup X = B
      BY <2>2
    <3>. QED BY <1>4, <2>2, <3>1
  <2>. QED BY <2>1, <2>2
<1>. HIDE DEF X
<1>6. IsFiniteSet(C) /\ Cardinality(C) <= Cardinality(B \cup X) /\ Cardinality(C) \in Nat
      /\ Cardinality(B \cup X) \in Nat
  BY <1>3, <1>5, FS_Subset, FS_CardinalityType
<1>. QED BY <1>4, <1>5, <1>6 DEF B, C

(* What leaves the dependencies of k as they are, except perhaps that j ended.  *)
LEMMA FailureKept ==
    ASSUME TypeOK, TypeOK', FailuresSound, NEW k \in Jobs, NEW j, DepsOf(k)' = DepsOf(k),
           state[k] \in {"Queued", "Hold"},
           \A d \in Jobs : d # j /\ state'[d] \in Unsuccessful => state[d] \in Unsuccessful,
           dep_rt[k].failure + Failing(calls, edges, k) + (IF j \in DepsOf(k) THEN 1 ELSE 0)
              <= dep_rt'[k].failure + Failing(calls', edges', k)
    PROVE  Cardinality(Bad(k)') <= dep_rt'[k].failure + Failing(calls', edges', k)
<1>1. /\ dep_rt[k].failure \in Nat /\ dep_rt'[k].failure \in Nat
  BY DEF TypeOK, Counters
<1>2. Failing(calls, edges, k) \in Nat /\ Failing(calls', edges', k) \in Nat
  BY UntoldOfFinite DEF TypeOK
<1>3. Cardinality(Bad(k)) <= dep_rt[k].failure + Failing(calls, edges, k)
  BY DEF FailuresSound
<1>. DEFINE b == Cardinality(Bad(k))
            c == Cardinality(Bad(k)')
            x == IF j \in DepsOf(k) THEN 1 ELSE 0
<1>4. b \in Nat /\ c \in Nat /\ c <= b + x
  BY BadGrows
<1>5. x \in Nat /\ b <= dep_rt[k].failure + Failing(calls, edges, k)
      /\ dep_rt[k].failure + Failing(calls, edges, k) + x
            <= dep_rt'[k].failure + Failing(calls', edges', k)
  BY <1>3
<1>. HIDE DEF b, c, x
<1>6. c <= dep_rt'[k].failure + Failing(calls', edges', k)
  BY <1>1, <1>2, <1>4, <1>5
<1>. QED BY <1>6 DEF c

(* The reverse graph after a step, edge by edge.  *)
LEMMA EdgesAfter ==
    ASSUME Core, [Next]_vars
    PROVE  /\ TypeOK'
           /\ \A d, k \in Jobs : <<d, k>> \in edges' <=> d \in DepsOf(k)'
<1>1. Core'
  BY CoreStep
<1>2. TypeOK' /\ GraphExact'
  BY <1>1 DEF Core
<1>3. (TypeOK => (GraphExact <=> \A d, k \in Jobs : <<d, k>> \in edges <=> d \in DepsOf(k)))'
  BY GraphEdges, PTL
<1>. QED BY <1>2, <1>3

(* Telling a dependent: of a success, which spares it, or of a failure, which it counts and
   may not survive.  *)
ToldOfSuccess(j) ==
    /\ SuccessWalk(top, state)
    /\ state' = state /\ state[j] # "Absent"
    /\ dep_rt'[j].failure = dep_rt[j].failure
    /\ \A k \in Jobs : Failing(calls, edges, k) = 0
ToldOfFailure(j) ==
    /\ FrameSound(top, state, spec)
    /\ state' = state
    /\ dep_rt'[j].failure = dep_rt[j].failure + 1
    /\ \A k \in Jobs : Failing(calls, edges, k)
                          = Failing(calls', edges', k) + IF k = j THEN 1 ELSE 0
DoomedBy(j) ==
    /\ state[j] = "Queued"
    /\ state' = Moved({j}, "Cancelled")
    /\ \A k \in Jobs : k # j =>
          Failing(calls, edges, k) + (IF <<j, k>> \in edges THEN 1 ELSE 0)
             <= Failing(calls', edges', k)

(* A step of a walk tells one dependent, in one of these three ways.  *)
LEMMA PropagateEffect ==
    ASSUME Core, NEW j \in Jobs, PropagateTo(j)
    PROVE  /\ j \in top.left /\ spec' = spec /\ edges' = edges
           /\ \A k \in Jobs : k # j => dep_rt'[k] = dep_rt[k]
           /\ dep_rt'[j] = Count(dep_rt[j], spec[j].mode, top.success)
           /\ ToldOfSuccess(j) \/ (~top.success /\ (ToldOfFailure(j) \/ DoomedBy(j)))
<1>. USE DEF Core
<1>. DEFINE S == top.left \ {j}
            next == [top EXCEPT !.left = S]
            rt == Count(dep_rt[j], spec[j].mode, top.success)
            more == [next EXCEPT !.work = Append(@, <<j, FALSE>>)]
<1>1. /\ top \in PropagateWalk /\ rest \in Seq(Walk) /\ ~Unlocked /\ j \in top.left
      /\ calls \in Seq(Walk)
  BY StackType, WalkKinds DEF PropagateTo, In, TypeOK
<1>2. /\ spec' = spec /\ edges' = edges /\ dep_rt' = [dep_rt EXCEPT ![j] = rt]
      /\ \/ /\ state[j] = "Queued" /\ rt.impossible /\ ~dep_rt[j].impossible
            /\ state' = Moved({j}, "Cancelled")
            /\ calls' = Propagate(j, FALSE) \o (<<more>> \o rest)
         \/ state' = state /\ calls' = <<next>> \o rest
  BY DEF PropagateTo, With
<1>3. S \in SUBSET Jobs
  BY <1>1 DEF PropagateWalk
<1>4. /\ next \in PropagateWalk /\ more \in PropagateWalk
      /\ next \in Walk /\ more \in Walk
  <2>1. next \in PropagateWalk /\ more \in PropagateWalk
    BY <1>1, <1>3, PropagateWalkType
  <2>. HIDE DEF next, more
  <2>. QED BY <2>1, WalkKinds
<1>5. (\A k \in Jobs : k # j => dep_rt'[k] = dep_rt[k]) /\ dep_rt'[j] = rt
  BY <1>2 DEF TypeOK
<1>6. rt.failure = IF top.success THEN dep_rt[j].failure ELSE dep_rt[j].failure + 1
  <2>1. /\ dep_rt[j].total \in Nat /\ dep_rt[j].success \in Nat /\ dep_rt[j].failure \in Nat
        /\ dep_rt[j].success + 1 \in Nat /\ dep_rt[j].failure + 1 \in Nat
    BY DEF TypeOK, Counters
  <2>. QED BY <2>1, JudgedType DEF Count
<1>7. \A k \in Jobs :
         /\ FailingIn(next, edges, k) = IF k = j /\ ~top.success THEN FailingIn(top, edges, k) - 1
                                                             ELSE FailingIn(top, edges, k)
         /\ FailingIn(next, edges, k) <= FailingIn(more, edges, k)
  BY <1>1, FailingTold
<1>. HIDE DEF next, more, rt
<1>8. \A k \in Jobs :
          /\ Failing(calls, edges, k) = Failing(rest, edges, k) + FailingIn(top, edges, k)
          /\ Failing(rest, edges, k) \in Nat /\ FailingIn(top, edges, k) \in Nat
  BY <1>1, FailingTop
<1>9. \A k \in Jobs : /\ FailingIn(next, edges, k) \in Nat /\ FailingIn(more, edges, k) \in Nat
                      /\ Failing(<<next>> \o rest, edges, k)
                            = Failing(rest, edges, k) + FailingIn(next, edges, k)
                      /\ Failing(<<more>> \o rest, edges, k)
                            = Failing(rest, edges, k) + FailingIn(more, edges, k)
  BY <1>1, <1>4, FailingPush, UntoldFinite
<1>10. CASE rest = <<>> /\ SuccessWalk(top, state)
  <2>1. top.success = TRUE /\ state[j] # "Absent"
    BY <1>1, <1>10 DEF SuccessWalk, PropagateWalk
  <2>2. rt.impossible => dep_rt[j].impossible
    BY <2>1, SuccessSpares DEF rt
  <2>3. \A k \in Jobs : Failing(calls, edges, k) = 0
    <3>1. \A k \in Jobs : FailingIn(top, edges, k) = 0
      BY <1>1, <1>10, WalkKinds, FailingSuccess
    <3>. QED BY <1>8, <1>10, <3>1, FailingNone
  <2>4. ToldOfSuccess(j)
    BY <1>2, <1>5, <1>6, <1>10, <2>1, <2>2, <2>3 DEF ToldOfSuccess
  <2>. QED BY <1>1, <1>2, <1>5, <2>4 DEF rt
<1>11. CASE StackSound(calls, state, spec)
  <2>1. top.success = FALSE /\ FrameSound(top, state, spec)
    BY <1>1, <1>11, StackTop DEF FrameSound, PropagateWalk
  <2>2. CASE state' = state /\ calls' = <<next>> \o rest
    <3>1. ASSUME NEW k \in Jobs
          PROVE  Failing(calls, edges, k) = Failing(calls', edges', k) + IF k = j THEN 1 ELSE 0
      <4>1. Failing(calls', edges', k) = Failing(rest, edges, k) + FailingIn(next, edges, k)
        BY <1>2, <1>9, <2>2
      <4>2. FailingIn(next, edges, k) = FailingIn(top, edges, k) - IF k = j THEN 1 ELSE 0
        BY <1>7, <1>8, <2>1
      <4>. QED BY <1>8, <1>9, <4>1, <4>2
    <3>2. ToldOfFailure(j)
      BY <1>5, <1>6, <2>1, <2>2, <3>1 DEF ToldOfFailure
    <3>. QED BY <1>1, <1>2, <1>5, <2>1, <3>2 DEF rt
  <2>3. CASE /\ state[j] = "Queued" /\ state' = Moved({j}, "Cancelled")
             /\ calls' = Propagate(j, FALSE) \o (<<more>> \o rest)
    <3>1. <<more>> \o rest \in Seq(Walk)
      BY <1>1, <1>4, PrependType
    <3>2. \A k \in Jobs : Failing(Propagate(j, FALSE) \o (<<more>> \o rest), edges, k)
                = Failing(<<more>> \o rest, edges, k) + IF <<j, k>> \in edges THEN 1 ELSE 0
      <4>. DEFINE c == <<more>> \o rest
      <4>1. c \in Seq(Walk)
        BY <3>1
      <4>. HIDE DEF c
      <4>2. \A E, k : Failing(Propagate(j, FALSE) \o c, E, k)
                         = Failing(c, E, k) + IF <<j, k>> \in E THEN 1 ELSE 0
        BY <4>1, FailingAnew
      <4>. QED BY <4>2 DEF c
    <3>3. ASSUME NEW k \in Jobs, k # j
          PROVE  Failing(calls, edges, k) + (IF <<j, k>> \in edges THEN 1 ELSE 0)
                    <= Failing(calls', edges', k)
      <4>1. Failing(calls', edges', k)
               = Failing(<<more>> \o rest, edges, k) + IF <<j, k>> \in edges THEN 1 ELSE 0
        BY <1>2, <2>3, <3>2
      <4>2. FailingIn(next, edges, k) = FailingIn(top, edges, k)
        BY <1>7, <3>3
      <4>. QED BY <1>7, <1>8, <1>9, <4>1, <4>2
    <3>4. DoomedBy(j)
      BY <2>3, <3>3 DEF DoomedBy
    <3>. QED BY <1>1, <1>2, <1>5, <2>1, <3>4 DEF rt
  <2>. QED BY <1>2, <2>2, <2>3
<1>. QED BY <1>1, <1>10, <1>11, WalkTop

(* What a refresh does, to its job and to the others.  *)
Spared(j, st, sp, why, changed, same) ==
    LET rt == Build(sp[j], st)
    IN  /\ ~(st[j] = "Queued" /\ sp[j].auto /\ rt.impossible)
        /\ state' = st
        /\ reason'[j] = Synced(why, WaitReason(st[j], sp[j], rt))
        /\ heap' = Pushed(heap, j, st[j], sp[j], rt, epoch[j] + 1)
        /\ calls' \in {changed, same}
Killed(j, st, changed) ==
    /\ state' = [st EXCEPT ![j] = "Cancelled"]
    /\ heap' = heap
    /\ calls' = Propagate(j, FALSE) \o changed

(* A refresh rebuilds the counters of its job alone, which it spares or cancels.  *)
LEMMA RefreshEffect ==
    ASSUME TypeOK, NEW j \in Jobs, NEW st, NEW sp, NEW why, NEW changed, NEW same,
           RefreshStep(j, st, sp, why, changed, same)
    PROVE  /\ spec' = sp
           /\ \A k \in Jobs : k # j => /\ state'[k] = state[k] /\ spec'[k] = spec[k]
                                       /\ dep_rt'[k] = dep_rt[k] /\ epoch'[k] = epoch[k]
                                       /\ reason'[k] = reason[k]
           /\ dep_rt'[j] = Build(sp[j], st)
           /\ epoch'[j] = epoch[j] + 1
           /\ Killed(j, st, changed) \/ Spared(j, st, sp, why, changed, same)
<1>. DEFINE rt == Build(sp[j], st)
<1>1. /\ spec' = sp /\ dep_rt' = [dep_rt EXCEPT ![j] = rt]
      /\ epoch' = [epoch EXCEPT ![j] = @ + 1]
      /\ \/ /\ state' = [st EXCEPT ![j] = "Cancelled"]
            /\ reason' = [reason EXCEPT ![j] = "DependencyFailed"]
            /\ calls' = Propagate(j, FALSE) \o changed
            /\ heap' = heap
         \/ /\ ~(st[j] = "Queued" /\ sp[j].auto /\ rt.impossible)
            /\ state' = st
            /\ reason' = [reason EXCEPT ![j] = Synced(why, WaitReason(st[j], sp[j], rt))]
            /\ calls' \in {changed, same}
            /\ heap' = Pushed(heap, j, st[j], sp[j], rt, epoch[j] + 1)
  BY DEF RefreshStep, Refresh
<1>2. /\ st \in [Jobs -> States] /\ sp \in [Jobs -> Plan]
      /\ \A k \in Jobs : k # j => st[k] = state[k] /\ sp[k] = spec[k]
  BY DEF RefreshStep
<1>3. /\ dep_rt \in [Jobs -> Counters] /\ epoch \in [Jobs -> Nat] /\ reason \in [Jobs -> Reasons]
  BY DEF TypeOK
<1>. HIDE DEF rt
<1>4. Killed(j, st, changed) \/ Spared(j, st, sp, why, changed, same)
  BY <1>1, <1>3 DEF Killed, Spared, rt
<1>. QED BY <1>1, <1>2, <1>3, <1>4 DEF rt

(* A refresh recounts the failures of its job, and tells of its end if it ends it.  *)
LEMMA RefreshFailures ==
    ASSUME Core, [Next]_vars, FailuresSound,
           NEW j \in Jobs, NEW st, NEW sp, NEW why, NEW changed, NEW same,
           RefreshStep(j, st, sp, why, changed, same)
    PROVE  FailuresSound'
<1>. USE DEF Core
<1>0. TypeOK' /\ \A d, k \in Jobs : <<d, k>> \in edges' <=> d \in DepsOf(k)'
  BY EdgesAfter
<1>1. /\ st \in [Jobs -> States] /\ sp \in [Jobs -> Plan]
      /\ changed \in Seq(Walk) /\ same \in Seq(Walk)
      /\ \A k \in Jobs : k # j => st[k] = state[k] /\ sp[k] = spec[k]
      /\ st[j] \in {"Queued", "Hold"}
      /\ \A k \in Jobs : k # j => /\ Failing(calls, edges, k) <= Failing(changed, edges', k)
                                  /\ Failing(calls, edges, k) <= Failing(same, edges', k)
  BY DEF RefreshStep
<1>2. /\ spec' = sp /\ dep_rt'[j] = Build(sp[j], st)
      /\ \A k \in Jobs : k # j => /\ state'[k] = state[k] /\ spec'[k] = spec[k]
                                  /\ dep_rt'[k] = dep_rt[k]
      /\ \/ Killed(j, st, changed)
         \/ state' = st /\ calls' \in {changed, same}
  BY RefreshEffect DEF Spared
<1>3. \A k \in Jobs : Failing(calls', edges', k) \in Nat
  BY <1>0, UntoldOfFinite DEF TypeOK
<1>4. ASSUME state'[j] \in {"Queued", "Hold"}
      PROVE  Cardinality(Bad(j)') <= dep_rt'[j].failure + Failing(calls', edges', j)
  <2>1. state' = st
    BY <1>1, <1>2, <1>4 DEF Killed
  <2>. DEFINE B == {d \in DepsIn(sp[j]) : st[d] \in Unsuccessful}
  <2>2. Bad(j)' = B
    BY <1>2, <2>1 DEF Bad, DepsOf, Unsuccessful
  <2>3. sp[j] \in Plan /\ B \in SUBSET Jobs
    BY <1>1, DepsType
  <2>4. dep_rt'[j].failure = Listed(sp[j], B)
    BY <1>1, <1>2, <2>3, BuildVerdict
  <2>. HIDE DEF B
  <2>5. Cardinality(B) \in Nat /\ Listed(sp[j], B) \in Nat /\ Cardinality(B) <= Listed(sp[j], B)
    BY <2>3, ListedType
  <2>. QED BY <1>3, <2>2, <2>4, <2>5
<1>5. ASSUME NEW k \in Jobs, k # j, state'[k] \in {"Queued", "Hold"}
      PROVE  Cardinality(Bad(k)') <= dep_rt'[k].failure + Failing(calls', edges', k)
  <2>1. DepsOf(k)' = DepsOf(k) /\ state[k] \in {"Queued", "Hold"}
    BY <1>2, <1>5 DEF DepsOf
  <2>2. /\ dep_rt'[k].failure = dep_rt[k].failure /\ dep_rt[k].failure \in Nat
        /\ Failing(calls, edges, k) \in Nat
    BY <1>2, <1>5, UntoldOfFinite DEF TypeOK, Counters
  <2>3. CASE Killed(j, st, changed)
    <3>1. Failing(calls', edges', k) = Failing(changed, edges', k)
                                          + IF <<j, k>> \in edges' THEN 1 ELSE 0
      <4>1. \A E, i : Failing(Propagate(j, FALSE) \o changed, E, i)
                         = Failing(changed, E, i) + IF <<j, i>> \in E THEN 1 ELSE 0
        BY <1>1, FailingAnew
      <4>. QED BY <2>3, <4>1 DEF Killed
    <3>2. <<j, k>> \in edges' <=> j \in DepsOf(k)
      BY <1>0, <2>1
    <3>3. Failing(changed, edges', k) \in Nat
          /\ Failing(calls, edges, k) <= Failing(changed, edges', k)
      BY <1>1, <1>5, UntoldOfFinite
    <3>4. dep_rt[k].failure + Failing(calls, edges, k) + (IF j \in DepsOf(k) THEN 1 ELSE 0)
             <= dep_rt'[k].failure + Failing(calls', edges', k)
      BY <2>2, <3>1, <3>2, <3>3
    <3>5. \A d \in Jobs : d # j /\ state'[d] \in Unsuccessful => state[d] \in Unsuccessful
      BY <1>2
    <3>. QED BY <1>0, <2>1, <3>4, <3>5, FailureKept
  <2>4. CASE state' = st /\ calls' \in {changed, same}
    <3>1. Failing(calls, edges, k) <= Failing(calls', edges', k)
      BY <1>1, <1>5, <2>4
    <3>2. NoJob \notin DepsOf(k)
      BY DepsAreJobs, JobsAssumption
    <3>3. dep_rt[k].failure + Failing(calls, edges, k) + (IF NoJob \in DepsOf(k) THEN 1 ELSE 0)
             <= dep_rt'[k].failure + Failing(calls', edges', k)
      BY <1>3, <2>2, <3>1, <3>2
    <3>4. \A d \in Jobs : state'[d] \in Unsuccessful => state[d] \in Unsuccessful
      BY <1>1, <2>4 DEF Unsuccessful
    <3>. QED BY <1>0, <2>1, <3>3, <3>4, FailureKept
  <2>. QED BY <1>2, <2>3, <2>4
<1>. QED BY <1>4, <1>5 DEF FailuresSound

(* Whoever waits after another step waited before it for the same, and has heard as much. *)
LEMMA OtherFailures ==
    ASSUME TypeOK, TypeOK', FailuresSound, DepsKept,
           \A k \in Jobs : state'[k] \in {"Queued", "Hold"} =>
              /\ state[k] \in {"Queued", "Hold"}
              /\ dep_rt[k].failure + Failing(calls, edges, k)
                    <= dep_rt'[k].failure + Failing(calls', edges', k),
           \A d \in Jobs : state'[d] \in Unsuccessful => state[d] \in Unsuccessful
    PROVE  FailuresSound'
<1>. SUFFICES ASSUME NEW k \in Jobs, state'[k] \in {"Queued", "Hold"}
              PROVE  Cardinality(Bad(k)') <= dep_rt'[k].failure + Failing(calls', edges', k)
  BY DEF FailuresSound
<1>1. NoJob \notin DepsOf(k)
  BY DepsAreJobs, JobsAssumption
<1>2. dep_rt[k].failure \in Nat /\ Failing(calls, edges, k) \in Nat
  BY UntoldOfFinite DEF TypeOK, Counters
<1>3. dep_rt[k].failure + Failing(calls, edges, k) + (IF NoJob \in DepsOf(k) THEN 1 ELSE 0)
         <= dep_rt'[k].failure + Failing(calls', edges', k)
  BY <1>1, <1>2
<1>. QED BY <1>3, FailureKept DEF DepsKept

(* The failures stay counted, or to be told.  *)
LEMMA FailuresStep ==
    ASSUME HeldUntilReleased, Core, FailuresSound, [Next]_vars
    PROVE  FailuresSound'
<1>. USE NamesType DEF Core
<1>0. TypeOK' /\ \A d, k \in Jobs : <<d, k>> \in edges' <=> d \in DepsOf(k)'
  BY EdgesAfter
<1>1. /\ state \in [Jobs -> States] /\ dep_rt \in [Jobs -> Counters] /\ calls \in Seq(Walk)
      /\ \A k \in Jobs : /\ dep_rt[k].failure \in Nat
                         /\ Failing(calls, edges, k) \in Nat
                         /\ Failing(calls', edges', k) \in Nat
  BY <1>0, UntoldOfFinite DEF TypeOK, Counters
<1>2. CASE Refreshes
  BY <1>2, RefreshFailures DEF Refreshes
<1>3. CASE WalksOn
  <2>1. DepsKept /\ state' = state /\ dep_rt' = dep_rt
    BY <1>3, SpecKept DEF WalksOn
  <2>2. \A k \in Jobs : dep_rt[k].failure + Failing(calls, edges, k)
                           <= dep_rt'[k].failure + Failing(calls', edges', k)
    BY <1>1, <1>3, <2>1 DEF WalksOn
  <2>. QED BY <1>0, <2>1, <2>2, OtherFailures
<1>4. ASSUME spec' = spec, edges' = edges, calls' = calls, dep_rt' = dep_rt,
             \A k \in Jobs : /\ state'[k] \in {"Queued", "Hold"} => state[k] \in {"Queued", "Hold"}
                             /\ state'[k] \in Unsuccessful => state[k] \in Unsuccessful
      PROVE  FailuresSound'
  <2>1. DepsKept
    BY <1>4, SpecKept
  <2>. QED BY <1>0, <1>1, <1>4, <2>1, OtherFailures
<1>5. ASSUME NEW j \in Jobs, Hold(j) PROVE FailuresSound'
  <2>1. state[j] = "Queued" /\ state' = Moved({j}, "Hold")
    BY <1>1, <1>5 DEF Hold, CanTransitionTo, Ended
  <2>. QED BY <1>1, <1>4, <1>5, <2>1 DEF Hold, Moved, Unsuccessful
<1>6. ASSUME NEW j \in Jobs, NEW final \in Ended, NEW why, End(j, final, why)
      PROVE  FailuresSound'
  <2>1. /\ Unlocked /\ state' = Moved({j}, final) /\ dep_rt' = dep_rt /\ edges' = edges
        /\ calls' = Propagate(j, final = "Finished") /\ spec' = spec
    BY <1>6 DEF End
  <2>2. DepsKept
    BY <2>1, SpecKept
  <2>3. \A k \in Jobs : Failing(calls, edges, k) = 0
    BY <2>1, FailingNone DEF Unlocked
  <2>4. \A k \in Jobs : k # j => state'[k] = state[k]
    BY <1>1, <2>1 DEF Moved
  <2>5. state'[j] = final
    BY <2>1 DEF Moved
  <2>6. CASE final = "Finished"
    <3>1. \A k \in Jobs : /\ state'[k] \in {"Queued", "Hold"} => state[k] \in {"Queued", "Hold"}
                          /\ state'[k] \in Unsuccessful => state[k] \in Unsuccessful
      BY <2>4, <2>5, <2>6 DEF Unsuccessful
    <3>2. \A k \in Jobs : dep_rt[k].failure + Failing(calls, edges, k)
                             <= dep_rt'[k].failure + Failing(calls', edges', k)
      BY <1>1, <2>1, <2>3
    <3>. QED BY <1>0, <2>2, <3>1, <3>2, OtherFailures
  <2>7. CASE final # "Finished"
    <3>1. \A k \in Jobs : Failing(calls', edges', k) = IF <<j, k>> \in edges THEN 1 ELSE 0
      <4>1. (final = "Finished") = FALSE
        BY <2>7
      <4>2. calls' = Propagate(j, FALSE) /\ Propagate(j, FALSE) \in Seq(Walk)
        BY <2>1, <4>1, NewWalks
      <4>3. calls' = Propagate(j, FALSE) \o calls
        <5>1. calls = <<>>
          BY <2>1 DEF Unlocked
        <5>2. calls' \o <<>> = calls'
          BY <4>2
        <5>. QED BY <4>2, <5>1, <5>2
      <4>4. \A E, k : Failing(Propagate(j, FALSE) \o calls, E, k)
                         = Failing(calls, E, k) + IF <<j, k>> \in E THEN 1 ELSE 0
        BY <1>1, FailingAnew
      <4>5. \A k \in Jobs : Failing(calls', edges', k)
                               = Failing(calls, edges, k) + IF <<j, k>> \in edges THEN 1 ELSE 0
        BY <2>1, <4>3, <4>4
      <4>. QED BY <2>3, <4>5
    <3>2. ASSUME NEW k \in Jobs, state'[k] \in {"Queued", "Hold"}
          PROVE  Cardinality(Bad(k)') <= dep_rt'[k].failure + Failing(calls', edges', k)
      <4>1. k # j /\ state[k] \in {"Queued", "Hold"}
        BY <2>4, <2>5, <3>2 DEF Ended
      <4>2. <<j, k>> \in edges <=> j \in DepsOf(k)
        BY <1>0, <2>1, <2>2 DEF DepsKept
      <4>3. dep_rt[k].failure + Failing(calls, edges, k) + (IF j \in DepsOf(k) THEN 1 ELSE 0)
               <= dep_rt'[k].failure + Failing(calls', edges', k)
        BY <1>1, <2>1, <2>3, <3>1, <4>2
      <4>4. \A d \in Jobs : d # j /\ state'[d] \in Unsuccessful => state[d] \in Unsuccessful
        BY <2>4
      <4>. QED BY <1>0, <2>2, <4>1, <4>3, <4>4, FailureKept DEF DepsKept
    <3>. QED BY <3>2 DEF FailuresSound
  <2>. QED BY <2>6, <2>7
<1>7. ASSUME NEW j \in Jobs, Cancel(j) \/ Finish(j) \/ Fail(j) PROVE FailuresSound'
  BY <1>6, <1>7 DEF Cancel, Finish, Fail, Ended
<1>8. ASSUME NEW j \in Jobs, Tick(j) PROVE FailuresSound'
  <2>1. DepsKept
    BY <1>8, SpecBegin DEF Tick
  <2>2. state' = state /\ dep_rt' = dep_rt /\ calls' = calls /\ edges' = edges
    BY <1>8 DEF Tick
  <2>. QED BY <1>0, <1>1, <2>1, <2>2, OtherFailures
<1>9. ASSUME NEW j \in Jobs, PropagateTo(j) PROVE FailuresSound'
  <2>1. /\ spec' = spec /\ edges' = edges
        /\ \A k \in Jobs : k # j => dep_rt'[k] = dep_rt[k]
        /\ ToldOfSuccess(j) \/ ToldOfFailure(j) \/ DoomedBy(j)
    BY <1>9, PropagateEffect
  <2>2. DepsKept
    BY <2>1, SpecKept
  <2>3. CASE ToldOfSuccess(j)
    <3>1. \A k \in Jobs : dep_rt[k].failure + Failing(calls, edges, k)
                             <= dep_rt'[k].failure + Failing(calls', edges', k)
      BY <1>1, <2>1, <2>3 DEF ToldOfSuccess
    <3>. QED BY <1>0, <2>2, <2>3, <3>1, OtherFailures DEF ToldOfSuccess
  <2>4. CASE ToldOfFailure(j)
    <3>1. \A k \in Jobs : dep_rt[k].failure + Failing(calls, edges, k)
                             <= dep_rt'[k].failure + Failing(calls', edges', k)
      BY <1>1, <2>1, <2>4 DEF ToldOfFailure
    <3>. QED BY <1>0, <2>2, <2>4, <3>1, OtherFailures DEF ToldOfFailure
  <2>5. CASE DoomedBy(j)
    <3>1. state'[j] = "Cancelled" /\ \A k \in Jobs : k # j => state'[k] = state[k]
      BY <1>1, <2>5 DEF DoomedBy, Moved
    <3>2. ASSUME NEW k \in Jobs, state'[k] \in {"Queued", "Hold"}
          PROVE  Cardinality(Bad(k)') <= dep_rt'[k].failure + Failing(calls', edges', k)
      <4>1. k # j /\ state[k] \in {"Queued", "Hold"} /\ dep_rt'[k] = dep_rt[k]
        BY <2>1, <3>1, <3>2
      <4>2. <<j, k>> \in edges <=> j \in DepsOf(k)
        BY <1>0, <2>1, <2>2 DEF DepsKept
      <4>3. dep_rt[k].failure + Failing(calls, edges, k) + (IF j \in DepsOf(k) THEN 1 ELSE 0)
               <= dep_rt'[k].failure + Failing(calls', edges', k)
        BY <1>1, <2>5, <4>1, <4>2 DEF DoomedBy
      <4>4. \A d \in Jobs : d # j /\ state'[d] \in Unsuccessful => state[d] \in Unsuccessful
        BY <3>1
      <4>. QED BY <1>0, <2>2, <4>1, <4>3, <4>4, FailureKept DEF DepsKept
    <3>. QED BY <3>2 DEF FailuresSound
  <2>. QED BY <2>1, <2>3, <2>4, <2>5
<1>10. CASE ReleaseDue
  BY <1>4, <1>10 DEF ReleaseDue
<1>11. CASE Pass
  <2>1. PICK S \in SUBSET Runnable : state' = Moved(S, "Running")
    BY <1>11 DEF Pass
  <2>. QED BY <1>1, <1>4, <1>11, <2>1 DEF Pass, Moved, Unsuccessful
<1>12. CASE Restart
  <2>1. /\ Unlocked /\ state' = state /\ spec' = spec /\ calls' = calls
        /\ dep_rt' = [j \in Jobs |-> IF state[j] = "Absent" THEN NoCounters
                                     ELSE Build(spec[j], state)]
    BY <1>12 DEF Restart
  <2>2. ASSUME NEW k \in Jobs, state'[k] \in {"Queued", "Hold"}
        PROVE  Cardinality(Bad(k)') <= dep_rt'[k].failure + Failing(calls', edges', k)
    <3>1. /\ Bad(k)' = {d \in DepsIn(spec[k]) : state[d] \in Unsuccessful}
      BY <2>1 DEF Bad, DepsOf, Unsuccessful
    <3>2. spec[k] \in Plan /\ DepsIn(spec[k]) \in SUBSET Jobs
      BY DepsAreJobs, DepsType
    <3>3. dep_rt'[k] = Build(spec[k], state)
      BY <2>1, <2>2
    <3>. DEFINE B == {d \in DepsIn(spec[k]) : state[d] \in Unsuccessful}
    <3>4. dep_rt'[k].failure = Listed(spec[k], B) /\ B \in SUBSET Jobs
      BY <1>1, <3>2, <3>3, BuildVerdict
    <3>5. Bad(k)' = B
      BY <3>1
    <3>. HIDE DEF B
    <3>6. Cardinality(B) \in Nat /\ Listed(spec[k], B) \in Nat
          /\ Cardinality(B) <= Listed(spec[k], B)
      BY <3>2, <3>4, ListedType
    <3>. QED BY <1>1, <3>4, <3>5, <3>6
  <2>. QED BY <2>2 DEF FailuresSound
<1>13. CASE Return
  <2>1. /\ ~Unlocked /\ top.left = {} /\ calls' = rest /\ spec' = spec /\ edges' = edges
        /\ dep_rt' = dep_rt
        /\ IF top.kind = "retry" THEN state' = Moved({top.old}, "Failed")
                                 ELSE top.work = <<>> /\ state' = state
    BY <1>13 DEF Return
  <2>2. DepsKept
    BY <2>1, SpecKept
  <2>3. \A k \in Jobs : Failing(calls, edges, k) = Failing(calls', edges', k)
    <3>1. top \in Walk /\ \A k \in Jobs : Untold(top, edges, k) = {}
      <4>1. top \in Walk
        BY <1>1, <2>1, StackType
      <4>2. CASE top.kind # "propagate"
        BY <4>1, <4>2 DEF Untold
      <4>3. CASE top.kind = "propagate"
        <5>1. top.work = <<>> /\ Len(top.work) = 0
          BY <2>1, <4>3
        <5>2. 0 .. Len(top.work) = {0}
          BY <5>1
        <5>. QED BY <2>1, <4>1, <5>2 DEF Untold
      <4>. QED BY <4>2, <4>3, <4>1
    <3>2. \A k \in Jobs : FailingIn(top, edges, k) = 0
      BY <3>1, FS_EmptySet DEF FailingIn
    <3>. QED BY <1>1, <2>1, <3>2, FailingTop
  <2>4. CASE top.kind # "retry"
    BY <1>0, <1>1, <2>1, <2>2, <2>3, <2>4, OtherFailures
  <2>5. CASE top.kind = "retry"
    <3>1. /\ state' = Moved({top.old}, "Failed") /\ top.old \in Jobs
          /\ state[top.old] = "Running"
          /\ \A k \in Jobs : k # top.old => state'[k] = state[k]
          /\ state'[top.old] = "Failed"
      BY <1>1, <2>1, <2>5, RetryTop DEF Moved
    <3>2. ASSUME NEW k \in Jobs, state'[k] \in {"Queued", "Hold"}
          PROVE  Cardinality(Bad(k)') <= dep_rt'[k].failure + Failing(calls', edges', k)
      <4>1. k # top.old /\ state[k] \in {"Queued", "Hold"}
        BY <3>1, <3>2
      <4>2. top.old \notin DepsOf(k)
        BY <2>1, <2>5, <3>1, <4>1, RetryTakesStep DEF In
      <4>. DEFINE o == top.old
      <4>3. dep_rt[k].failure + Failing(calls, edges, k) + (IF o \in DepsOf(k) THEN 1 ELSE 0)
               <= dep_rt'[k].failure + Failing(calls', edges', k)
        BY <1>1, <2>1, <2>3, <4>2
      <4>4. \A d \in Jobs : d # o /\ state'[d] \in Unsuccessful => state[d] \in Unsuccessful
        BY <3>1
      <4>. HIDE DEF o
      <4>. QED BY <1>0, <2>2, <4>1, <4>3, <4>4, FailureKept DEF DepsKept
    <3>. QED BY <3>2 DEF FailuresSound
  <2>. QED BY <2>4, <2>5
<1>. QED
  BY <1>2, <1>3, <1>5, <1>7, <1>8, <1>9, <1>10, <1>11, <1>12, <1>13, Kinds DEF OtherStep

(* Counters rt, of a job that needs its dependencies in that mode, leave hope.  *)
Hoping(rt, mode) ==
    \/ rt.total = 0
    \/ mode = "All" /\ rt.failure = 0
    \/ mode = "Any" /\ (rt.success > 0 \/ rt.failure < rt.total)

(* A queued job that is cancelled when there is none has hope.  *)
HopesSound ==
    \A k \in Jobs : state[k] = "Queued" /\ spec[k].auto => Hoping(dep_rt[k], spec[k].mode)

(* Counters that are built afresh leave hope when they do not say it is impossible.  *)
LEMMA BuildHopes ==
    ASSUME NEW sp \in Plan, NEW st \in [Jobs -> States], ~Build(sp, st).impossible
    PROVE  Hoping(Build(sp, st), sp.mode)
<1>. DEFINE D == DepsIn(sp)
            rt == Build(sp, st)
            F == {d \in D : st[d] \in Unsuccessful}
            G == {d \in D : st[d] = "Finished"}
            t == Listed(sp, D)
<1>1. /\ rt = Judged(sp.mode, t, rt.success, rt.failure)
      /\ rt.success = Listed(sp, G) /\ rt.failure = Listed(sp, F)
  BY BuildVerdict
<1>2. D \in SUBSET Jobs /\ F \in SUBSET D /\ G \in SUBSET D /\ sp.mode \in {"All", "Any"}
  BY DepsType DEF Plan
<1>. HIDE DEF D, F, G, rt
<1>3. t \in Nat /\ rt.failure \in Nat /\ rt.success \in Nat /\ rt.failure <= t
  BY <1>1, <1>2, ListedType, ListedWhole
<1>. HIDE DEF t
<1>4. rt.total = t
  BY <1>1, <1>3, JudgedType
<1>5. ~rt.impossible
  BY DEF rt
<1>6. Judged(sp.mode, t, rt.success, rt.failure).impossible <=>
         /\ t # 0
         /\ \/ sp.mode = "All" /\ rt.failure > 0
            \/ sp.mode = "Any" /\ rt.success = 0 /\ rt.failure = t
  BY <1>3, JudgedImpossible
<1>7. \/ t = 0 \/ (sp.mode = "All" /\ rt.failure = 0)
      \/ (sp.mode = "Any" /\ (rt.success > 0 \/ rt.failure < t))
  BY <1>1, <1>2, <1>3, <1>5, <1>6
<1>. QED BY <1>4, <1>7 DEF Hoping, rt

(* Verdicts that say it is impossible leave none.  *)
LEMMA ImpossibleIsHopeless ==
    ASSUME Core, NEW k \in Jobs, state[k] # "Absent", Hoping(dep_rt[k], spec[k].mode)
    PROVE  ~dep_rt[k].impossible
<1>. USE DEF Core
<1>1. /\ dep_rt[k].total \in Nat /\ dep_rt[k].success \in Nat /\ dep_rt[k].failure \in Nat
  BY DEF TypeOK, Counters
<1>. DEFINE t == Listed(spec[k], DepsOf(k))
<1>2. t \in Nat /\ dep_rt[k] = Judged(spec[k].mode, t, dep_rt[k].success, dep_rt[k].failure)
  BY DepsAreJobs, ListedType DEF VerdictsSound
<1>. HIDE DEF t
<1>3. dep_rt[k].total = t
  BY <1>1, <1>2, JudgedType
<1>4. Judged(spec[k].mode, t, dep_rt[k].success, dep_rt[k].failure).impossible <=>
         /\ t # 0
         /\ \/ spec[k].mode = "All" /\ dep_rt[k].failure > 0
            \/ spec[k].mode = "Any" /\ dep_rt[k].success = 0 /\ dep_rt[k].failure = t
  BY <1>1, <1>2, JudgedImpossible
<1>5. ~(/\ t # 0
        /\ \/ spec[k].mode = "All" /\ dep_rt[k].failure > 0
           \/ spec[k].mode = "Any" /\ dep_rt[k].success = 0 /\ dep_rt[k].failure = t)
  BY <1>1, <1>2, <1>3 DEF Hoping
<1>. QED BY <1>2, <1>4, <1>5

(* One more end leaves hope, if the verdict does not become that it is impossible.  *)
LEMMA CountHopes ==
    ASSUME NEW rt \in Counters, NEW mode \in {"All", "Any"}, NEW success \in BOOLEAN,
           Hoping(rt, mode), ~Count(rt, mode, success).impossible
    PROVE  Hoping(Count(rt, mode, success), mode)
<1>. DEFINE ok == IF success THEN rt.success + 1 ELSE rt.success
            bad == IF success THEN rt.failure ELSE rt.failure + 1
            new == Count(rt, mode, success)
<1>1. rt.total \in Nat /\ rt.success \in Nat /\ rt.failure \in Nat /\ ok \in Nat /\ bad \in Nat
  BY DEF Counters
<1>2. new = Judged(mode, rt.total, ok, bad)
  BY DEF Count
<1>3. \/ success /\ ok = rt.success + 1 /\ bad = rt.failure
      \/ ~success /\ ok = rt.success /\ bad = rt.failure + 1
  OBVIOUS
<1>. HIDE DEF ok, bad
<1>4. new.total = rt.total /\ new.success = ok /\ new.failure = bad
  BY <1>1, <1>2, JudgedType
<1>5. new.impossible <=> /\ rt.total # 0
                         /\ \/ mode = "All" /\ bad > 0
                            \/ mode = "Any" /\ ok = 0 /\ bad = rt.total
  BY <1>1, <1>2, JudgedImpossible
<1>. HIDE DEF new
<1>6. ~new.impossible
  BY DEF new
<1>7. Hoping(new, mode)
  BY <1>1, <1>3, <1>4, <1>5, <1>6 DEF Hoping
<1>. QED BY <1>7 DEF new

(* Who has hope keeps it, or is cancelled.  *)
LEMMA HopesStep ==
    ASSUME HeldUntilReleased, Core, HopesSound, NoHopelessJob, [Next]_vars
    PROVE  HopesSound'
<1>. USE NamesType DEF Core
<1>0. /\ state \in [Jobs -> States] /\ dep_rt \in [Jobs -> Counters] /\ spec \in [Jobs -> Plan]
      /\ calls \in Seq(Walk)
  BY DEF TypeOK
<1>1. ASSUME \A k \in Jobs : state'[k] = "Queued" =>
                 /\ state[k] = "Queued" /\ dep_rt'[k] = dep_rt[k]
                 /\ spec'[k].mode = spec[k].mode /\ spec'[k].auto = spec[k].auto
      PROVE  HopesSound'
  BY <1>1 DEF HopesSound, Hoping
<1>2. ASSUME NEW j \in Jobs, NEW st, NEW sp, NEW why, NEW changed, NEW same,
             RefreshStep(j, st, sp, why, changed, same)
      PROVE  HopesSound'
  <2>1. /\ spec' = sp /\ dep_rt'[j] = Build(sp[j], st)
        /\ \A k \in Jobs : k # j => /\ state'[k] = state[k] /\ spec'[k] = spec[k]
                                    /\ dep_rt'[k] = dep_rt[k]
        /\ Killed(j, st, changed) \/ Spared(j, st, sp, why, changed, same)
    BY <1>2, RefreshEffect
  <2>2. st \in [Jobs -> States] /\ sp \in [Jobs -> Plan]
    BY <1>2 DEF RefreshStep
  <2>3. ASSUME state'[j] = "Queued", spec'[j].auto
        PROVE  Hoping(dep_rt'[j], spec'[j].mode)
    <3>1. Spared(j, st, sp, why, changed, same)
      BY <2>1, <2>2, <2>3 DEF Killed
    <3>2. ~Build(sp[j], st).impossible
      BY <2>1, <2>3, <3>1 DEF Spared
    <3>. QED BY <2>1, <2>2, <3>2, BuildHopes
  <2>4. ASSUME NEW k \in Jobs, k # j, state'[k] = "Queued", spec'[k].auto
        PROVE  Hoping(dep_rt'[k], spec'[k].mode)
    BY <2>1, <2>4 DEF HopesSound
  <2>5. \A k \in Jobs : state'[k] = "Queued" /\ spec'[k].auto => Hoping(dep_rt'[k], spec'[k].mode)
    BY <2>3, <2>4
  <2>. QED BY <2>5 DEF HopesSound, Hoping
<1>3. CASE Refreshes
  BY <1>2, <1>3 DEF Refreshes
<1>4. CASE WalksOn
  BY <1>1, <1>4 DEF WalksOn
<1>5. ASSUME NEW j \in Jobs, Hold(j) PROVE HopesSound'
  BY <1>0, <1>1, <1>5 DEF Hold, Moved
<1>6. ASSUME NEW j \in Jobs, NEW final \in Ended, NEW why, End(j, final, why) PROVE HopesSound'
  BY <1>0, <1>1, <1>6 DEF End, Moved, Ended
<1>7. ASSUME NEW j \in Jobs, Cancel(j) \/ Finish(j) \/ Fail(j) PROVE HopesSound'
  BY <1>6, <1>7 DEF Cancel, Finish, Fail, Ended
<1>8. ASSUME NEW j \in Jobs, Tick(j) PROVE HopesSound'
  BY <1>1, <1>8, SpecBegin DEF Tick
<1>9. ASSUME NEW j \in Jobs, PropagateTo(j) PROVE HopesSound'
  <2>. DEFINE rt == Count(dep_rt[j], spec[j].mode, top.success)
  <2>1. /\ spec' = spec /\ dep_rt' = [dep_rt EXCEPT ![j] = rt]
        /\ \/ state' = Moved({j}, "Cancelled")
           \/ /\ ~(state[j] = "Queued" /\ spec[j].auto /\ rt.impossible /\ ~dep_rt[j].impossible)
              /\ state' = state
    BY <1>9 DEF PropagateTo
  <2>2. top.success \in BOOLEAN
    <3>1. ~Unlocked /\ top.kind = "propagate"
      BY <1>9 DEF PropagateTo, In
    <3>2. top \in PropagateWalk
      BY <1>0, <3>1, StackType, WalkKinds
    <3>. QED BY <3>2 DEF PropagateWalk
  <2>3. spec[j].mode \in {"All", "Any"} /\ dep_rt[j] \in Counters
    BY <1>0 DEF Plan
  <2>4. dep_rt'[j] = rt /\ \A k \in Jobs : k # j => dep_rt'[k] = dep_rt[k]
    BY <1>0, <2>1
  <2>. HIDE DEF rt
  <2>5. ASSUME state'[j] = "Queued", spec[j].auto PROVE Hoping(rt, spec[j].mode)
    <3>1. state[j] = "Queued" /\ (rt.impossible => dep_rt[j].impossible)
      BY <1>0, <2>1, <2>5 DEF Moved
    <3>2. Hoping(dep_rt[j], spec[j].mode)
      BY <2>5, <3>1 DEF HopesSound
    <3>3. ~rt.impossible
      BY <3>1, <3>2, ImpossibleIsHopeless
    <3>. QED BY <2>2, <2>3, <3>2, <3>3, CountHopes DEF rt
  <2>6. \A k \in Jobs : state'[k] = "Queued" => state[k] = "Queued"
    BY <1>0, <2>1 DEF Moved
  <2>7. \A k \in Jobs : state'[k] = "Queued" /\ spec'[k].auto => Hoping(dep_rt'[k], spec'[k].mode)
    BY <2>1, <2>4, <2>5, <2>6 DEF HopesSound
  <2>. QED BY <2>7 DEF HopesSound, Hoping
<1>10. CASE ReleaseDue
  BY <1>1, <1>10 DEF ReleaseDue
<1>11. CASE Pass
  <2>1. PICK S \in SUBSET Runnable : state' = Moved(S, "Running")
    BY <1>11 DEF Pass
  <2>. QED BY <1>0, <1>1, <1>11, <2>1 DEF Pass, Moved
<1>12. CASE Restart
  <2>1. /\ Unlocked /\ state' = state /\ spec' = spec
        /\ dep_rt' = [j \in Jobs |-> IF state[j] = "Absent" THEN NoCounters
                                     ELSE Build(spec[j], state)]
    BY <1>12 DEF Restart
  <2>2. ASSUME NEW k \in Jobs, state[k] = "Queued", spec[k].auto
        PROVE  Hoping(dep_rt'[k], spec[k].mode)
    <3>. DEFINE D == DepsOf(k)
                F == Bad(k)
                G == Done(k)
                rt == Build(spec[k], state)
                t == Listed(spec[k], D)
    <3>1. dep_rt'[k] = rt
      BY <2>1, <2>2
    <3>2. rt = Judged(spec[k].mode, t, rt.success, rt.failure)
      BY <1>0, BuildVerdict DEF DepsOf
    <3>3. rt.success = Listed(spec[k], G)
      BY <1>0, BuildVerdict DEF DepsOf, Done
    <3>4. rt.failure = Listed(spec[k], F)
      BY <1>0, BuildVerdict DEF DepsOf, Bad
    <3>5. /\ D \in SUBSET Jobs /\ F \in SUBSET D /\ G \in SUBSET D
          /\ F \in SUBSET Jobs /\ G \in SUBSET Jobs
          /\ spec[k] \in Plan /\ spec[k].mode \in {"All", "Any"}
      BY DepsAreJobs DEF Bad, Done, Plan
    <3>6. ~Hopeless(k)
      BY <2>1, <2>2 DEF NoHopelessJob
    <3>7. \/ D = {} \/ (spec[k].mode = "All" /\ F = {})
          \/ (spec[k].mode = "Any" /\ F # D)
      BY <3>5, <3>6 DEF Hopeless, Bad, Unsuccessful, Ended
    <3>. HIDE DEF D, F, G, rt
    <3>8. /\ t \in Nat /\ rt.success \in Nat /\ rt.failure \in Nat /\ rt.failure <= t
          /\ rt.failure = t => F = D
          /\ D = {} => t = 0
          /\ F = {} => rt.failure = 0
      BY <3>3, <3>4, <3>5, ListedType, ListedWhole
    <3>. HIDE DEF t
    <3>9. rt.total = t
      BY <3>2, <3>8, JudgedType
    <3>10. Hoping(rt, spec[k].mode)
      BY <3>7, <3>8, <3>9 DEF Hoping
    <3>. QED BY <3>1, <3>10
  <2>3. \A k \in Jobs : state'[k] = "Queued" /\ spec'[k].auto => Hoping(dep_rt'[k], spec'[k].mode)
    BY <2>1, <2>2
  <2>. QED BY <2>3 DEF HopesSound, Hoping
<1>13. CASE Return
  <2>1. spec' = spec /\ dep_rt' = dep_rt
        /\ (state' = Moved({top.old}, "Failed") \/ state' = state)
    BY <1>13 DEF Return
  <2>. QED BY <1>0, <1>1, <2>1 DEF Moved
<1>. QED
  BY <1>3, <1>4, <1>5, <1>7, <1>8, <1>9, <1>10, <1>11, <1>12, <1>13, Kinds DEF OtherStep

(* When the lock is free, who has hope is right.  *)
LEMMA HopesMeanHope ==
    ASSUME Core, CountersSound, NoAgain, FailuresSound, HopesSound
    PROVE  NoHopelessJob
<1>. USE NamesType DEF Core
<1>. SUFFICES ASSUME Unlocked, NEW k \in Jobs, state[k] = "Queued", spec[k].auto, Hopeless(k)
              PROVE  FALSE
  BY DEF NoHopelessJob
<1>. DEFINE D == DepsOf(k)
            F == Bad(k)
            G == Done(k)
            t == Listed(spec[k], D)
<1>1. /\ D \in SUBSET Jobs /\ F \in SUBSET D /\ F \in SUBSET Jobs /\ G \in SUBSET D
      /\ G \in SUBSET Jobs /\ spec[k] \in Plan /\ spec[k].again = {}
      /\ dep_rt[k].success \in Nat /\ dep_rt[k].failure \in Nat
  BY DepsAreJobs DEF Bad, Done, NoAgain, TypeOK, Counters
<1>2. /\ D # {}
      /\ \/ spec[k].mode = "All" /\ F # {}
         \/ spec[k].mode = "Any" /\ F = D /\ G = {}
  BY <1>1 DEF Hopeless, Bad, Done, Unsuccessful, Ended
<1>3. Cardinality(F) <= dep_rt[k].failure
  <2>1. Failing(calls, edges, k) = 0
    BY FailingNone DEF Unlocked
  <2>2. Cardinality(F) <= dep_rt[k].failure + 0
    BY <2>1 DEF FailuresSound
  <2>. QED BY <1>1, <2>2
<1>4. dep_rt[k].success = Cardinality(G)
  BY CountersMeanReady
<1>5. Hoping(dep_rt[k], spec[k].mode)
  BY DEF HopesSound
<1>6. dep_rt[k] = Judged(spec[k].mode, t, dep_rt[k].success, dep_rt[k].failure)
  BY DEF VerdictsSound
<1>. HIDE DEF D, F, G
<1>7. /\ t = Cardinality(D) /\ t \in Nat /\ t # 0
      /\ Cardinality(F) \in Nat
      /\ F # {} => Cardinality(F) # 0
  <2>1. /\ t \in Nat /\ t = Cardinality(D) /\ (t = 0 <=> D = {})
    BY <1>1, ListedType
  <2>2. Cardinality(F) \in Nat /\ Listed(spec[k], F) = Cardinality(F)
        /\ (Listed(spec[k], F) = 0 <=> F = {})
    BY <1>1, ListedType
  <2>. QED BY <1>2, <2>1, <2>2
<1>. HIDE DEF t
<1>8. dep_rt[k].total = t
  BY <1>1, <1>6, <1>7, JudgedType
<1>9. G = {} => dep_rt[k].success = 0
  BY <1>4, FS_EmptySet
<1>. QED BY <1>1, <1>2, <1>3, <1>5, <1>7, <1>8, <1>9 DEF Hoping

(* The entry of a job that is valid.  *)
Current(k) == [job |-> k, epoch |-> epoch[k], key |-> spec[k].key]

(* An edit of a priority or a time limit only raises the key: to one that no job exceeds.  *)
KeysRaised ==
    \A u \in DOMAIN Setups : \A x \in Setups[u].keys :
        /\ \A y \in Setups[u].keys : y <= x
        /\ \A j \in Jobs : \A p \in Setups[u].plans[j] : p.key <= x

(* Jobs with a begin time need all of their dependencies.  *)
TimedNeedAll ==
    \A u \in DOMAIN Setups : \A j \in Jobs : \A p \in Setups[u].plans[j] :
        p.begin # "none" \/ Setups[u].delayed # {}
            => p.mode = "All" /\ Setups[u].modes \subseteq {"All"}

(* No entry of the heap has a higher key than its job, and no job a higher one than an edit
   may give it.  *)
KeysSound ==
    /\ \A e \in heap : state[e.job] # "Absent" /\ e.key <= spec[e.job].key
    /\ \A k \in Jobs : \A x \in Allowed.keys : state[k] # "Absent" => spec[k].key <= x

(* A queued job that waits for its begin time says so.  *)
TimesSound ==
    \A k \in Jobs : state[k] = "Queued" /\ spec[k].begin = "future" => reason[k] = "BeginTime"

(* A job that has a begin time, or may get one, needs all of its dependencies.  *)
ModesSound ==
    \A k \in Jobs : state[k] # "Absent" /\ (spec[k].begin # "none" \/ Allowed.delayed # {})
        => spec[k].mode = "All" /\ Allowed.modes \subseteq {"All"}

(* A queued job that may run has a valid entry, or is due to be released.  *)
Findable ==
    \A k \in Jobs : state[k] = "Queued" /\ dep_rt[k].satisfied /\ spec[k].begin # "future"
        => Current(k) \in heap \/ k \in Due

(* What users may do is settled at the start.  *)
LEMMA SetupStays ==
    ASSUME [Next]_vars
    PROVE  setup' = setup /\ Allowed' = Allowed
<1>1. setup' = setup
  BY DEF Next, vars, Submit, Hold, Release, ReleaseAt, Cancel, Finish, Fail, End, Update, Tick,
         PropagateTo, WaveTo, Retarget, FailAndRetry, ReleaseDue, Pass, Restart, NextSource,
         NextWave, Return
<1>. QED BY <1>1 DEF Allowed

(* Keys grow, if at all.  *)
LEMMA KeysStep ==
    ASSUME HeldUntilReleased, KeysRaised, Core, KeysSound, [Next]_vars
    PROVE  KeysSound'
<1>. USE NamesType DEF Core
<1>0. /\ state \in [Jobs -> States] /\ spec \in [Jobs -> Plan] /\ Allowed' = Allowed
      /\ \A e \in heap : e.job \in Jobs /\ e.key \in Nat
      /\ Allowed.keys \subseteq Nat /\ \A k \in Jobs : spec[k].key \in Nat
  BY SetupsAssumption, SetupStays DEF TypeOK, Entry, Plan, Allowed
<1>1. ASSUME \A e \in heap' : \/ e \in heap
                              \/ /\ e.job \in Jobs /\ state[e.job] # "Absent"
                                 /\ e.key = spec[e.job].key,
             \A k \in Jobs : /\ state[k] # "Absent" <=> state'[k] # "Absent"
                             /\ spec'[k].key = spec[k].key
      PROVE  KeysSound'
  <2>1. ASSUME NEW e \in heap' PROVE state'[e.job] # "Absent" /\ e.key <= spec'[e.job].key
    BY <1>0, <1>1 DEF KeysSound
  <2>2. \A k \in Jobs : \A x \in Allowed.keys : state'[k] # "Absent" => spec'[k].key <= x
    BY <1>1 DEF KeysSound
  <2>. QED BY <1>0, <2>1, <2>2 DEF KeysSound
<1>2. ASSUME NEW j \in Jobs, NEW st, NEW sp, NEW why, NEW changed, NEW same,
             RefreshStep(j, st, sp, why, changed, same)
      PROVE  KeysSound'
  <2>1. /\ spec' = sp
        /\ \A k \in Jobs : k # j => state'[k] = state[k] /\ spec'[k] = spec[k]
        /\ Killed(j, st, changed) \/ Spared(j, st, sp, why, changed, same)
    BY <1>2, RefreshEffect
  <2>2. /\ st \in [Jobs -> States] /\ sp \in [Jobs -> Plan] /\ st[j] # "Absent"
        /\ Anew(j, sp[j]) \/ Reworked(j, sp[j])
    BY <1>2 DEF RefreshStep
  <2>3. state'[j] # "Absent" /\ sp[j].key \in Nat
    BY <2>1, <2>2 DEF Killed, Spared, Plan
  <2>4. state[j] # "Absent" => spec[j].key <= sp[j].key
    BY <1>0, <2>2 DEF Anew, Reworked, KeysSound
  <2>5. \A x \in Allowed.keys : sp[j].key <= x
    <3>1. CASE sp[j] \in Allowed.plans[j]
      BY <3>1 DEF KeysRaised, Allowed, TypeOK
    <3>2. ASSUME NEW i \in Jobs, state[i] # "Absent", sp[j].key = spec[i].key
          PROVE  \A x \in Allowed.keys : sp[j].key <= x
      BY <3>2 DEF KeysSound
    <3>3. CASE sp[j].key \in Allowed.keys
      BY <3>3 DEF KeysRaised, Allowed, TypeOK
    <3>. QED BY <2>2, <3>1, <3>2, <3>3 DEF Anew, Reworked
  <2>6. heap' \subseteq heap \cup {[job |-> j, epoch |-> epoch[j] + 1, key |-> sp[j].key]}
    BY <2>1 DEF Killed, Spared, Pushed
  <2>7. ASSUME NEW e \in heap' PROVE state'[e.job] # "Absent" /\ e.key <= spec'[e.job].key
    <3>1. CASE e \in heap
      <4>1. state[e.job] # "Absent" /\ e.key <= spec[e.job].key /\ e.job \in Jobs /\ e.key \in Nat
            /\ spec[e.job].key \in Nat
        BY <1>0, <3>1 DEF KeysSound
      <4>2. CASE e.job = j
        BY <2>1, <2>3, <2>4, <4>1, <4>2
      <4>3. CASE e.job # j
        BY <2>1, <4>1, <4>3
      <4>. QED BY <4>2, <4>3
    <3>2. CASE e = [job |-> j, epoch |-> epoch[j] + 1, key |-> sp[j].key]
      BY <2>1, <2>3, <3>2
    <3>. QED BY <2>6, <3>1, <3>2
  <2>8. \A k \in Jobs : \A x \in Allowed.keys : state'[k] # "Absent" => spec'[k].key <= x
    BY <2>1, <2>5 DEF KeysSound
  <2>. QED BY <1>0, <2>7, <2>8 DEF KeysSound
<1>3. CASE Refreshes
  BY <1>2, <1>3 DEF Refreshes
<1>4. CASE WalksOn
  BY <1>1, <1>4 DEF WalksOn
<1>5. ASSUME NEW j, state[j] # "Absent", NEW final, final # "Absent", state' = Moved({j}, final),
             spec' = spec, heap' = heap
      PROVE  KeysSound'
  BY <1>0, <1>1, <1>5 DEF Moved
<1>6. ASSUME NEW j \in Jobs, Hold(j) PROVE KeysSound'
  BY <1>0, <1>5, <1>6 DEF Hold, CanTransitionTo, Ended
<1>7. ASSUME NEW j \in Jobs, Cancel(j) \/ Finish(j) \/ Fail(j) PROVE KeysSound'
  <2>1. \A s \in States : s = "Absent" => CanTransitionTo[s] = {}
    BY DEF CanTransitionTo, Ended
  <2>2. state[j] # "Absent"
    BY <1>0, <1>7, <2>1 DEF Cancel, Finish, Fail, End
  <2>. QED BY <1>5, <1>7, <2>2 DEF Cancel, Finish, Fail, End
<1>8. ASSUME NEW j \in Jobs, Tick(j) PROVE KeysSound'
  <2>1. \A k \in Jobs : spec'[k].key = spec[k].key
    BY <1>8, SpecBegin DEF Tick
  <2>. QED BY <1>1, <1>8, <2>1 DEF Tick
<1>9. ASSUME NEW j \in Jobs, PropagateTo(j) PROVE KeysSound'
  <2>1. /\ spec' = spec
        /\ state' = state \/ (state[j] = "Queued" /\ state' = Moved({j}, "Cancelled"))
        /\ \/ heap' = heap
           \/ /\ state[j] = "Queued"
              /\ heap' = heap \cup {[job |-> j, epoch |-> epoch[j], key |-> spec[j].key]}
    BY <1>9 DEF PropagateTo, Pushed
  <2>2. \A k \in Jobs : state[k] # "Absent" <=> state'[k] # "Absent"
    BY <1>0, <2>1 DEF Moved
  <2>. QED BY <1>1, <2>1, <2>2
<1>10. CASE ReleaseDue
  <2>1. /\ state' = state /\ spec' = spec
        /\ \A e \in heap' : \/ e \in heap
                            \/ \E k \in Due : e.job = k /\ e.key = spec[k].key
    BY <1>10 DEF ReleaseDue
  <2>2. \A k \in Due : k \in Jobs /\ state[k] = "Queued"
    BY DEF Due
  <2>. QED BY <1>1, <2>1, <2>2
<1>11. CASE Pass
  <2>1. PICK S \in SUBSET Runnable :
           /\ state' = Moved(S, "Running")
           /\ heap' = {[job |-> j, epoch |-> epoch[j], key |-> spec[j].key] :
                          j \in {k \in Runnable \ S : spec[k].begin # "future"}}
    BY <1>11 DEF Pass
  <2>2. \A k \in Runnable : k \in Jobs /\ state[k] = "Queued"
    BY <1>0 DEF Runnable, Valid
  <2>3. spec' = spec /\ \A k \in Jobs : state[k] # "Absent" <=> state'[k] # "Absent"
    BY <1>0, <1>11, <2>1, <2>2 DEF Pass, Moved
  <2>4. \A e \in heap' : \E k \in Runnable : e.job = k /\ e.key = spec[k].key
    BY <2>1
  <2>. QED BY <1>1, <2>2, <2>3, <2>4
<1>12. CASE Restart
  <2>1. /\ state' = state /\ spec' = spec
        /\ \A e \in heap' : \E k \in Jobs : /\ e.job = k /\ e.key = spec[k].key
                                            /\ state[k] = "Queued"
    BY <1>12 DEF Restart
  <2>. QED BY <1>1, <2>1
<1>13. CASE Return
  <2>1. CASE top.kind = "retry"
    BY <1>5, <1>13, <2>1, RetryTop DEF Return
  <2>2. CASE top.kind # "retry"
    BY <1>1, <1>13, <2>2 DEF Return
  <2>. QED BY <2>1, <2>2
<1>. QED
  BY <1>3, <1>4, <1>6, <1>7, <1>8, <1>9, <1>10, <1>11, <1>12, <1>13, Kinds DEF OtherStep

(* A begin time stays the reason of who waits for it.  *)
LEMMA TimesStep ==
    ASSUME HeldUntilReleased, Core, HeapSound, TimesSound, [Next]_vars
    PROVE  TimesSound'
<1>. USE NamesType DEF Core
<1>0. /\ state \in [Jobs -> States] /\ spec \in [Jobs -> Plan] /\ reason \in [Jobs -> Reasons]
  BY DEF TypeOK
<1>1. ASSUME \A k \in Jobs : state'[k] = "Queued" /\ spec'[k].begin = "future" =>
                 \/ reason'[k] = "BeginTime"
                 \/ state[k] = "Queued" /\ spec[k].begin = "future" /\ reason'[k] = reason[k]
      PROVE  TimesSound'
  BY <1>1 DEF TimesSound
<1>2. ASSUME NEW j \in Jobs, NEW st, NEW sp, NEW why, NEW changed, NEW same,
             RefreshStep(j, st, sp, why, changed, same)
      PROVE  TimesSound'
  <2>1. /\ spec' = sp
        /\ \A k \in Jobs : k # j => state'[k] = state[k] /\ spec'[k] = spec[k]
                                    /\ reason'[k] = reason[k]
        /\ Killed(j, st, changed) \/ Spared(j, st, sp, why, changed, same)
    BY <1>2, RefreshEffect
  <2>2. st \in [Jobs -> States]
    BY <1>2 DEF RefreshStep
  <2>3. ASSUME state'[j] = "Queued", spec'[j].begin = "future" PROVE reason'[j] = "BeginTime"
    <3>1. Spared(j, st, sp, why, changed, same)
      BY <2>1, <2>2, <2>3 DEF Killed
    <3>2. st[j] = "Queued" /\ sp[j].begin = "future"
      BY <2>1, <2>3, <3>1 DEF Spared
    <3>3. WaitReason(st[j], sp[j], Build(sp[j], st)) = "BeginTime"
      BY <3>2 DEF WaitReason
    <3>. QED BY <3>1, <3>3 DEF Spared, Synced
  <2>. QED BY <1>1, <2>1, <2>3
<1>3. CASE Refreshes
  BY <1>2, <1>3 DEF Refreshes
<1>4. CASE WalksOn
  BY <1>1, <1>4 DEF WalksOn
<1>5. ASSUME NEW j \in Jobs, NEW final, final # "Queued", NEW why,
             state' = Moved({j}, final), reason' = Because({j}, why), spec' = spec
      PROVE  TimesSound'
  BY <1>0, <1>1, <1>5 DEF Moved, Because
<1>6. ASSUME NEW j \in Jobs, Hold(j) PROVE TimesSound'
  BY <1>5, <1>6 DEF Hold
<1>7. ASSUME NEW j \in Jobs, Cancel(j) \/ Finish(j) \/ Fail(j) PROVE TimesSound'
  BY <1>5, <1>7 DEF Cancel, Finish, Fail, End
<1>8. ASSUME NEW j \in Jobs, Tick(j) PROVE TimesSound'
  <2>1. \A k \in Jobs : spec'[k].begin = "future" => spec[k].begin = "future"
    BY <1>0, <1>8, SpecBegin DEF Tick, Plan
  <2>. QED BY <1>1, <1>8, <2>1 DEF Tick
<1>9. ASSUME NEW j \in Jobs, PropagateTo(j) PROVE TimesSound'
  <2>. DEFINE rt == Count(dep_rt[j], spec[j].mode, top.success)
  <2>1. /\ spec' = spec
        /\ \/ state' = Moved({j}, "Cancelled") /\ reason' = Because({j}, "DependencyFailed")
           \/ /\ state' = state
              /\ reason' = Because({j}, Synced(reason[j], WaitReason(state[j], spec[j], rt)))
    BY <1>9 DEF PropagateTo
  <2>. HIDE DEF rt
  <2>2. CASE state' = Moved({j}, "Cancelled") /\ reason' = Because({j}, "DependencyFailed")
    BY <1>5, <2>1, <2>2
  <2>3. CASE /\ state' = state
             /\ reason' = Because({j}, Synced(reason[j], WaitReason(state[j], spec[j], rt)))
    <3>1. \A k \in Jobs : k # j => reason'[k] = reason[k]
      BY <1>0, <2>3 DEF Because
    <3>2. ASSUME state[j] = "Queued", spec[j].begin = "future" PROVE reason'[j] = "BeginTime"
      <4>1. WaitReason(state[j], spec[j], rt) = "BeginTime"
        BY <3>2 DEF WaitReason
      <4>. QED BY <2>3, <4>1 DEF Because, Synced
    <3>. QED BY <1>1, <2>1, <2>3, <3>1, <3>2
  <2>. QED BY <2>1, <2>2, <2>3
<1>10. CASE ReleaseDue
  <2>1. \A k \in Jobs : spec[k].begin = "future" => k \notin Due
    BY DEF Due
  <2>. QED BY <1>1, <1>10, <2>1 DEF ReleaseDue
<1>11. CASE Pass
  <2>1. PICK S \in SUBSET Runnable :
           /\ state' = Moved(S, "Running")
           /\ reason' = [j \in Jobs |-> IF j \in S THEN "None"
                                        ELSE IF j \in Runnable \ S THEN "Resources"
                                        ELSE reason[j]]
    BY <1>11 DEF Pass
  <2>2. \A k \in Runnable : spec[k].begin # "future"
    BY DEF Runnable, Valid, HeapSound
  <2>3. spec' = spec /\ \A k \in Jobs : state'[k] = "Queued" => state[k] = "Queued"
    BY <1>0, <1>11, <2>1 DEF Pass, Moved
  <2>4. \A k \in Jobs : spec[k].begin = "future" => reason'[k] = reason[k]
    BY <2>1, <2>2
  <2>. QED BY <1>1, <2>3, <2>4
<1>12. CASE Restart
  <2>. DEFINE rt == [j \in Jobs |-> IF state[j] = "Absent" THEN NoCounters
                                    ELSE Build(spec[j], state)]
  <2>1. /\ spec' = spec /\ state' = state
        /\ reason' = [j \in Jobs |-> Synced(reason[j], WaitReason(state[j], spec[j], rt[j]))]
    BY <1>12 DEF Restart
  <2>. HIDE DEF rt
  <2>2. ASSUME NEW k \in Jobs, state[k] = "Queued", spec[k].begin = "future"
        PROVE  reason'[k] = "BeginTime"
    <3>1. WaitReason(state[k], spec[k], rt[k]) = "BeginTime"
      BY <2>2 DEF WaitReason
    <3>. QED BY <2>1, <3>1 DEF Synced
  <2>. QED BY <1>1, <2>1, <2>2
<1>13. CASE Return
  <2>1. CASE top.kind = "retry"
    BY <1>5, <1>13, <2>1, RetryTop DEF Return
  <2>2. CASE top.kind # "retry"
    BY <1>1, <1>13, <2>2 DEF Return
  <2>. QED BY <2>1, <2>2
<1>. QED
  BY <1>3, <1>4, <1>6, <1>7, <1>8, <1>9, <1>10, <1>11, <1>12, <1>13, Kinds DEF OtherStep

(* Jobs with a begin time go on needing all of their dependencies.  *)
LEMMA ModesStep ==
    ASSUME HeldUntilReleased, TimedNeedAll, Core, ModesSound, [Next]_vars
    PROVE  ModesSound'
<1>. USE NamesType DEF Core
<1>0. /\ state \in [Jobs -> States] /\ spec \in [Jobs -> Plan] /\ Allowed' = Allowed
      /\ setup \in DOMAIN Setups
  BY SetupStays DEF TypeOK
<1>1. ASSUME \A k \in Jobs : /\ state'[k] # "Absent" => state[k] # "Absent"
                             /\ spec'[k].mode = spec[k].mode
                             /\ spec'[k].begin # "none" => spec[k].begin # "none"
      PROVE  ModesSound'
  BY <1>0, <1>1 DEF ModesSound
<1>2. ASSUME NEW j \in Jobs, NEW st, NEW sp, NEW why, NEW changed, NEW same,
             RefreshStep(j, st, sp, why, changed, same)
      PROVE  ModesSound'
  <2>1. /\ spec' = sp
        /\ \A k \in Jobs : k # j => state'[k] = state[k] /\ spec'[k] = spec[k]
    BY <1>2, RefreshEffect
  <2>2. Anew(j, sp[j]) \/ Reworked(j, sp[j])
    BY <1>2 DEF RefreshStep
  <2>3. ASSUME sp[j].begin # "none" \/ Allowed.delayed # {}
        PROVE  sp[j].mode = "All" /\ Allowed.modes \subseteq {"All"}
    <3>1. CASE sp[j] \in Allowed.plans[j]
      BY <1>0, <2>3, <3>1 DEF TimedNeedAll, Allowed
    <3>2. ASSUME sp[j].begin = "none", NEW i \in Jobs, state[i] # "Absent",
                 sp[j].mode = spec[i].mode
          PROVE  sp[j].mode = "All" /\ Allowed.modes \subseteq {"All"}
      BY <2>3, <3>2 DEF ModesSound
    <3>3. CASE Reworked(j, sp[j])
      <4>1. state[j] # "Absent" /\ (spec[j].begin # "none" \/ Allowed.delayed # {})
        BY <2>3, <3>3 DEF Reworked
      <4>2. spec[j].mode = "All" /\ Allowed.modes \subseteq {"All"}
        BY <4>1 DEF ModesSound
      <4>. QED BY <3>3, <4>2 DEF Reworked
    <3>. QED BY <2>2, <3>1, <3>2, <3>3 DEF Anew
  <2>4. \A k \in Jobs : state'[k] # "Absent" /\ (spec'[k].begin # "none" \/ Allowed.delayed # {})
           => spec'[k].mode = "All" /\ Allowed.modes \subseteq {"All"}
    BY <2>1, <2>3 DEF ModesSound
  <2>. QED BY <1>0, <2>4 DEF ModesSound
<1>3. CASE Refreshes
  BY <1>2, <1>3 DEF Refreshes
<1>4. CASE WalksOn
  BY <1>1, <1>4 DEF WalksOn
<1>5. ASSUME NEW j, state[j] # "Absent", NEW final, state' = Moved({j}, final), spec' = spec
      PROVE  ModesSound'
  BY <1>0, <1>1, <1>5 DEF Moved
<1>6. ASSUME NEW j \in Jobs, Hold(j) PROVE ModesSound'
  BY <1>0, <1>5, <1>6 DEF Hold, CanTransitionTo, Ended
<1>7. ASSUME NEW j \in Jobs, Cancel(j) \/ Finish(j) \/ Fail(j) PROVE ModesSound'
  <2>1. \A s \in States : s = "Absent" => CanTransitionTo[s] = {}
    BY DEF CanTransitionTo, Ended
  <2>2. state[j] # "Absent"
    BY <1>0, <1>7, <2>1 DEF Cancel, Finish, Fail, End
  <2>. QED BY <1>5, <1>7, <2>2 DEF Cancel, Finish, Fail, End
<1>8. ASSUME NEW j \in Jobs, Tick(j) PROVE ModesSound'
  <2>1. \A k \in Jobs : /\ spec'[k].mode = spec[k].mode
                        /\ spec'[k].begin # "none" => spec[k].begin # "none"
    BY <1>0, <1>8, SpecBegin DEF Tick, Plan
  <2>. QED BY <1>1, <1>8, <2>1 DEF Tick
<1>9. ASSUME NEW j \in Jobs, PropagateTo(j) PROVE ModesSound'
  <2>1. /\ spec' = spec
        /\ state' = state \/ (state[j] = "Queued" /\ state' = Moved({j}, "Cancelled"))
    BY <1>9 DEF PropagateTo
  <2>. QED BY <1>1, <1>5, <2>1
<1>10. CASE ReleaseDue \/ Restart
  BY <1>1, <1>10 DEF ReleaseDue, Restart
<1>11. CASE Pass
  <2>1. PICK S \in SUBSET Runnable : state' = Moved(S, "Running")
    BY <1>11 DEF Pass
  <2>2. \A k \in Runnable : state[k] = "Queued"
    BY DEF Runnable, Valid
  <2>3. \A k \in Jobs : state'[k] # "Absent" => state[k] # "Absent"
    BY <2>1, <2>2 DEF Moved
  <2>. QED BY <1>1, <1>11, <2>3 DEF Pass
<1>12. CASE Return
  <2>1. CASE top.kind = "retry"
    BY <1>5, <1>12, <2>1, RetryTop DEF Return
  <2>2. CASE top.kind # "retry"
    BY <1>1, <1>12, <2>2 DEF Return
  <2>. QED BY <2>1, <2>2
<1>. QED
  BY <1>3, <1>4, <1>6, <1>7, <1>8, <1>9, <1>10, <1>11, <1>12, Kinds DEF OtherStep

(* Nobody who needs all of its dependencies is told of one more end once it may run.  *)
LEMMA ReadyIsNotTold ==
    ASSUME Core, CountersSound, NEW j \in Jobs, PropagateTo(j), state[j] # "Absent",
           dep_rt[j].satisfied, spec[j].mode = "All"
    PROVE  FALSE
<1>. USE DEF Core
<1>. DEFINE D == DepsOf(j)
            F == Done(j)
            s == dep_rt[j].success
            t == Listed(spec[j], D)
            n == s + Coming(j)
<1>1. ~Unlocked /\ top.kind = "propagate" /\ j \in top.left
  BY DEF PropagateTo, In
<1>2. /\ D \in SUBSET Jobs /\ F \in SUBSET D /\ F \in SUBSET Jobs /\ spec[j] \in Plan
      /\ s \in Nat /\ dep_rt[j].failure \in Nat
  BY DepsAreJobs DEF Done, TypeOK, Counters
<1>3. n <= Listed(spec[j], F) /\ Coming(j) \in {0, 1}
  BY DEF CountersSound, Counted, Coming
<1>4. t = 0 \/ s = t
  <2>1. dep_rt[j] = Judged("All", t, s, dep_rt[j].failure)
    BY DEF VerdictsSound
  <2>. HIDE DEF t, s
  <2>2. \A total, ok, bad : Judged("All", total, ok, bad).satisfied => total = 0 \/ ok = total
    BY DEF Judged
  <2>. QED BY <2>1, <2>2
<1>5. Coming(j) = 1 \/ F # D
  <2>1. CASE SuccessWalk(top, state) /\ rest = <<>>
    <3>1. top \in PropagateWalk /\ top = calls[1] /\ calls # <<>>
      BY <1>1, StackType, WalkKinds DEF TypeOK, Unlocked
    <3>2. top.success /\ top.work = <<>>
      BY <1>1, <2>1, <3>1 DEF SuccessWalk, PropagateWalk
    <3>3. j \in Told(calls, edges)
      BY <1>1, <3>1, <3>2 DEF Told
    <3>. QED BY <3>3 DEF Coming
  <2>2. CASE StackSound(calls, state, spec)
    <3>1. FrameSound(top, state, spec)
      BY <1>1, <2>2, StackTop DEF TypeOK
    <3>2. PICK d \in D : state[d] \in Unsuccessful
      BY <1>1, <3>1 DEF FrameSound, DepsOf
    <3>. QED BY <3>2 DEF Done, Unsuccessful
  <2>. QED BY <1>1, <2>1, <2>2, WalkTop
<1>. DEFINE f == Listed(spec[j], F)
<1>6. t \in Nat /\ f \in Nat /\ f <= t /\ (f = t => F = D)
  <2>. HIDE DEF D, F
  <2>. QED BY <1>2, ListedType, ListedWhole
<1>7. n = s + Coming(j) /\ n <= f
  BY <1>3
<1>. HIDE DEF D, F, s, t, f, n
<1>. QED BY <1>2, <1>3, <1>4, <1>5, <1>6, <1>7

(* Who may be found can be found after each step.  *)
LEMMA FindableStep ==
    ASSUME HeldUntilReleased, Core, CountersSound, HeapSound, KeysSound, TimesSound, ModesSound,
           Findable, [Next]_vars
    PROVE  Findable'
<1>. USE NamesType DEF Core
<1>0. /\ state \in [Jobs -> States] /\ spec \in [Jobs -> Plan] /\ reason \in [Jobs -> Reasons]
      /\ dep_rt \in [Jobs -> Counters] /\ epoch \in [Jobs -> Nat] /\ calls \in Seq(Walk)
      /\ \A e \in heap : e.job \in Jobs /\ e.epoch \in Nat /\ e.key \in Nat
  BY DEF TypeOK, Entry
<1>1. \A k \in Jobs : k \in Due' <=> /\ state'[k] = "Queued" /\ spec'[k].begin = "due"
                                     /\ reason'[k] = "BeginTime"
  BY DEF Due
<1>2. \A k : Current(k)' = [job |-> k, epoch |-> epoch'[k], key |-> spec'[k].key]
  BY DEF Current
<1>3. ASSUME \A k \in Jobs :
                state'[k] = "Queued" /\ dep_rt'[k].satisfied /\ spec'[k].begin # "future" =>
                   \/ Current(k)' \in heap' \/ k \in Due'
                   \/ /\ state[k] = "Queued" /\ dep_rt'[k] = dep_rt[k] /\ spec'[k] = spec[k]
                      /\ reason'[k] = reason[k] /\ epoch'[k] = epoch[k] /\ heap \subseteq heap'
      PROVE  Findable'
  <2>1. ASSUME NEW k \in Jobs, state'[k] = "Queued", dep_rt'[k].satisfied,
               spec'[k].begin # "future"
        PROVE  Current(k)' \in heap' \/ k \in Due'
    <3>1. CASE /\ state[k] = "Queued" /\ dep_rt'[k] = dep_rt[k] /\ spec'[k] = spec[k]
               /\ reason'[k] = reason[k] /\ epoch'[k] = epoch[k] /\ heap \subseteq heap'
      <4>1. Current(k) \in heap \/ k \in Due
        BY <2>1, <3>1 DEF Findable
      <4>2. Current(k)' = Current(k)
        BY <3>1 DEF Current
      <4>3. k \in Due => k \in Due'
        BY <2>1, <3>1 DEF Due
      <4>. QED BY <3>1, <4>1, <4>2, <4>3
    <3>. QED BY <1>3, <2>1, <3>1
  <2>. QED BY <2>1 DEF Findable
<1>4. ASSUME NEW j \in Jobs, NEW st, NEW sp, NEW why, NEW changed, NEW same,
             RefreshStep(j, st, sp, why, changed, same)
      PROVE  Findable'
  <2>1. /\ spec' = sp /\ dep_rt'[j] = Build(sp[j], st) /\ epoch'[j] = epoch[j] + 1
        /\ \A k \in Jobs : k # j => state'[k] = state[k] /\ spec'[k] = spec[k]
                                    /\ dep_rt'[k] = dep_rt[k] /\ epoch'[k] = epoch[k]
                                    /\ reason'[k] = reason[k]
        /\ Killed(j, st, changed) \/ Spared(j, st, sp, why, changed, same)
    BY <1>4, RefreshEffect
  <2>2. st \in [Jobs -> States]
    BY <1>4 DEF RefreshStep
  <2>3. heap \subseteq heap'
    BY <2>1 DEF Killed, Spared, Pushed
  <2>4. ASSUME state'[j] = "Queued", dep_rt'[j].satisfied, spec'[j].begin # "future"
        PROVE  Current(j)' \in heap'
    <3>1. Spared(j, st, sp, why, changed, same)
      BY <2>1, <2>2, <2>4 DEF Killed
    <3>2. st[j] = "Queued"
      BY <2>4, <3>1 DEF Spared
    <3>3. heap' = heap \cup {[job |-> j, epoch |-> epoch[j] + 1, key |-> sp[j].key]}
      BY <2>1, <2>4, <3>1, <3>2 DEF Spared, Pushed
    <3>. QED BY <1>2, <2>1, <3>3
  <2>. QED BY <1>3, <2>1, <2>3, <2>4
<1>5. CASE Refreshes
  BY <1>4, <1>5 DEF Refreshes
<1>6. CASE WalksOn
  BY <1>3, <1>6 DEF WalksOn
<1>7. ASSUME NEW j, NEW final, final # "Queued", NEW why, state' = Moved({j}, final),
             reason' = Because({j}, why), epoch' = Bumped({j}), spec' = spec, dep_rt' = dep_rt,
             heap' = heap
      PROVE  Findable'
  BY <1>0, <1>3, <1>7 DEF Moved, Because, Bumped
<1>8. ASSUME NEW j \in Jobs, Hold(j) PROVE Findable'
  BY <1>7, <1>8 DEF Hold
<1>9. ASSUME NEW j \in Jobs, Cancel(j) \/ Finish(j) \/ Fail(j) PROVE Findable'
  BY <1>7, <1>9 DEF Cancel, Finish, Fail, End
<1>10. ASSUME NEW j \in Jobs, Tick(j) PROVE Findable'
  <2>1. /\ spec[j].begin = "future" /\ spec' = [spec EXCEPT ![j].begin = "due"]
        /\ UNCHANGED <<state, reason, dep_rt, epoch, heap>>
    BY <1>10 DEF Tick
  <2>2. spec'[j].begin = "due" /\ \A k \in Jobs : k # j => spec'[k] = spec[k]
    <3>1. spec[j] \in Plan
      BY <1>0
    <3>2. [spec[j] EXCEPT !.begin = "due"].begin = "due"
      BY <3>1 DEF Plan
    <3>. QED BY <1>0, <2>1, <3>2, SpecBegin
  <2>3. state[j] = "Queued" => j \in Due'
    BY <1>1, <2>1, <2>2 DEF TimesSound
  <2>. QED BY <1>3, <2>1, <2>2, <2>3
<1>11. ASSUME NEW j \in Jobs, PropagateTo(j) PROVE Findable'
  <2>. DEFINE rt == Count(dep_rt[j], spec[j].mode, top.success)
  <2>1. /\ spec' = spec /\ dep_rt' = [dep_rt EXCEPT ![j] = rt]
        /\ \/ /\ state' = Moved({j}, "Cancelled") /\ reason' = Because({j}, "DependencyFailed")
              /\ epoch' = Bumped({j}) /\ heap' = heap
           \/ /\ state' = state /\ epoch' = epoch
              /\ reason' = Because({j}, Synced(reason[j], WaitReason(state[j], spec[j], rt)))
              /\ heap' = IF rt.satisfied /\ ~dep_rt[j].satisfied
                         THEN Pushed(heap, j, state[j], spec[j], rt, epoch[j]) ELSE heap
    BY <1>11 DEF PropagateTo
  <2>. HIDE DEF rt
  <2>2. heap \subseteq heap'
    BY <2>1 DEF Pushed
  <2>3. ASSUME NEW k \in Jobs, k # j
        PROVE  /\ state'[k] = state[k] /\ dep_rt'[k] = dep_rt[k]
               /\ reason'[k] = reason[k] /\ epoch'[k] = epoch[k]
    BY <1>0, <2>1, <2>3 DEF Moved, Because, Bumped
  <2>4. ASSUME state'[j] = "Queued", dep_rt'[j].satisfied, spec'[j].begin # "future"
        PROVE  Current(j)' \in heap'
    <3>1. /\ state' = state /\ epoch' = epoch /\ dep_rt'[j] = rt
          /\ heap' = IF rt.satisfied /\ ~dep_rt[j].satisfied
                     THEN Pushed(heap, j, state[j], spec[j], rt, epoch[j]) ELSE heap
      BY <1>0, <2>1, <2>4 DEF Moved
    <3>2. CASE ~dep_rt[j].satisfied
      <4>1. heap' = heap \cup {[job |-> j, epoch |-> epoch[j], key |-> spec[j].key]}
        BY <2>1, <2>4, <3>1, <3>2 DEF Pushed
      <4>. QED BY <1>2, <2>1, <3>1, <4>1
    <3>3. CASE dep_rt[j].satisfied
      <4>1. Current(j) \in heap \/ j \in Due
        BY <2>1, <2>4, <3>1, <3>3 DEF Findable
      <4>2. CASE Current(j) \in heap
        <5>1. Current(j)' = Current(j)
          BY <2>1, <3>1 DEF Current
        <5>. QED BY <2>2, <4>2, <5>1
      <4>3. CASE j \in Due
        <5>1. state[j] = "Queued" /\ spec[j].begin = "due"
          BY <4>3 DEF Due
        <5>2. spec[j].mode = "All"
          BY <5>1 DEF ModesSound
        <5>. QED BY <1>11, <3>3, <5>1, <5>2, ReadyIsNotTold
      <4>. QED BY <4>1, <4>2, <4>3
    <3>. QED BY <3>2, <3>3
  <2>5. \A k \in Jobs : k # j /\ state'[k] = "Queued" =>
           /\ state[k] = "Queued" /\ dep_rt'[k] = dep_rt[k] /\ spec'[k] = spec[k]
           /\ reason'[k] = reason[k] /\ epoch'[k] = epoch[k] /\ heap \subseteq heap'
    BY <2>1, <2>2, <2>3
  <2>. QED BY <1>3, <2>4, <2>5
<1>12. CASE ReleaseDue
  <2>1. /\ UNCHANGED <<state, spec, dep_rt, epoch>> /\ heap \subseteq heap'
        /\ reason' = [j \in Jobs |->
                        IF j \in Due
                        THEN Synced("BeginTime", WaitReason("Queued", spec[j], dep_rt[j]))
                        ELSE reason[j]]
        /\ \A k \in Due : dep_rt[k].satisfied =>
              [job |-> k, epoch |-> epoch[k], key |-> spec[k].key] \in heap'
    BY <1>12 DEF ReleaseDue
  <2>2. \A k \in Jobs : k \notin Due => reason'[k] = reason[k]
    BY <2>1
  <2>3. \A k \in Due : dep_rt'[k].satisfied => Current(k)' \in heap'
    BY <1>2, <2>1
  <2>. QED BY <1>3, <2>1, <2>2, <2>3
<1>13. CASE Pass
  <2>1. PICK S \in SUBSET Runnable :
           /\ state' = Moved(S, "Running")
           /\ epoch' = Bumped(S)
           /\ reason' = [j \in Jobs |-> IF j \in S THEN "None"
                                        ELSE IF j \in Runnable \ S THEN "Resources"
                                        ELSE reason[j]]
           /\ heap' = {[job |-> j, epoch |-> epoch[j], key |-> spec[j].key] :
                          j \in {k \in Runnable \ S : spec[k].begin # "future"}}
    BY <1>13 DEF Pass
  <2>2. spec' = spec /\ dep_rt' = dep_rt
    BY <1>13 DEF Pass
  <2>3. ASSUME NEW k \in Jobs, state'[k] = "Queued", dep_rt'[k].satisfied,
               spec'[k].begin # "future"
        PROVE  Current(k)' \in heap' \/ k \in Due'
    <3>1. k \notin S /\ state[k] = "Queued" /\ epoch'[k] = epoch[k] /\ dep_rt[k].satisfied
          /\ spec[k].begin # "future"
      BY <1>0, <2>1, <2>2, <2>3 DEF Moved, Bumped
    <3>2. CASE k \in Runnable
      <4>1. [job |-> k, epoch |-> epoch[k], key |-> spec[k].key] \in heap'
        BY <2>1, <3>1, <3>2
      <4>. QED BY <1>2, <2>2, <3>1, <4>1
    <3>3. CASE k \notin Runnable
      <4>1. Current(k) \notin heap
        <5>. SUFFICES ASSUME Current(k) \in heap PROVE FALSE
          OBVIOUS
        <5>. DEFINE e == Current(k)
        <5>1. e.job = k /\ e.epoch = epoch[k] /\ e.key = spec[k].key /\ spec[k].key \in Nat
          BY <1>0 DEF Current, Plan
        <5>2. Valid(e)
          BY <3>1, <5>1 DEF Valid
        <5>3. ASSUME NEW x \in heap, x.job = e.job
              PROVE  e.key > x.key \/ (e.key = x.key /\ e.epoch >= x.epoch)
          BY <1>0, <5>1, <5>3 DEF KeysSound, HeapSound
        <5>. HIDE DEF e
        <5>4. FirstPopped(e)
          BY <5>3 DEF FirstPopped
        <5>5. e \in heap
          BY DEF e
        <5>. QED BY <3>3, <5>1, <5>2, <5>4, <5>5 DEF Runnable
      <4>2. k \in Due
        BY <3>1, <4>1 DEF Findable
      <4>3. reason'[k] = reason[k]
        BY <2>1, <3>1, <3>3
      <4>. QED BY <1>1, <2>2, <2>3, <4>2, <4>3 DEF Due
    <3>. QED BY <3>2, <3>3
  <2>. QED BY <2>3 DEF Findable
<1>14. CASE Restart
  <2>. DEFINE rt == [j \in Jobs |-> IF state[j] = "Absent" THEN NoCounters
                                    ELSE Build(spec[j], state)]
  <2>1. /\ spec' = spec /\ state' = state /\ dep_rt' = rt /\ epoch' = [j \in Jobs |-> 0]
        /\ heap' = {[job |-> j, epoch |-> 0, key |-> spec[j].key] :
                       j \in {k \in Jobs : /\ state[k] = "Queued"
                                           /\ spec[k].begin # "future"
                                           /\ rt[k].satisfied}}
    BY <1>14 DEF Restart
  <2>. HIDE DEF rt
  <2>2. ASSUME NEW k \in Jobs, state'[k] = "Queued", dep_rt'[k].satisfied,
               spec'[k].begin # "future"
        PROVE  Current(k)' \in heap'
    <3>1. [job |-> k, epoch |-> 0, key |-> spec[k].key] \in heap'
      BY <2>1, <2>2
    <3>. QED BY <1>2, <2>1, <3>1
  <2>. QED BY <1>3, <2>2
<1>15. CASE Return
  <2>1. CASE top.kind = "retry"
    BY <1>7, <1>15, <2>1 DEF Return
  <2>2. CASE top.kind # "retry"
    BY <1>3, <1>15, <2>2 DEF Return
  <2>. QED BY <2>1, <2>2
<1>. QED
  BY <1>5, <1>6, <1>8, <1>9, <1>10, <1>11, <1>12, <1>13, <1>14, <1>15, Kinds DEF OtherStep

(* Who can be found is found, when the lock is free.  *)
LEMMA FindableMeansFound ==
    ASSUME Core, CountersSound, NoAgain, HeapSound, KeysSound, Findable
    PROVE  NoJobForgotten
<1>. USE DEF Core
<1>. SUFFICES ASSUME Unlocked, NEW k \in Jobs, state[k] = "Queued", DependenciesMet(k),
                     spec[k].begin # "future"
              PROVE  k \in Runnable \cup Due
  BY DEF NoJobForgotten
<1>1. dep_rt[k].satisfied
  BY CountersMeanReady
<1>2. CASE k \in Due
  BY <1>2
<1>3. CASE Current(k) \in heap
  <2>. DEFINE e == Current(k)
  <2>1. e.job = k /\ e.epoch = epoch[k] /\ e.key = spec[k].key
    BY DEF Current
  <2>2. Valid(e)
    BY <1>1, <2>1 DEF Valid
  <2>3. ASSUME NEW x \in heap, x.job = e.job
        PROVE  e.key > x.key \/ (e.key = x.key /\ e.epoch >= x.epoch)
    <3>1. x.job \in Jobs /\ x.epoch \in Nat /\ epoch[k] \in Nat /\ x.key \in Nat
          /\ spec[k].key \in Nat
      BY DEF TypeOK, Entry, Plan
    <3>. QED BY <2>1, <2>3, <3>1 DEF KeysSound, HeapSound
  <2>. HIDE DEF e
  <2>4. FirstPopped(e)
    BY <2>3 DEF FirstPopped
  <2>5. e \in heap
    BY <1>3 DEF e
  <2>. QED BY <2>1, <2>2, <2>4, <2>5 DEF Runnable
<1>. QED BY <1>1, <1>2, <1>3 DEF Findable

(* No queued job is stuck: no walk forgets a failure that dooms it, and none loses the entry
   by which it is found (refresh_job_readiness, propagate_dependency_outcomes, the drain).
   The hypotheses leave out what does strand a job: a dependency that is listed twice, a
   release at a time of a job that was just released, a priority that is lowered and then
   lost to an older entry, and a begin time of a job that needs one of its dependencies.  *)
THEOREM NeverStuck ==
    ASSUME ListedOnce, HeldUntilReleased, KeysRaised, TimedNeedAll
    PROVE  Spec => []NoJobStuck
<1>. DEFINE Waits == FailuresSound /\ HopesSound
            Found == HeapSound /\ KeysSound /\ TimesSound /\ ModesSound /\ Findable
            I == Core /\ CountersSound /\ NoAgain /\ Waits /\ Found
<1>1. Init => I
  <2>. SUFFICES ASSUME Init PROVE I
    OBVIOUS
  <2>1. \A k \in Jobs : state[k] = "Absent"
    BY DEF Init
  <2>2. Core /\ CountersSound /\ NoAgain
    BY <2>1, CoreInit DEF Init, CountersSound, NoAgain, Blank
  <2>3. FailuresSound /\ HopesSound
    BY <2>1 DEF FailuresSound, HopesSound
  <2>4. HeapSound /\ KeysSound
    BY DEF Init, HeapSound, KeysSound
  <2>5. TimesSound /\ ModesSound /\ Findable
    BY <2>1 DEF TimesSound, ModesSound, Findable
  <2>. QED BY <2>2, <2>3, <2>4, <2>5
<1>2. I => NoJobStuck
  BY HopesMeanHope, FindableMeansFound DEF NoJobStuck
<1>3. I /\ [Next]_vars => I'
  <2>. SUFFICES ASSUME I, [Next]_vars PROVE I'
    OBVIOUS
  <2>1. Core' /\ CountersSound' /\ NoAgain'
    BY CoreStep, CountersStep, NoAgainStep
  <2>2. FailuresSound'
    BY FailuresStep
  <2>3. HopesSound'
    BY <1>2, HopesStep DEF NoJobStuck
  <2>4. HeapSound' /\ KeysSound' /\ TimesSound' /\ ModesSound'
    BY HeapStep, KeysStep, TimesStep, ModesStep
  <2>5. Findable'
    BY FindableStep
  <2>. QED BY <2>1, <2>2, <2>3, <2>4, <2>5
<1>. HIDE DEF I
<1>. QED BY <1>1, <1>2, <1>3, PTL DEF Spec
=============================================================================
