------------------------------ MODULE Queries ------------------------------
(***************************************************************************)
(* What users see of the queue: the job listing the daemon serves from its *)
(* indexes, the pages an agent reads of it one request at a time, the tree *)
(* of gqueue -t, the counts of gstats and of the queue summary, the        *)
(* preview of gcancel, and the tail of a log that is still being written.  *)
(*                                                                         *)
(* A job is its submitter, its state, the GPUs it asks for, its            *)
(* dependencies and the job it is a redo of.  What starts and ends jobs is *)
(* in Allocation and JobDeps: here a job takes any transition its state    *)
(* allows, one at a time, so that a cascade of cancellations is several    *)
(* steps.  Projects and names of jobs only filter a listing further, or    *)
(* group a summary as users do, and are left out.                          *)
(***************************************************************************)
EXTENDS Integers, Sequences, FiniteSets, SequencesExt, FiniteSetsExt

CONSTANTS
    Users,     \* who submits
    Rank,      \* the place of each user's name in the order of names
    Setups     \* what happens, by name: one of these for a whole behaviour

(* The bounds of a setup.  *)
Setup == [jobs : Nat,        \* jobs in the table
          users : SUBSET Users,
          gpus : Nat,        \* the most GPUs a job asks for
          lists : Nat,       \* the longest list of dependencies
          edits : Nat,       \* gjob update --depends-on
          redos : Nat,       \* gjob redo
          enters : SUBSET {"Queued", "Hold", "Running", "Finished", "Failed",
                           "Cancelled", "Timeout"},   \* the states jobs enter
          views : SUBSET {"active", "waiting", "all"},  \* what is paged through
          page : Nat,        \* the size of a page
          groups : Nat,      \* the users a queue summary has (10 in the code)
          log : Nat,         \* bytes written to the log
          bytes : Nat \ {0}, \* max_bytes of a tail, and its lines
          lines : Nat \ {0}]

VARIABLES
    setup,     \* the setup of this behaviour
    jobs,      \* the job table; ids are positions in it
    byUser,    \* user_jobs_index
    byState,   \* state_jobs_index
    edits,     \* edits and redos so far
    redos,
    pager,     \* an agent that reads the listing page by page
    log,       \* the log file of a job
    tail       \* a request for its tail

table == <<jobs, byUser, byState, edits, redos>>
queryVars == <<setup, table, pager, log, tail>>

Allowed == Setups[setup]
Ids == DOMAIN jobs
Nobody == 0
States == {"Queued", "Hold", "Running", "Finished", "Failed", "Cancelled", "Timeout"}
Active == {"Queued", "Hold", "Running"}
Completed == States \ Active

ASSUME QueriesAssumption ==
    /\ IsFiniteSet(Users)
    /\ Rank \in [Users -> Nat]
    /\ \A s \in DOMAIN Setups : Setups[s] \in Setup

(* The numbers of a set in order, and what a sequence has of a set.  *)
Nth(S, k) == CHOOSE x \in S : Cardinality({y \in S : y <= x}) = k
Ascending(S) == [k \in 1 .. Cardinality(S) |-> Nth(S, k)]
Selected(s, S) ==
    LET at == Ascending({i \in DOMAIN s : s[i] \in S})
    IN  [k \in 1 .. Len(at) |-> s[at[k]]]
Lists(n) == {s \in UNION {[1 .. k -> Ids] : k \in 0 .. n} : IsInjective(s)}

-----------------------------------------------------------------------------
(* The table and its indexes.  *)

CanTransitionTo ==
    {<<"Queued", "Running">>, <<"Queued", "Hold">>, <<"Queued", "Cancelled">>,
     <<"Hold", "Queued">>, <<"Hold", "Cancelled">>, <<"Running", "Finished">>,
     <<"Running", "Failed">>, <<"Running", "Cancelled">>, <<"Running", "Timeout">>}

(* dependency_ids_iter: depends_on comes first unless the list has it.  *)
DependencyIds(job) ==
    IF job.legacy # Nobody /\ ~Contains(job.ids, job.legacy)
    THEN <<job.legacy>> \o job.ids ELSE job.ids
AllDependencyIds(job) ==
    IF job.legacy # Nobody /\ ~Contains(job.ids, job.legacy)
    THEN Append(job.ids, job.legacy) ELSE job.ids
DepsOf(j) == ToSet(DependencyIds(jobs[j]))

(* has_path_dfs  *)
Reaches(a, b) ==
    \A S \in SUBSET Ids : a \in S /\ (\A x \in S : DepsOf(x) \subseteq S) => b \in S

(* update_state_jobs_index: a binary search for the place of the id.  *)
Inserted_last(s, j) == Append(s, j)      \* mutant: no search
Inserted(s, j) ==
    IF j \in ToSet(s) THEN s
    ELSE InsertAt(s, Cardinality({i \in DOMAIN s : s[i] < j}) + 1, j)

(* submit_job: the newest id goes last in every index.  *)
Submitted(u, list, from) ==
    LET id == Len(jobs) + 1
    IN  /\ Len(jobs) < Allowed.jobs
        /\ \E n \in 0 .. Allowed.gpus :
              jobs' = Append(jobs, [user |-> u, state |-> "Queued", gpus |-> n, from |-> from,
                                    ids |-> list,
                                    legacy |-> IF Len(list) = 1 THEN list[1] ELSE Nobody])
        /\ byUser' = [byUser EXCEPT ![u] = Append(@, id)]
        /\ byState' = [byState EXCEPT !["Queued"] = Append(@, id)]

(* A transition of any kind, through the one function that makes them.  *)
Moved(j, next) ==
    /\ <<jobs[j].state, next>> \in CanTransitionTo
    /\ next \in Allowed.enters
    /\ next = "Running" => \A d \in DepsOf(j) : jobs[d].state = "Finished"
    /\ jobs' = [jobs EXCEPT ![j].state = next]
    /\ byState' = [byState EXCEPT
                      ![jobs[j].state] = Selected(@, Ids \ {j}),
                      ![next] = Inserted(@, j)]
    /\ UNCHANGED byUser

(* gjob update --depends-on replaces the list, not depends_on.  *)
Updated(j, list) ==
    /\ edits < Allowed.edits
    /\ jobs[j].state \in {"Queued", "Hold"}
    /\ \A d \in ToSet(list) : ~Reaches(d, j)
    /\ jobs' = [jobs EXCEPT ![j].ids = list]
    /\ UNCHANGED <<byUser, byState>>

(* rebuild_user_jobs_index, when the daemon starts.  *)
Rebuilt ==
    /\ byUser' = [u \in Users |-> Selected([i \in Ids |-> i], {j \in Ids : jobs[j].user = u})]
    /\ byState' = [s \in States |-> Selected([i \in Ids |-> i], {j \in Ids : jobs[j].state = s})]
    /\ UNCHANGED jobs

-----------------------------------------------------------------------------
(* GET /jobs.  A query has the users and the states asked for, all of them when
   the set is empty, and the jobs submitted before `after' are left out.  *)

Query == [users : SUBSET Users, states : SUBSET States, after : Nat]
Everything == [users |-> {}, states |-> {}, after |-> 0]

Matches(q, j) ==
    /\ q.states = {} \/ jobs[j].state \in q.states
    /\ q.users = {} \/ jobs[j].user \in q.users
    /\ j > q.after
Matching(q) == {j \in Ids : Matches(q, j)}

(* The candidates: the index of the filter that has fewer jobs, as it is for one
   key and merged for several.  *)
Merged(index, keys) ==
    IF Cardinality(keys) = 1 THEN index[CHOOSE k \in keys : TRUE]
    ELSE Ascending(UNION {ToSet(index[k]) : k \in keys})
Count(index, keys) == FoldSet(LAMBDA k, n : n + Len(index[k]), 0, keys)
Candidates(q) ==
    IF q.users = {} /\ q.states = {} THEN [i \in Ids |-> i]
    ELSE IF q.users # {} /\ (q.states = {} \/ Count(byUser, q.users) <= Count(byState, q.states))
    THEN Merged(byUser, q.users)
    ELSE Merged(byState, q.states)

Listing(q, order) ==
    LET found == Selected(Candidates(q), Matching(q))
    IN  IF order = "desc" THEN Reverse(found) ELSE found
Page(list, offset, limit) == SubSeq(list, offset + 1, Min({Len(list), offset + limit}))

(* gqueue shows the active jobs, with -c those that ended and with -a all of them;
   -n cuts the listing to its first or its last jobs.  *)
Displays == [states : {Active, Completed, {}}, n : {0, 2, -2}]
Shown(d) ==
    LET list == Listing([Everything EXCEPT !.states = d.states], "asc")
        n    == d.n
    IN  CASE n > 0 /\ Len(list) > n -> SubSeq(list, 1, n)
          [] n < 0 /\ Len(list) > -n -> SubSeq(list, Len(list) + n + 1, Len(list))
          [] OTHER -> list

(* gstats: one pass over the jobs in the table of some users.  It has no count of those
   on hold.  *)
Recount(U, S) == Cardinality({j \in Ids : jobs[j].user \in U /\ jobs[j].state \in S})
Stats(U) == [s \in States \ {"Hold"} |-> Recount(U, {s})]

(* The queue summary of the MCP server, from a listing: how many jobs there are, and
   for each user that has any, of which the first few are shown (queue_group_outputs),
   how many wait or run and the GPUs that those which wait ask for.  *)
Pending == {"Queued", "Hold"}
Places(list, U, S) == {i \in DOMAIN list : jobs[list[i]].user \in U /\ jobs[list[i]].state \in S}
Asking(list, S) == {a \in S \X (1 .. Allowed.gpus) : a[2] <= jobs[list[a[1]]].gpus}
Group(list, u) ==
    [queued |-> Cardinality(Places(list, {u}, Pending)),
     running |-> Cardinality(Places(list, {u}, {"Running"})),
     gpus |-> Cardinality(Asking(list, Places(list, {u}, Pending)))]
Ahead(groups, v, u) ==
    \/ groups[v].gpus > groups[u].gpus
    \/ groups[v].gpus = groups[u].gpus /\ groups[v].queued > groups[u].queued
    \/ /\ groups[v].gpus = groups[u].gpus /\ groups[v].queued = groups[u].queued
       /\ Rank[v] < Rank[u]
FirstGroups(groups) ==
    LET first == {u \in DOMAIN groups :
                     Cardinality({v \in DOMAIN groups : Ahead(groups, v, u)}) < Allowed.groups}
    IN  [u \in first |-> groups[u]]
Pressure ==
    LET list == Listing([Everything EXCEPT !.states = Active], "asc")
        some == {u \in Users : Places(list, {u}, Active) # {}}
    IN  [queued |-> Cardinality(Places(list, Users, {"Queued"})),
         held |-> Cardinality(Places(list, Users, {"Hold"})),
         running |-> Cardinality(Places(list, Users, {"Running"})),
         users |-> FirstGroups([u \in some |-> Group(list, u)])]

(* gcancel --dry-run: the jobs it says would be blocked.  *)
Blocked(j) == {d \in Ids : jobs[d].legacy = j /\ jobs[d].state \in {"Queued", "Hold"}}

-----------------------------------------------------------------------------
(* gqueue -t: each job of a list hangs once under a parent of the list, the first
   of its dependencies or, without any, the job it is a redo of; under the other
   parents stands a reference to it.  *)

Parents(list, j) == SelectSeq(DependencyIds(jobs[j]), LAMBDA d : Contains(list, d))
RedoParent(list, j) == IF Contains(list, jobs[j].from) THEN {jobs[j].from} ELSE {}

FullChildren(list, p) ==
    {j \in ToSet(list) :
        IF Parents(list, j) # <<>> THEN Head(Parents(list, j)) = p
                                   ELSE p \in RedoParent(list, j)}
References(list, p) ==
    {j \in ToSet(list) : p \in ToSet(Parents(list, j)) \cup RedoParent(list, j)}
        \ FullChildren(list, p)

Roots_any(list) ==               \* mutant: parents that are not listed count
    Ascending({j \in ToSet(list) : DependencyIds(jobs[j]) = <<>> /\ jobs[j].from = Nobody})
Roots(list) ==
    Ascending({j \in ToSet(list) : Parents(list, j) = <<>> /\ RedoParent(list, j) = {}})

(* build_node: the children of a job, full or by reference, by id.  *)
Children(list, j) == Ascending(FullChildren(list, j) \cup References(list, j))

(* collect_tree_rows: depth first, a row for each job and one for each reference;
   a job that is its own ancestor is skipped.  *)
Tree(list) ==
    LET row[above \in SUBSET ToSet(list), j \in ToSet(list)] ==
          IF j \in above THEN <<>>
          ELSE LET below == Children(list, j)
                   child(c) == IF c \in References(list, j) THEN <<[see |-> c]>>
                               ELSE row[above \cup {j}, c]
               IN  <<[job |-> j]>> \o FlattenSeq([i \in DOMAIN below |-> child(below[i])])
        roots == Roots(list)
    IN  FlattenSeq([i \in DOMAIN roots |-> row[{}, roots[i]]])

-----------------------------------------------------------------------------
(* An agent pages through the listing with the MCP tool list_jobs, which asks for
   one job more than it shows to know whether there are more.  `all' are the
   jobs that have matched ever since it began; `left' and `joined' say that
   where it had already read a job stopped matching, or came to match.  *)

NoPager == [op |-> "none"]
View(name) ==
    [Everything EXCEPT !.states = [active |-> Active, waiting |-> {"Queued"}, all |-> {}][name]]
QueryLimit_same(limit) == limit      \* mutant: no job more
QueryLimit(limit) == limit + 1

(* The pager's history, when the table changes.  *)
Disturbed ==
    IF pager.op # "paging" THEN pager' = pager
    ELSE \E q \in {View(pager.view)} :
         LET old    == Matching(q)
             new    == Matching(q)'
             behind(j) == \E p \in ToSet(pager.got) :
                              IF pager.order = "asc" THEN j <= p ELSE j >= p
         IN  pager' = [pager EXCEPT
                !.all = @ \cap new,
                !.left = @ \/ \E j \in old \ new : behind(j),
                !.joined = @ \/ \E j \in new \ old : behind(j)]

BeginPaging(view, order) ==
    /\ pager.op = "none" /\ Allowed.page > 0
    /\ pager' = [op |-> "paging", view |-> view, order |-> order, offset |-> 0,
                 got |-> <<>>, left |-> FALSE, joined |-> FALSE,
                 all |-> Matching(View(view))]
    /\ UNCHANGED <<setup, table, log, tail>>

NextPage ==
    /\ pager.op = "paging"
    /\ LET found == Page(Listing(View(pager.view), pager.order),
                         pager.offset, QueryLimit(Allowed.page))
           shown == Page(found, 0, Allowed.page)
       IN  pager' = [pager EXCEPT
              !.op = IF Len(found) > Allowed.page THEN "paging" ELSE "done",
              !.offset = @ + Len(shown),
              !.got = @ \o shown]
    /\ UNCHANGED <<setup, table, log, tail>>

-----------------------------------------------------------------------------
(* GET /jobs/<id>/log: the size is taken, the place to begin is sought from the
   end, and the file is read, while the job writes on.  *)

NoTail == [op |-> "none"]
LineStarts(lo, hi) == {i \in lo .. hi : i = 1 \/ i = lo \/ log[i - 1] = "eol"}

Write(c) ==
    /\ Len(log) < Allowed.log
    /\ log' = Append(log, c)
    /\ UNCHANGED <<setup, table, pager, tail>>

Stat ==
    /\ tail.op = "none" /\ Allowed.log > 0
    /\ tail' = [op |-> "seek", size |-> Len(log)]
    /\ UNCHANGED <<setup, table, pager, log>>

Seek ==
    /\ tail.op = "seek"
    /\ LET mid == tail.size > Allowed.bytes
       IN  tail' = [op |-> "read", size |-> tail.size, mid |-> mid,
                    from |-> IF mid THEN Len(log) - Allowed.bytes + 1 ELSE 1]
    /\ UNCHANGED <<setup, table, pager, log>>

(* extract_log_view of log[from ..]: the first byte of the text it shows.  A line
   the read began in is dropped, then all but the last lines.  *)
Whole_partial(from, mid) == from      \* mutant: the partial line is kept
Whole(from, mid) ==
    LET ends == {i \in from .. Len(log) : log[i] = "eol"}
    IN  IF ~mid THEN from
        ELSE IF ends # {} THEN Min(ends) + 1
        ELSE Len(log) + 1
ViewFrom(from, mid) ==
    LET text   == Whole(from, mid)
        starts == Ascending(LineStarts(text, Len(log)))
    IN  IF Len(starts) <= Allowed.lines THEN text
        ELSE starts[Len(starts) - Allowed.lines + 1]

Read ==
    /\ tail.op = "read"
    /\ tail' = [op |-> "told", size |-> tail.size, bytes |-> Len(log) - tail.from + 1,
                first |-> ViewFrom(tail.from, tail.mid), last |-> Len(log),
                truncated |-> \/ tail.mid
                              \/ Cardinality(LineStarts(tail.from, Len(log))) > Allowed.lines]
    /\ UNCHANGED <<setup, table, pager, log>>

(* gjob log --last: where the lines begin that a queue of the last n is left with, in a
   file that ends at `last'.  *)
LastLines(last, n) ==
    LET starts == LineStarts(1, last)
        queue  == {i \in starts : Cardinality({k \in starts : k >= i}) <= n}
    IN  IF queue = {} THEN 1 ELSE Min(queue)

Answered ==
    /\ tail.op = "told"
    /\ tail' = NoTail
    /\ UNCHANGED <<setup, table, pager, log>>

-----------------------------------------------------------------------------
QueryInit ==
    /\ setup \in DOMAIN Setups
    /\ jobs = <<>>
    /\ byUser = [u \in Users |-> <<>>]
    /\ byState = [s \in States |-> <<>>]
    /\ edits = 0 /\ redos = 0
    /\ pager = NoPager
    /\ log = <<>>
    /\ tail = NoTail

Changes == Disturbed /\ UNCHANGED <<setup, log, tail>>

Submit(u, list) == Submitted(u, list, Nobody) /\ UNCHANGED <<edits, redos>> /\ Changes
Move(j, next) == Moved(j, next) /\ UNCHANGED <<edits, redos>> /\ Changes
Update(j, list) == Updated(j, list) /\ edits' = edits + 1 /\ UNCHANGED redos /\ Changes

(* gjob redo, with the dependencies the job had, none (--clear-deps) or another
   one (--depends-on).  *)
Redo(j, list) ==
    /\ redos < Allowed.redos
    /\ jobs[j].state \in Completed
    /\ list \in {AllDependencyIds(jobs[j]), <<>>} \cup {<<d>> : d \in Ids}
    /\ \E u \in Allowed.users : Submitted(u, list, j)
    /\ redos' = redos + 1 /\ UNCHANGED edits
    /\ Changes
Restart == Rebuilt /\ UNCHANGED <<edits, redos>> /\ Changes

QueryNext ==
    \/ \E u \in Allowed.users, list \in Lists(Allowed.lists) : Submit(u, list)
    \/ \E j \in Ids, next \in States : Move(j, next)
    \/ \E j \in Ids, list \in Lists(Allowed.lists) : Update(j, list)
    \/ \E j \in Ids, list \in Lists(Allowed.lists) : Redo(j, list)
    \/ Restart
    \/ \E view \in Allowed.views, order \in {"asc", "desc"} : BeginPaging(view, order)
    \/ NextPage
    \/ \E c \in {"byte", "eol"} : Write(c)
    \/ Stat
    \/ Seek
    \/ Read
    \/ Answered

-----------------------------------------------------------------------------
(* What must hold.  *)

Job == [user : Users, state : States, gpus : Nat, ids : Seq(Ids), legacy : Ids \cup {Nobody},
        from : Ids \cup {Nobody}]
QueryTypeOK ==
    /\ setup \in DOMAIN Setups
    /\ jobs \in Seq(Job) /\ Len(jobs) <= Allowed.jobs
    /\ byUser \in [Users -> Seq(Ids)] /\ byState \in [States -> Seq(Ids)]
    /\ edits \in 0 .. Allowed.edits /\ redos \in 0 .. Allowed.redos
    /\ log \in Seq({"byte", "eol"}) /\ Len(log) <= Allowed.log

(* Whatever is asked, and whichever index the daemon answers from, the listing
   is every job that matches, once and in the order of submission.  A state index that
   missed a transition, or lost its order, would show in one query and not in
   another.  *)
Asked == {[users |-> U, states |-> S, after |-> n] :
             U \in SUBSET Users, S \in {{}, Active, {"Queued"}, {"Finished"}}, n \in 0 .. 1}
ListingsExact == \A q \in Asked : Listing(q, "asc") = Ascending(Matching(q))

(* The queue summary, which counts a listing, and gstats, which counts the table, agree;
   a user that the summary leaves out asks for no more GPUs than any it shows.  *)
Wanted(u) ==
    Asking([j \in Ids |-> j], {j \in Ids : jobs[j].user = u /\ jobs[j].state \in Pending})
SummaryExact ==
    /\ Pressure.queued = Stats(Users)["Queued"]
    /\ Pressure.running = Stats(Users)["Running"]
    /\ Pressure.held = Recount(Users, {"Hold"})
    /\ \A u \in DOMAIN Pressure.users :
          /\ Pressure.users[u].queued = Stats({u})["Queued"] + Recount({u}, {"Hold"})
          /\ Pressure.users[u].running = Stats({u})["Running"]
          /\ \A v \in Users \ DOMAIN Pressure.users :
                Cardinality(Wanted(v)) <= Pressure.users[u].gpus

(* The tree of any listing, whole, filtered or cut to its first or last jobs,
   shows every job of it once and every link between two of them once.  Only a
   ring of dependencies and redo links hides jobs, those in it and behind it,
   and only an edit after a redo makes one.  *)
Links(list, j) == ToSet(Parents(list, j)) \cup RedoParent(list, j)
Above(list, j) ==
    LET up[k \in 0 .. Len(list)] ==
          IF k = 0 THEN Links(list, j)
          ELSE up[k - 1] \cup UNION {Links(list, p) : p \in up[k - 1]}
    IN  up[Len(list)]
Rings(list) == {j \in ToSet(list) : j \in Above(list, j)}
Rows(tree, kind) == SelectSeq(tree, LAMBDA row : kind \in DOMAIN row)
Hidden(list) == ToSet(list) \ {row.job : row \in ToSet(Rows(Tree(list), "job"))}

Trees == {Shown(d) : d \in Displays}
TreeShowsAll ==
    pager = NoPager =>
    \A list \in Trees :
        LET tree == Tree(list)
        IN  /\ IsInjective(Rows(tree, "job"))
            /\ \A h \in Hidden(list) : ({h} \cup Above(list, h)) \cap Rings(list) # {}
            /\ Rings(list) # {} => edits > 0 /\ redos > 0
            /\ Rings(list) = {} =>
                  \A j \in ToSet(list) :
                      LET n == Cardinality(Links(list, j))
                      IN  Len(SelectSeq(tree, LAMBDA row : row \in {[job |-> j], [see |-> j]}))
                            = Max({n, 1})

(* An agent that follows next_offset to the end has read every job that matched
   from beginning to end, unless one left the listing where it had already read
   and moved the others up; and has read none twice unless one joined there.  *)
PagesComplete ==
    pager.op = "done" =>
        /\ pager.left \/ pager.all \subseteq ToSet(pager.got)
        /\ pager.joined \/ IsInjective(pager.got)

(* What is listed is complete, at once or page by page.  *)
ListingsComplete ==
    /\ QueryTypeOK
    /\ pager = NoPager => ListingsExact /\ SummaryExact   \* as every table is before any paging
    /\ PagesComplete

(* What the tail of a growing log shows begins at the start of a line, goes on to
   the end of the file, is no more lines than were asked for, and is marked
   truncated when, and only when, something before it is left out; if the whole
   file was read it is what gjob log --last shows.  *)
TailSound ==
    tail.op = "told" =>
        /\ tail.first \in LineStarts(1, tail.last) \cup {1, tail.last + 1}
        /\ Cardinality(LineStarts(tail.first, tail.last)) <= Allowed.lines
        /\ tail.truncated <=> tail.first > 1
        /\ tail.bytes = tail.last => tail.first = LastLines(tail.last, Allowed.lines)

(* Refuted.  "tree view (dependencies + redo links)"
   (docs/src/reference/gqueue-reference.md:84): the jobs of the listing.  *)
TreeHidesNothing == \A list \in Trees : Hidden(list) = {}

(* Refuted.  "Preview which jobs can be cancelled, and queued/held jobs that depend
   on them" (docs/src/reference/gcancel-reference.md:30).  *)
PreviewComplete ==
    \A j \in Ids : jobs[j].state \in Active =>
        Blocked(j) = {d \in Ids : j \in DepsOf(d) /\ jobs[d].state \in {"Queued", "Hold"}}

(* Refuted.  "Maximum number of trailing bytes read from the file"
   (handlers/jobs.rs, JobLogContentQuery): the file grows after its size is
   taken.  *)
TailBounded == tail.op = "told" => tail.bytes <= Allowed.bytes

QuerySpec == QueryInit /\ [][QueryNext]_queryVars
=============================================================================
