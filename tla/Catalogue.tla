------------------------------ MODULE Catalogue ------------------------------
(***************************************************************************)
(* The problem catalogue: admins create, edit, publish, archive and restore *)
(* problems; readers get a problem or the list of tags through a cache that *)
(* the admins' calls invalidate; a vector index follows each change.  The   *)
(* judge counts submissions in the same rows, and readers see the counts.    *)
(* A handler is several steps: it reads its rows, commits, deletes cache     *)
(* entries and updates the index, with other handlers in between.           *)
(***************************************************************************)
EXTENDS Integers, FiniteSets

CONSTANTS
  Problems,     \* ids of problems; 1 exists from the start
  Slugs,
  Ready,        \* contents, as versions, that pass validate_problem
  MaxVersion,   \* bound: contents that are ever written for a problem, counted from 1
  MaxTags,      \* bound: tags that exist beside the first ones
  Editors,      \* bound: admins' calls at the same time
  Readers,      \* bound: readers that fill the cache at the same time
  Judgings,     \* bound: submissions that are judged, each by a worker of its own
  Scenes        \* bound: sets of the operations that go on together, of "rag" (the index is
                \* configured), "read", "list", "create", "write", "state", "tag", "judge" and
                \* "again" (one content more is written for a problem)

ASSUME CatalogueAssumption ==
  /\ Problems \subseteq Nat \ {0} /\ 1 \in Problems
  /\ IsFiniteSet(Slugs) /\ Slugs \intersect {"tags", ""} = {}
  /\ Ready \subseteq Nat /\ MaxVersion \in Nat \ {0} /\ MaxTags \in Nat
  /\ Editors \subseteq Nat /\ Readers \subseteq Nat /\ Judgings \subseteq Nat

VARIABLES
  problem,   \* problem[p]: the row with its tags, test cases, examples and starter code
  judged,    \* judged[p]: total_submissions of the row, and accepted_submissions with it
  tags,      \* how many tags have been added
  versions,  \* versions[p]: how many contents have been written, or are about to be
  detail,    \* detail[k]: the cache entry of a slug or, under "tags", of the list of tags
  index,     \* index[p]: the content that the vector index holds for p; 0 for none
  editor,    \* editor[a]: an admin's call
  reader,    \* reader[r]: a reader that is about to fill the cache
  judging,   \* judging[j]: a worker that judges a submission and counts it
  scene,     \* which operations go on
  drifted    \* history: problems whose index missed, or may have missed, a change

judgeVars == <<judged, judging>>
catalogueVars ==
  <<problem, tags, versions, detail, index, editor, reader, scene, drifted, judgeVars>>

Keys == Slugs \union {"tags"}
NoRow == [version |-> 0, slug |-> "", published |-> FALSE, archived |-> FALSE]
NoEditor == [at |-> "idle", p |-> 0, seen |-> NoRow, new |-> NoRow, keys |-> {}, moved |-> {},
             met |-> FALSE]
Nothing == [has |-> FALSE, value |-> {}, excused |-> FALSE]
NoReader == [key |-> "", value |-> {}, excused |-> FALSE]
NoJudging == [at |-> "none", p |-> 0, slug |-> "", moved |-> {}]

Stored(p) == problem[p].version # 0
Shown(row) == row.published /\ ~row.archived

\* What a reader of a key would be told: the tags with their problems (list_tags), or a problem
\* with its statistics (to_public), which differ whenever one more submission is counted.
Current(k) ==
  IF k = "tags"
  THEN {<<tags, {p \in Problems : Shown(problem[p])}>>}
  ELSE {<<p, problem[p].version, judged[p]>> :
          p \in {q \in Problems : problem[q].slug = k /\ Shown(problem[q])}}

-----------------------------------------------------------------------------
CatalogueTypeOK ==
  /\ \A p \in Problems :
       /\ versions[p] \in 0 .. MaxVersion /\ problem[p].version \in 0 .. versions[p]
       /\ problem[p].slug \in Slugs \union {""}
       /\ problem[p].published \in BOOLEAN /\ problem[p].archived \in BOOLEAN
       /\ index[p] \in 0 .. versions[p]
  /\ \A p, q \in Problems : Stored(p) /\ problem[p].slug = problem[q].slug => p = q
  /\ tags \in 0 .. MaxTags
  /\ \A k \in Keys : detail[k].has \in BOOLEAN /\ detail[k].excused \in BOOLEAN
  /\ \A a \in Editors : /\ editor[a].at \in {"idle", "read", "committed", "invalidated"}
                        /\ editor[a].keys \subseteq Keys
  /\ \A r \in Readers : reader[r].key \in Keys \union {""}
  /\ judged \in [Problems -> Nat]
  /\ \A j \in Judgings : judging[j].at \in {"none", "loaded", "counted", "over"}
  /\ scene \in Scenes /\ drifted \subseteq Problems

\* A problem that has been created and, if its content passes, published.
CatalogueInit ==
  /\ \E s \in Slugs, b \in BOOLEAN :
       /\ b => 1 \in Ready
       /\ problem = [p \in Problems |->
            IF p = 1 THEN [NoRow EXCEPT !.version = 1, !.slug = s, !.published = b] ELSE NoRow]
  /\ versions = [p \in Problems |-> problem[p].version]
  /\ tags = 0
  /\ detail = [k \in Keys |-> Nothing]
  /\ index = [p \in Problems |-> IF Shown(problem[p]) THEN 1 ELSE 0]
  /\ editor = [a \in Editors |-> NoEditor]
  /\ reader = [r \in Readers |-> NoReader]
  /\ judged = [p \in Problems |-> 0] /\ judging = [j \in Judgings |-> NoJudging]
  /\ scene \in Scenes
  /\ drifted = {}

-----------------------------------------------------------------------------
(* Admins                                                                  *)

IdleEditor(a) == editor[a] = NoEditor /\ \A o \in Editors : o < a => editor[o] # NoEditor
At(a, stage) == editor[a].at = stage
Meets(p) == \E o \in Editors : editor[o].p = p /\ editor[o] # NoEditor

\* The call now works on what it has read; calls that meet on a problem know it.
Begins(a, p, new, keys) ==
  editor' = [o \in Editors |->
    IF o = a
    THEN [at |-> "read", p |-> p, seen |-> problem[p], new |-> new, keys |-> keys,
          moved |-> {}, met |-> Meets(p)]
    ELSE [editor[o] EXCEPT !.met = @ \/ (editor[o] # NoEditor /\ editor[o].p = p)]]

\* A wrong Reads: the slug that the problem had before is forgotten.
ReadsNewSlug(a, p, new) == Begins(a, p, new, {"tags", new.slug})

\* The keys that will be invalidated: the tags, the slug as it was and as it will be.
Reads(a, p, new) ==
  Begins(a, p, new, {"tags", new.slug} \union (IF Stored(p) THEN {problem[p].slug} ELSE {}))

\* A wrong SlugFree: any slug will do.
SlugAnyhow(s, p) == s \in Slugs

\* _check_slug
SlugFree(s, p) == \A q \in Problems \ {p} : problem[q].slug # s

WriteContent(a, p) ==
  /\ IdleEditor(a) /\ versions[p] < (IF "again" \in scene THEN MaxVersion ELSE MaxVersion - 1)
  /\ \E s \in Slugs :
       /\ SlugFree(s, p)
       /\ Reads(a, p, [problem[p] EXCEPT !.version = versions[p] + 1, !.slug = s])
  /\ versions' = [versions EXCEPT ![p] = @ + 1]
  /\ UNCHANGED <<problem, tags, detail, index, reader, scene, drifted, judgeVars>>

\* create_problem: ids are given out in order, each to one call.
Create(a, p) ==
  /\ "create" \in scene
  /\ versions[p] = 0 /\ \A q \in Problems : q < p => versions[q] # 0
  /\ WriteContent(a, p)

\* update_problem: what is published is not validated again.
Update(a, p) == "write" \in scene /\ Stored(p) /\ WriteContent(a, p)

\* validate_problem, which change_state asks before it publishes.
Publishable(row) == row.version \in Ready

\* change_state; calls that change nothing are left out.
ChangeState(a, p) ==
  /\ "state" \in scene /\ IdleEditor(a) /\ Stored(p)
  /\ \E row \in {[problem[p] EXCEPT !.published = b] : b \in BOOLEAN}
                \union {[problem[p] EXCEPT !.archived = b] : b \in BOOLEAN} :
       /\ row # problem[p]
       /\ row.published => problem[p].published \/ (~row.archived /\ Publishable(row))
       /\ Reads(a, p, row)
  /\ UNCHANGED <<problem, tags, versions, detail, index, reader, scene, drifted, judgeVars>>

\* create_tag; the check for an existing name and slug is left out with the names.
CreateTag(a) ==
  /\ "tag" \in scene /\ IdleEditor(a) /\ tags < MaxTags
  /\ tags' = tags + 1
  /\ editor' = [editor EXCEPT ![a] = [NoEditor EXCEPT !.at = "committed", !.keys = {"tags"}]]
  /\ reader' = [r \in Readers |-> [reader[r] EXCEPT !.excused = @ \/ reader[r].key = "tags"]]
  /\ UNCHANGED <<problem, versions, detail, index, scene, drifted, judgeVars>>

\* The ORM writes the attributes that differ from what was loaded.
Merged(row, seen, new) ==
  [f \in DOMAIN row |-> IF new[f] = seen[f] THEN row[f] ELSE new[f]]

\* For the properties: a reader that holds what this commit changes is no longer right.
ReadersOutdated ==
  reader' = [r \in Readers |->
    [reader[r] EXCEPT !.excused = @ \/ reader[r].key \in {k \in Keys : Current(k)' # Current(k)}]]

\* For the properties: moved is the slug of the problem when another call has changed the one
\* that was read.
CommitEdit(a) ==
  LET e == editor[a]
      row == Merged(problem[e.p], e.seen, e.new)
  IN /\ At(a, "read")
     /\ SlugFree(row.slug, e.p)
     /\ UNCHANGED <<tags, versions, detail, index, scene, drifted, judgeVars>>
     /\ problem' = [problem EXCEPT ![e.p] = row]
     /\ editor' = [editor EXCEPT ![a].at = "committed", ![a].seen = NoRow,
                              ![a].moved = {problem[e.p].slug} \ {e.seen.slug}]
     /\ ReadersOutdated

\* The unique key refuses the slug.
CommitConflicts(a) ==
  LET e == editor[a] IN
  /\ At(a, "read")
  /\ ~SlugFree(Merged(problem[e.p], e.seen, e.new).slug, e.p)
  /\ editor' = [editor EXCEPT ![a] = NoEditor]
  /\ UNCHANGED <<problem, tags, versions, detail, index, reader, scene, drifted, judgeVars>>

\* Cache.delete: a failure is logged.  For the properties: an entry that is not reached,
\* because of a failure or because it is of a slug that only another call knew, is excused.
Deletes(keys, moved) ==
  LET missed == [k \in Keys |-> [detail[k] EXCEPT !.excused =
                   @ \/ (detail[k].has /\ k \in keys \union moved)]]
  IN detail' \in {missed, [k \in Keys |-> IF k \in keys THEN Nothing ELSE missed[k]]}

\* _invalidate
Invalidate(a) ==
  LET e == editor[a]
  IN /\ At(a, "committed")
     /\ Deletes(e.keys, e.moved)
     /\ editor' = [editor EXCEPT ![a] =
          IF e.p = 0 \/ "rag" \notin scene THEN NoEditor
          ELSE [e EXCEPT !.at = "invalidated", !.keys = {}, !.moved = {}]]
     /\ UNCHANGED <<problem, tags, versions, index, reader, scene, drifted, judgeVars>>

\* A wrong Reindex: what is not shown any more stays in the index.
ReindexShown(a) ==
  LET e == editor[a] IN
  /\ At(a, "invalidated")
  /\ \/ /\ index' = [index EXCEPT ![e.p] = IF Shown(e.new) THEN e.new.version ELSE @]
        /\ drifted' = IF e.met THEN drifted \union {e.p} ELSE drifted \ {e.p}
     \/ drifted' = drifted \union {e.p} /\ UNCHANGED index
  /\ editor' = [editor EXCEPT ![a] = NoEditor]
  /\ UNCHANGED <<problem, tags, versions, detail, reader, scene, judgeVars>>

\* index_problem with the object of this call: upsert what is shown, remove what is not;
\* any failure is passed over.
Reindex(a) ==
  LET e == editor[a] IN
  /\ At(a, "invalidated")
  /\ \/ /\ index' = [index EXCEPT ![e.p] = IF Shown(e.new) THEN e.new.version ELSE 0]
        /\ drifted' = IF e.met THEN drifted \union {e.p} ELSE drifted \ {e.p}
     \/ drifted' = drifted \union {e.p} /\ UNCHANGED index
  /\ editor' = [editor EXCEPT ![a] = NoEditor]
  /\ UNCHANGED <<problem, tags, versions, detail, reader, scene, judgeVars>>

-----------------------------------------------------------------------------
(* The judge                                                               *)

\* _load_problem: the slug is read before the judging; drafts are judged in contests.
JudgeLoads(j, p) ==
  /\ "judge" \in scene /\ Stored(p)
  /\ judging[j].at = "none" /\ \A o \in Judgings : o < j => judging[o].at # "none"
  /\ judging' = [judging EXCEPT ![j] = [at |-> "loaded", p |-> p, slug |-> problem[p].slug,
                                        moved |-> {}]]
  /\ UNCHANGED <<problem, tags, versions, detail, index, editor, reader, scene, drifted, judged>>

\* The commit of _persist: the statistics are changed in SQL, no other column of the row is.
JudgeCounts(j) ==
  LET p == judging[j].p
  IN /\ judging[j].at = "loaded"
     /\ judged' = [judged EXCEPT ![p] = @ + 1]
     /\ judging' = [judging EXCEPT ![j].at = "counted",
                                   ![j].moved = {problem[p].slug} \ {judging[j].slug}]
     /\ UNCHANGED <<problem, tags, versions, detail, index, editor, scene, drifted>>
     /\ ReadersOutdated

\* The end of _persist: the entry of the slug that was read is deleted.  A worker that dies
\* instead leaves it, and its message, when it is delivered again, claims nothing.
JudgeDeletes(j) ==
  /\ judging[j].at = "counted"
  /\ Deletes({judging[j].slug}, judging[j].moved)
  /\ judging' = [judging EXCEPT ![j].at = "over"]
  /\ UNCHANGED <<problem, tags, versions, index, editor, reader, scene, drifted, judged>>

-----------------------------------------------------------------------------
(* Readers                                                                 *)

\* get_public_problem, list_tags: a miss (or no Redis), then the rows.  A problem that is
\* not visible is not cached.
ReadRows(r, k) ==
  /\ reader[r] = NoReader /\ \A o \in Readers : o < r => reader[o] # NoReader
  /\ IF k = "tags" THEN "list" \in scene ELSE "read" \in scene
  /\ ~detail[k].has
  /\ Current(k) # {}
  /\ reader' = [reader EXCEPT ![r] = [key |-> k, value |-> Current(k), excused |-> FALSE]]
  /\ UNCHANGED <<problem, tags, versions, detail, index, editor, scene, drifted, judgeVars>>

\* ... and the entry is stored, if Redis is there.
FillCache(r) ==
  LET e == reader[r] IN
  /\ e # NoReader
  /\ detail' \in {detail, [detail EXCEPT ![e.key] =
                             [has |-> TRUE, value |-> e.value, excused |-> e.excused]]}
  /\ reader' = [reader EXCEPT ![r] = NoReader]
  /\ UNCHANGED <<problem, tags, versions, index, editor, scene, drifted, judgeVars>>

\* CACHE_TTL_SECONDS are over.
EntryExpires(k) ==
  /\ detail[k].has
  /\ detail' = [detail EXCEPT ![k] = Nothing]
  /\ UNCHANGED <<problem, tags, versions, index, editor, reader, scene, drifted, judgeVars>>

CatalogueNext ==
  \/ \E a \in Editors :
       \/ \E p \in Problems : Create(a, p) \/ Update(a, p) \/ ChangeState(a, p)
       \/ CreateTag(a) \/ CommitEdit(a) \/ CommitConflicts(a) \/ Invalidate(a) \/ Reindex(a)
  \/ \E j \in Judgings :
       (\E p \in Problems : JudgeLoads(j, p)) \/ JudgeCounts(j) \/ JudgeDeletes(j)
  \/ \E r \in Readers, k \in Keys : ReadRows(r, k)
  \/ \E r \in Readers : FillCache(r)
  \/ \E k \in Keys : EntryExpires(k)

CatalogueSpec == CatalogueInit /\ [][CatalogueNext]_catalogueVars

-----------------------------------------------------------------------------
(* Properties                                                              *)

\* What readers get from the cache is what the database would tell them, except for the
\* moment between a commit (an admin's, or the judge's of the statistics) and its invalidation
\* and except for entries that a reader filled over a commit, that were not deleted because
\* Redis failed or the worker died, or that a call left behind because the slug is one that
\* another call had given the problem meanwhile: those last until they expire.
CacheAgrees ==
  \A k \in Keys :
    detail[k].has /\ ~detail[k].excused /\ detail[k].value # Current(k) =>
      \/ \E a \in Editors : At(a, "committed") /\ k \in editor[a].keys \union editor[a].moved
      \/ \E j \in Judgings : /\ judging[j].at = "counted"
                               /\ k \in {judging[j].slug} \union judging[j].moved

\* The index is as an admin believes to have saved it (rag/service.py): as soon as a call
\* is over that did not meet another on its problem, and whose update of the index worked,
\* the index holds the content that readers see, and nothing of a problem that they do not.
IndexFollows ==
  \A p \in Problems \ drifted :
    "rag" \in scene /\ ~Meets(p) => index[p] = IF Shown(problem[p]) THEN problem[p].version ELSE 0
=============================================================================
