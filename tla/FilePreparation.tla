-------------------------- MODULE FilePreparation --------------------------
(***************************************************************************)
(* Preparing the files of one module. The files are split into chunks, and *)
(* each chunk is prepared by a worker on its own forks of the module's     *)
(* string table and path table. Once every worker is back, the forks are   *)
(* merged in chunk order: the strings a chunk added, then the paths it     *)
(* added, and its outputs are rewritten to the ids of the merged tables.   *)
(*                                                                         *)
(* A file is what preparation sees of it: the names and paths it writes,   *)
(* in order, whether it warns, and how its preparation ends. An output is  *)
(* the sequence of ids those writes got.                                   *)
(***************************************************************************)
EXTENDS Naturals, Sequences, FiniteSets, Functions

CONSTANTS
    Words,              \* the strings sources are made of
    Modules,            \* the modules explored
    Registered,         \* the logical paths of the source database
    ThreadCounts,       \* sizes of the worker pool
    PathCapacity,       \* nodes a path table can address
    ErrorAllowance,     \* module_error_allowance; 0 is no allowance
    AlwaysSerialCount,  \* FILE_PREPARATION_ALWAYS_SERIAL_FILE_COUNT
    AlwaysParallelCount,\* FILE_PREPARATION_ALWAYS_PARALLEL_FILE_COUNT
    TasksPerThread,     \* FILE_PREPARATION_TARGET_TASKS_PER_THREAD
    MinChunkSize        \* FILE_PREPARATION_MIN_CHUNK_SIZE

\* Something a file writes: one name, or a path of one or more components. A
\* content path is the `content` constant of a Markdown or template source.
Write == [path : BOOLEAN, content : BOOLEAN, text : Seq(Words)]

\* A retained file was prepared into the module's own tables by discovery
\* (PreparedSourceKind::MothPrepared); any other file is prepared here.
File ==
    [ retained : BOOLEAN, writes : Seq(Write), warns : BOOLEAN,
      ends : {"ok", "diagnosed", "infrastructure"} ]

\* large: the sources reach FILE_PREPARATION_MEDIUM_PARALLEL_MIN_BYTES;
\* headers: how prepare_header_syntax ends on the module's outputs.
Module ==
    [ files : Seq(File), large : BOOLEAN,
      headers : {"ok", "diagnosed", "infrastructure"} ]

\* A name is one word, a content path is a path, and a retained file is one
\* that discovery prepared.
ASSUME FilePreparationAssumption ==
    /\ Modules \subseteq Module
    /\ \A m \in Modules : \A i \in DOMAIN m.files :
         /\ m.files[i].retained => m.files[i].ends = "ok"
         /\ \A j \in DOMAIN m.files[i].writes : ~m.files[i].writes[j].path =>
              Len(m.files[i].writes[j].text) = 1 /\ ~m.files[i].writes[j].content
    /\ Registered \in Seq(Seq(Words))
    /\ ThreadCounts \subseteq Nat
    /\ PathCapacity \in Nat \ {0} /\ MinChunkSize \in Nat \ {0}
    /\ ErrorAllowance \in Nat /\ TasksPerThread \in Nat
    /\ AlwaysSerialCount \in Nat /\ AlwaysParallelCount \in Nat

VARIABLES
    module,     \* the module being prepared
    threads,    \* rayon::current_num_threads
    base,       \* fork_source, path_fork_source: the tables every worker forks
    tables,     \* the module's string table and path table
    work,       \* per chunk, the worker's forks and results
    arrived,    \* chunks whose worker is back, in completion order
    merged,     \* chunks merged so far
    slots,      \* PreparedSourceSlots: per file its output
    warnings,   \* files whose warning has been collected
    errors,     \* error diagnostics collected
    phase       \* "preparing", "merging" or how it ended

vars == <<module, threads, base, tables, work, arrived, merged, slots, warnings,
          errors, phase>>

NumFiles == Len(module.files)

-----------------------------------------------------------------------------
(***************************************************************************)
(* Interning. A string's id is its position in the string table. A path    *)
(* node names its parent and the string of its last component, and its id  *)
(* is its position; node 1 is ROOT, and 0 stands for "table full".         *)
(***************************************************************************)
Root == 1
Full == 0
RootNode == [parent |-> 0, component |-> 0]

Interned(t, x) == IF x \in Range(t) THEN t ELSE Append(t, x)
IdOf(t, x) == CHOOSE i \in DOMAIN t : t[i] = x

\* try_intern_child: reuse, then allocate if the table can address one more.
InternChild(paths, node) ==
    IF Len(paths) = PathCapacity /\ node \notin Range(paths)
    THEN [paths |-> paths, id |-> Full]
    ELSE LET p == Interned(paths, node) IN [paths |-> p, id |-> IdOf(p, node)]

\* One component of try_intern_portable_path: the string is interned first,
\* and the walk ends at the first node that does not fit.
Descend(walk, w) ==
    IF walk.at = Full THEN walk
    ELSE LET s == Interned(walk.tables.strings, w)
             c == InternChild(walk.tables.paths,
                              [parent |-> walk.at, component |-> IdOf(s, w)])
         IN [tables |-> [strings |-> s, paths |-> c.paths], at |-> c.id]

Walk(t, text) ==
    LET walk[k \in 0 .. Len(text)] ==
          IF k = 0 THEN [tables |-> t, at |-> Root] ELSE Descend(walk[k - 1], text[k])
    IN walk

InternPath(t, text) == Walk(t, text)[Len(text)]

\* A file's writes against its tables, until one of them does not fit.
WriteOne(acc, w) ==
    IF acc.full THEN acc
    ELSE IF w.path
    THEN LET walk == InternPath(acc.tables, w.text)
         IN [ tables |-> walk.tables,
              full   |-> walk.at = Full,
              ids    |-> IF walk.at = Full THEN acc.ids ELSE Append(acc.ids, walk.at) ]
    ELSE LET s == Interned(acc.tables.strings, w.text[1])
         IN [ tables |-> [strings |-> s, paths |-> acc.tables.paths],
              full   |-> FALSE,
              ids    |-> Append(acc.ids, IdOf(s, w.text[1])) ]

Writing(t, writes) ==
    LET acc[k \in 0 .. Len(writes)] ==
          IF k = 0 THEN [tables |-> t, full |-> FALSE, ids |-> <<>>]
          ELSE WriteOne(acc[k - 1], writes[k])
    IN acc

WriteAll(t, writes) == Writing(t, writes)[Len(writes)]

\* A whole file on top of what has been prepared.
Onto(acc, f) ==
    LET w == WriteAll(acc.tables, f.writes)
    IN [tables |-> w.tables, full |-> acc.full \/ w.full]

\* The tables preparation starts from: the source database's paths, then what
\* the retained files wrote when discovery prepared them.
RegisteredTables ==
    WriteAll([strings |-> <<>>, paths |-> <<RootNode>>],
             [ i \in DOMAIN Registered |->
                 [path |-> TRUE, content |-> FALSE, text |-> Registered[i]] ]).tables

RetainOne(acc, f) == IF f.retained THEN Onto(acc, f) ELSE acc

Discovery(m) ==
    LET acc[i \in 0 .. Len(m.files)] ==
          IF i = 0 THEN [tables |-> RegisteredTables, full |-> FALSE]
          ELSE RetainOne(acc[i - 1], m.files[i])
    IN acc

BaseTables(m) == Discovery(m)[Len(m.files)].tables

\* A file is retained only if all it wrote fitted.
ASSUME DiscoveryFits == \A m \in Modules : ~Discovery(m)[Len(m.files)].full

-----------------------------------------------------------------------------
(***************************************************************************)
(* Chunks. A plan is a sequence of file ranges [first, last].              *)
(***************************************************************************)
AtMost(x, y) == IF x < y THEN x ELSE y
AtLeast(x, y) == IF x < y THEN y ELSE x

\* selection_for_module
Strategy ==
    CASE NumFiles <= AlwaysSerialCount -> "serial"
      [] NumFiles > AlwaysSerialCount /\ NumFiles >= AlwaysParallelCount -> "chunked"
      [] OTHER -> IF module.large THEN "per file" ELSE "serial"

\* plan_file_preparation_chunks: as even as possible, the first ones larger.
ChunkCount ==
    AtLeast(AtMost(AtMost(AtLeast(threads, 1) * TasksPerThread,
                          AtLeast(NumFiles \div MinChunkSize, 1)),
                   NumFiles), 1)

\* Fault: the files left over by an even split go to no chunk.
ChunkPlanEven ==
    LET size == NumFiles \div ChunkCount
    IN [c \in 1 .. ChunkCount |-> [first |-> (c - 1) * size + 1, last |-> c * size]]

ChunkPlan ==
    LET size == NumFiles \div ChunkCount
        larger == NumFiles % ChunkCount
    IN [ c \in 1 .. ChunkCount |->
           [ first |-> (c - 1) * size + AtMost(c - 1, larger) + 1,
             last  |-> c * size + AtMost(c, larger) ] ]

Plan ==
    CASE Strategy = "serial" -> <<[first |-> 1, last |-> NumFiles]>>
      [] Strategy = "per file" -> [i \in 1 .. NumFiles |-> [first |-> i, last |-> i]]
      [] Strategy = "chunked" /\ NumFiles = 0 -> <<>>
      [] Strategy = "chunked" /\ NumFiles > 0 -> ChunkPlan

Chunks == DOMAIN Plan

-----------------------------------------------------------------------------
(***************************************************************************)
(* The workers.                                                            *)
(***************************************************************************)
Init ==
    /\ module \in Modules
    /\ threads \in ThreadCounts
    /\ base = BaseTables(module)
    /\ tables = base
    /\ work = [c \in Chunks |->
                 [tables |-> base, at |-> Plan[c].first, results |-> <<>>]]
    /\ arrived = <<>>
    /\ merged = 0
    /\ slots = [i \in 1 .. NumFiles |-> <<>>]
    /\ warnings = <<>>
    /\ errors = <<>>
    /\ phase = "preparing"

\* How a file ends. A path of its own that does not fit is diagnosed, but the
\* content path the compiler adds for it is an internal error when it does not.
EndOf(f, w) ==
    CASE ~w.full -> f.ends
      [] w.full -> IF f.writes[Len(w.ids) + 1].content THEN "infrastructure"
                                                       ELSE "diagnosed"

\* What preparing file i on tables t leaves: a retained output is passed on
\* with the ids discovery gave it.
Prepared(t, i) ==
    LET f == module.files[i]
        w == WriteAll(t, f.writes)
    IN IF f.retained
       THEN [ tables |-> t,
              result |-> [ file |-> i, domain |-> "global", ends |-> "ok",
                           ids |-> WriteAll(Discovery(module)[i - 1].tables,
                                            f.writes).ids ] ]
       ELSE [ tables |-> w.tables,
              result |-> [file |-> i, domain |-> "local",
                          ends |-> EndOf(f, w), ids |-> w.ids] ]

\* prepare_module_file_chunk: the next file of one worker's chunk.
PrepareFile(c) ==
    /\ phase = "preparing"
    /\ work[c].at <= Plan[c].last
    /\ LET p == Prepared(work[c].tables, work[c].at)
       IN work' = [work EXCEPT ![c] =
                     [ tables |-> p.tables, at |-> @.at + 1,
                       results |-> Append(@.results, p.result) ]]
    /\ UNCHANGED <<module, threads, base, tables, arrived, merged, slots, warnings,
                   errors, phase>>

\* A worker hands its chunk over; the last one ends the parallel phase.
Arrive(c) ==
    /\ phase = "preparing"
    /\ work[c].at > Plan[c].last
    /\ c \notin Range(arrived)
    /\ arrived' = Append(arrived, c)
    /\ UNCHANGED <<module, threads, base, tables, work, merged, slots, warnings,
                   errors, phase>>

\* sort_by_key(chunk_index), validate_distinct_chunk_indexes and the check of
\* every chunk's inherited path prefix against the module's.
\* Fault: chunks are merged in the order their workers finished.
MergeOrderArrival == arrived

MergeOrder ==
    CHOOSE order \in [DOMAIN arrived -> Range(arrived)] :
        \A i, j \in DOMAIN arrived : i < j => order[i] < order[j]

BaseLen == [strings |-> Len(base.strings), paths |-> Len(base.paths)]

Joined ==
    /\ phase = "preparing"
    /\ Len(arrived) = Cardinality(Chunks)
    /\ phase' = IF /\ \A i, j \in DOMAIN arrived : arrived[i] = arrived[j] => i = j
                   /\ BaseLen.paths = Len(tables.paths)
                THEN "merging" ELSE "fault"
    /\ UNCHANGED <<module, threads, base, tables, work, arrived, merged, slots,
                   warnings, errors>>

-----------------------------------------------------------------------------
(***************************************************************************)
(* The merge of one chunk.                                                 *)
(***************************************************************************)

\* StringTable::merge_delta_from: the strings after the shared prefix are
\* interned in the order the worker met them.
MergingStrings(strings, local) ==
    LET all[k \in 0 .. Len(local)] ==
          IF k <= BaseLen.strings THEN strings ELSE Interned(all[k - 1], local[k])
    IN all

MergeStrings(strings, local) ==
    LET all == MergingStrings(strings, local)[Len(local)]
    IN [ strings |-> all,
         remap   |-> [ i \in DOMAIN local |->
                         IF i <= BaseLen.strings THEN i ELSE IdOf(all, local[i]) ] ]

\* PathInternerFork::merge_delta_from: node by node, the parent through the
\* remap built so far and the component through the string remap.
MergeNode(acc, node, strings) ==
    IF acc.full THEN acc
    ELSE LET c == InternChild(acc.paths, [ parent |-> acc.remap[node.parent],
                                           component |-> strings[node.component] ])
         IN [ paths |-> c.paths, full |-> c.id = Full,
              remap |-> Append(acc.remap, c.id) ]

MergingPaths(paths, local, strings) ==
    LET acc[k \in 0 .. Len(local)] ==
          IF k <= BaseLen.paths
          THEN [paths |-> paths, full |-> FALSE, remap |-> [i \in 1 .. BaseLen.paths |-> i]]
          ELSE MergeNode(acc[k - 1], local[k], strings)
    IN acc

MergePaths(paths, local, strings) == MergingPaths(paths, local, strings)[Len(local)]

\* What that merge refuses: another prefix, or a node before its parent.
BaseMismatch(paths, local) ==
    \/ SubSeq(paths, 1, BaseLen.paths) # SubSeq(local, 1, BaseLen.paths)
    \/ \E i \in BaseLen.paths + 1 .. Len(local) : local[i].parent \notin 1 .. i - 1

\* Fault: a remap counts as identity when its last entry is.
IsIdentityLast(remap) == remap = <<>> \/ remap[Len(remap)] = Len(remap)

\* A remap that changes nothing is not applied at all.
IsIdentity(remap) == \A i \in DOMAIN remap : remap[i] = i
Remapped(remap, id) == IF IsIdentity(remap) THEN id ELSE remap[id]

\* A chunk's own outputs are rewritten; a retained one already has module ids.
RemapOutput(r, strings, paths) ==
    LET writes == module.files[r.file].writes
    IN IF r.domain = "global" THEN r
       ELSE [ r EXCEPT !.ids = [ j \in DOMAIN r.ids |->
                IF writes[j].path THEN Remapped(paths, r.ids[j])
                                  ELSE Remapped(strings, r.ids[j]) ] ]

\* freeze_path_syntax rejects a handle that is in no table.
Frozen(t, r) ==
    \A j \in DOMAIN r.ids :
        r.ids[j] \in DOMAIN (IF module.files[r.file].writes[j].path
                             THEN t.paths ELSE t.strings)

Warned(acc, r) ==
    IF module.files[r.file].warns THEN Append(acc, r.file) ELSE acc

\* One prepared file of the chunk, in the order the worker met them.
Collect(acc, r) ==
    CASE acc.end # "merging" -> acc
      [] acc.end = "merging" /\ r.ends = "infrastructure" ->
           [acc EXCEPT !.end = "infrastructure"]
      [] acc.end = "merging" /\ r.ends = "diagnosed" ->
           [acc EXCEPT !.warnings = Warned(@, r),
                       !.errors = Append(@, [file |-> r.file, ids |-> r.ids])]
      [] acc.end = "merging" /\ r.ends = "ok" ->
           IF r.file \in DOMAIN acc.slots /\ acc.slots[r.file] = <<>> /\ acc.frozen[r.file]
           THEN [acc EXCEPT !.warnings = Warned(@, r), !.slots[r.file] = <<r.ids>>]
           ELSE [acc EXCEPT !.end = "fault"]

Collecting(start, results) ==
    LET acc[k \in 0 .. Len(results)] ==
          IF k = 0 THEN start ELSE Collect(acc[k - 1], results[k])
    IN acc

\* The error of a module whose merged paths do not fit; it replaces whatever
\* had been collected. File 0: it is about no one file.
CapacityError == [file |-> 0, ids |-> <<>>]
HeaderError == [file |-> NumFiles + 1, ids |-> <<>>]

MergeChunk ==
    /\ phase = "merging"
    /\ merged < Len(arrived)
    /\ LET c == MergeOrder[merged + 1]
           s == MergeStrings(tables.strings, work[c].tables.strings)
           p == MergePaths(tables.paths, work[c].tables.paths, s.remap)
           results == [ k \in DOMAIN work[c].results |->
                          RemapOutput(work[c].results[k], s.remap, p.remap) ]
           t == [strings |-> s.strings, paths |-> p.paths]
           frozen == [ i \in 1 .. NumFiles |->
                         \A k \in DOMAIN results : results[k].file = i => Frozen(t, results[k]) ]
           all == Collecting([ slots |-> slots, warnings |-> warnings,
                               errors |-> errors, frozen |-> frozen,
                               end |-> "merging" ], results)[Len(results)]
       IN IF BaseMismatch(tables.paths, work[c].tables.paths)
          THEN /\ phase' = "fault"
               /\ UNCHANGED <<tables, slots, warnings, errors>>
          ELSE IF p.full
          THEN /\ phase' = "diagnosed"
               /\ errors' = <<CapacityError>>
               /\ warnings' = <<>>
               /\ tables' = t
               /\ UNCHANGED slots
          ELSE /\ phase' = all.end
               /\ tables' = t
               /\ slots' = all.slots
               /\ warnings' = all.warnings
               /\ errors' = all.errors
    /\ merged' = merged + 1
    /\ UNCHANGED <<module, threads, base, work, arrived>>

\* retain_within_module_error_allowance: every warning stays, and so do the
\* first errors in merge order.
WithinAllowance(e) ==
    IF ErrorAllowance = 0 THEN e ELSE SubSeq(e, 1, AtMost(ErrorAllowance, Len(e)))

\* The end of merge_file_preparation_chunks: diagnostics, then empty slots,
\* then the headers of all files together.
Conclude ==
    /\ phase = "merging"
    /\ merged = Len(arrived)
    /\ phase' = CASE errors # <<>> -> "diagnosed"
                  [] errors = <<>> /\ \E i \in 1 .. NumFiles : slots[i] = <<>> -> "fault"
                  [] OTHER -> IF module.headers = "ok" THEN "accepted" ELSE module.headers
    /\ errors' = IF phase' = "diagnosed" /\ errors = <<>>
                 THEN <<HeaderError>> ELSE WithinAllowance(errors)
    /\ UNCHANGED <<module, threads, base, tables, work, arrived, merged, slots, warnings>>

Ended == phase \in {"accepted", "diagnosed", "infrastructure", "fault"}
Done == Ended /\ UNCHANGED vars

Next ==
    \/ \E c \in Chunks : PrepareFile(c)
    \/ \E c \in Chunks : Arrive(c)
    \/ Joined
    \/ MergeChunk
    \/ Conclude
    \/ Done

Spec == Init /\ [][Next]_vars

-----------------------------------------------------------------------------
(***************************************************************************)
(* What one worker with one table would have done.                         *)
(***************************************************************************)
SequentialOne(acc, f) == IF f.retained THEN acc ELSE Onto(acc, f)

Sequentially ==
    LET acc[i \in 0 .. NumFiles] ==
          IF i = 0 THEN [tables |-> base, full |-> FALSE]
          ELSE SequentialOne(acc[i - 1], module.files[i])
    IN acc

Sequential == Sequentially[NumFiles]

\* The text a path id stands for.
TextOf(t, id) ==
    LET text[i \in DOMAIN t.paths] ==
          IF i = Root THEN <<>>
          ELSE Append(text[t.paths[i].parent], t.strings[t.paths[i].component])
    IN text[id]

StandsFor(t, w, id) ==
    IF w.path THEN TextOf(t, id) = w.text ELSE t.strings[id] = w.text[1]

\* Every id in a merged output, and every id a diagnostic carries, stands in
\* the module's merged tables for exactly what its file wrote: for files
\* prepared in a worker's fork, and for retained files whose ids no merge may
\* touch, at every point of the merge and not only at its end.
IdsResolve ==
    /\ \A i \in 1 .. NumFiles : slots[i] # <<>> =>
         /\ Len(slots[i][1]) = Len(module.files[i].writes)
         /\ \A j \in DOMAIN slots[i][1] :
              StandsFor(tables, module.files[i].writes[j], slots[i][1][j])
    /\ \A k \in DOMAIN errors : \A j \in DOMAIN errors[k].ids :
         StandsFor(tables, module.files[errors[k].file].writes[j], errors[k].ids[j])

Ascending(files) == \A i, j \in DOMAIN files : i < j => files[i] < files[j]

\* Splitting a module never shows: while its paths fit, the merged string and
\* path tables are those of one worker going through the files in order, and
\* a diagnosed module reports every warning and the first errors in file order,
\* as many as the allowance leaves, whichever worker finished first.
MergeIsSequential ==
    phase \in {"accepted", "diagnosed"} /\ ~Sequential.full =>
      LET Warns == {i \in 1 .. NumFiles : module.files[i].warns}
          Failed == {i \in 1 .. NumFiles : module.files[i].ends = "diagnosed"}
          reported == [k \in DOMAIN errors |-> errors[k].file]
      IN /\ tables = Sequential.tables
         /\ Ascending(warnings) /\ Range(warnings) = Warns
         /\ phase = "diagnosed" /\ Failed # {} =>
              /\ Ascending(reported) /\ Range(reported) \subseteq Failed
              /\ ErrorAllowance # 0 => Len(reported) <= ErrorAllowance
              /\ \A i \in Failed \ Range(reported) :
                   /\ Len(reported) = ErrorAllowance
                   /\ \A k \in DOMAIN reported : reported[k] < i

\* Nor does the plan decide whether a module is accepted: it is exactly when
\* each of its files and its headers are and all its paths fit in one table,
\* even where a worker's fork or the merge is what overflows. While they fit, it
\* is an infrastructure failure exactly when one of the files is. And the
\* merge's own consistency checks (a file prepared twice or by nobody, a fork of
\* another prefix, a dangling handle) never fire.
AcceptanceIsPlanIndependent ==
    Ended =>
      LET AllOk == \A i \in 1 .. NumFiles : module.files[i].ends = "ok"
          Broken == \E i \in 1 .. NumFiles : module.files[i].ends = "infrastructure"
      IN /\ phase # "fault"
         /\ (phase = "accepted") <=> (AllOk /\ ~Sequential.full /\ module.headers = "ok")
         /\ ~Sequential.full => ((phase = "infrastructure") <=>
                            (Broken \/ (AllOk /\ module.headers = "infrastructure")))

\* How one worker with one table would end file i.
SequentialEnd(i) == Prepared(Sequentially[i - 1].tables, i).result.ends

\* What the comment on a full path table in merge_file_preparation_chunks says:
\* running out of path ids is a deterministic rejection. A module ends the way
\* one worker would have ended it, however its files were split.
VerdictIsSequential ==
    Ended =>
      LET ends == {SequentialEnd(i) : i \in 1 .. NumFiles}
      IN phase = CASE "infrastructure" \in ends -> "infrastructure"
                   [] "infrastructure" \notin ends /\ "diagnosed" \in ends -> "diagnosed"
                   [] OTHER -> IF module.headers = "ok" THEN "accepted" ELSE module.headers

TypeOK ==
    /\ module \in Modules /\ threads \in ThreadCounts
    /\ DOMAIN work = Chunks
    /\ Range(arrived) \subseteq Chunks
    /\ merged \in 0 .. Len(arrived)
    /\ DOMAIN slots = 1 .. NumFiles
    /\ Range(warnings) \subseteq 1 .. NumFiles
    /\ Len(tables.paths) <= PathCapacity
    /\ phase \in {"preparing", "merging", "accepted", "diagnosed", "infrastructure",
                  "fault"}
=============================================================================
