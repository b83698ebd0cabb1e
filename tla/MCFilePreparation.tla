------------------------- MODULE MCFilePreparation -------------------------
(***************************************************************************)
(* Modules of up to three files, each of a few kinds that write the same   *)
(* names and paths in different orders; a file that is prepared here and   *)
(* accepted ends with its own content path. The thresholds of the code are *)
(* scaled down with the number of files: one file is always serial, two    *)
(* are per file if large, three are always chunked.                        *)
(***************************************************************************)
EXTENDS FilePreparation

\* The logical path of each file.
MCRegistered == << <<"s1">>, <<"s2">>, <<"s3">> >>

Name(w) == [path |-> FALSE, content |-> FALSE, text |-> <<w>>]
Path(text) == [path |-> TRUE, content |-> FALSE, text |-> text]
Content(i) ==
    [path |-> TRUE, content |-> TRUE, text |-> Append(MCRegistered[i], "content")]

Source(writes, warns, ends) ==
    [retained |-> FALSE, writes |-> writes, warns |-> warns, ends |-> ends]

MCFiles(i) ==
    { Source(<<Name("a"), Path(<<"a", "b">>), Content(i)>>, TRUE, "ok"),
      Source(<<Path(<<"b", "a">>), Name("b"), Content(i)>>, FALSE, "ok"),
      Source(<<Name("c"), Path(<<"a", "b", "c">>)>>, FALSE, "diagnosed"),
      Source(<<Path(<<"c">>), Path(<<"b", "c">>)>>, TRUE, "diagnosed"),
      Source(<<Name("c"), Name("b"), Content(i)>>, TRUE, "ok"),
      Source(<<Name("b")>>, FALSE, "infrastructure"),
      [ retained |-> TRUE, writes |-> <<Path(Append(MCRegistered[i], "c")), Name("a")>>,
        warns |-> TRUE, ends |-> "ok" ] }

Mod(files, large, headers) == [files |-> files, large |-> large, headers |-> headers]

FilesOf(n) == {fs \in [1 .. n -> UNION {MCFiles(i) : i \in 1 .. n}] :
                 \A i \in 1 .. n : fs[i] \in MCFiles(i)}

MCModules ==
    {Mod(fs, FALSE, "ok") : fs \in UNION {FilesOf(n) : n \in 0 .. 3}}
    \cup
    {Mod(fs, TRUE, h) : fs \in FilesOf(2), h \in {"ok", "diagnosed", "infrastructure"}}

\* Three Markdown files: nothing of their own but rendered text and content.
MCMarkdown ==
    {Mod([i \in 1 .. 3 |-> Source(<<Name("a"), Content(i)>>, FALSE, "ok")], FALSE, "ok")}
=============================================================================
