--------------------------- MODULE DevPublication ---------------------------
(***************************************************************************)
(* How a dev build is published: projects/dev_server/{state,build_loop}.rs *)
(* and the part of http.rs that answers a page request.                    *)
(*                                                                         *)
(* One builder thread turns the outcome of a build cycle into the shared   *)
(* BuildState in three steps: it reads the next version under the lock,    *)
(* renders without it, and switches every field under the lock again.  A   *)
(* failed build keeps the artifacts of the last good one and only stores   *)
(* its error page.  Artifact contents are abstracted to the set of pages   *)
(* and the version they were built as.                                     *)
(***************************************************************************)
EXTENDS Naturals

CONSTANTS
    Pages,      \* HTML pages a build may emit
    Home,       \* the page behind "/", the entry page of every build
    MaxBuilds   \* bound: published builds

ASSUME PublicationAssumption ==
    /\ MaxBuilds \in Nat
    /\ Home \in Pages

VARIABLES
    version,        \* last_build_version
    ok,             \* last_build_ok
    errorVersion,   \* build whose page last_error_html holds; 0: None
    servedVersion,  \* served_artifacts_version
    servedPages,    \* served_artifacts / served_html_entries
    bpc,            \* the builder: "idle", "render", "broadcast"
    outcome,        \* its local outcome: [ok, pages]
    nextVersion     \* the version it read under the first lock

publicationVars == <<version, ok, errorVersion, servedVersion, servedPages,
                     bpc, outcome, nextVersion>>

PublicationTypeOK ==
    /\ version \in 0..MaxBuilds
    /\ ok \in BOOLEAN
    /\ errorVersion \in 0..MaxBuilds
    /\ servedVersion \in 0..MaxBuilds
    /\ servedPages \in SUBSET Pages
    /\ bpc \in {"idle", "render", "broadcast"}
    /\ outcome \in [ok : BOOLEAN, pages : SUBSET Pages]
    /\ nextVersion \in 0..MaxBuilds

(* BuildState::new                                                         *)
PublicationInit ==
    /\ version = 0
    /\ ok = FALSE
    /\ errorVersion = 0
    /\ servedVersion = 0
    /\ servedPages = {}
    /\ bpc = "idle"
    /\ outcome = [ok |-> FALSE, pages |-> {}]
    /\ nextVersion = 0

(* A build cycle ends: success with its captured pages, or any failure of  *)
(* compiling, writing, configuring, capturing, or a panic of the worker.   *)
(* The version is read under the lock; nothing is visible yet.             *)
CycleOutcome ==
    /\ bpc = "idle"
    /\ version < MaxBuilds
    /\ \/ \E pages \in SUBSET Pages :
            outcome' = [ok |-> TRUE, pages |-> pages]
       \/ outcome' = [ok |-> FALSE, pages |-> {}]
    /\ nextVersion' = version + 1
    /\ bpc' = "render"
    /\ UNCHANGED <<version, ok, errorVersion, servedVersion, servedPages>>

(* The second critical section of publish_build_outcome.                   *)
PublishOutcome ==
    /\ bpc = "render"
    /\ version' = nextVersion
    /\ ok' = outcome.ok
    /\ \/ /\ outcome.ok
          /\ errorVersion' = 0
          /\ servedVersion' = nextVersion
          /\ servedPages' = outcome.pages
       \/ /\ ~outcome.ok
          /\ errorVersion' = nextVersion
          /\ UNCHANGED <<servedVersion, servedPages>>
    /\ bpc' = "broadcast"
    /\ UNCHANGED <<outcome, nextVersion>>

NotFound == 0

(* The build number injected into the answer to GET page, NotFound for a   *)
(* plain-text 404, which carries no dev client.  Before the first success  *)
(* "/" has no entry page and reports the failure.                          *)
ErrorPage == IF errorVersion = 0 THEN version ELSE errorVersion

(* Mutant of PreparedResponse: a failed build's page carries the number of *)
(* the artifacts that are still served.                                    *)
PreparedResponseOld(page) ==
    IF servedVersion = 0
    THEN IF page = Home THEN ErrorPage ELSE NotFound
    ELSE IF page \notin servedPages THEN NotFound ELSE servedVersion

PreparedResponse(page) ==
    IF servedVersion = 0
    THEN IF page = Home THEN ErrorPage ELSE NotFound
    ELSE IF page \notin servedPages THEN NotFound
         ELSE IF ok THEN servedVersion ELSE ErrorPage
=============================================================================
