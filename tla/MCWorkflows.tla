------------------------------ MODULE MCWorkflows ------------------------------
(***************************************************************************)
(* What the user starts by hand, and what becomes of text, for TLC: the    *)
(* bootstrap run, the legacy migration, the include scope, the chunker and *)
(* search.  They share no state, so a behaviour exercises one of them,     *)
(* chosen at its start, while the others rest.                             *)
(***************************************************************************)
EXTENDS BootstrapRun, Migration, IncludeIndexer, Chunker, SearchRanking, TLC

CONSTANTS b1, b2, wide, narrow, f1, f2, f3, t1, t2, p1, p2, g1, g2

MCInScope == wide :> {b1, b2} @@ narrow :> {b1}
MCBody == f1 :> t1 @@ f2 :> t1 @@ f3 :> t2
MCGroupOf == p1 :> g1 @@ p2 :> g2
MCSizeOf == "heading" :> 2 @@ "blank" :> 0 @@ "short" :> 1 @@ "long" :> 4
MCOverFetch == [factor |-> 1, least |-> 2]

VARIABLE part

workflowsVars == <<part, bootstrapVars, migrationVars, includeVars, chunkerVars, rankingVars>>

MigrationRests == MigrationInit /\ legacy = {} /\ pointer = "none"

IncludeRests == IncludeInit /\ scope.deny = {} /\ \A p \in Paths : tree[p].text = t1

ChunkerRests == body = <<>> /\ chunks = NotChunked /\ limit = CHOOSE l \in Limits : TRUE

RankingRests ==
    /\ memory = <<>> /\ sessions = <<>> /\ answer = NoAnswer
    /\ query = [source |-> "all", k |-> 1, includeInvalidated |-> FALSE,
                excludeInvalidated |-> FALSE, respectValidFrom |-> FALSE]

WorkflowsInit ==
    /\ BootstrapInit
    /\ \/ /\ part = "bootstrap"
          /\ MigrationRests /\ IncludeRests /\ ChunkerRests /\ RankingRests
       \/ /\ part = "migration"
          /\ MigrationInit /\ IncludeRests /\ ChunkerRests /\ RankingRests
       \/ /\ part \in {"convert", "overlap"}
          /\ MigrationRests /\ IncludeInit /\ ChunkerRests /\ RankingRests
          /\ \A p \in Paths : tree[p].text = t1
       \/ /\ part = "chunk"
          /\ MigrationRests /\ IncludeRests /\ ChunkerInit /\ RankingRests
       \/ /\ part = "search"
          /\ MigrationRests /\ IncludeRests /\ ChunkerRests /\ RankingInit

\* "convert": one session-index run at a time, and every edit.  "overlap": two at a
\* time, and edits of the directory only.
WorkflowsNext ==
    /\ UNCHANGED part
    /\ \/ /\ part = "bootstrap" /\ BootstrapNext
          /\ UNCHANGED <<migrationVars, includeVars, chunkerVars, rankingVars>>
       \/ /\ part = "migration" /\ MigrationNext
          /\ UNCHANGED <<bootstrapVars, includeVars, chunkerVars, rankingVars>>
       \/ /\ part = "convert" /\ IncludeNext
          /\ \A x \in Converters : x = (CHOOSE y \in Converters : TRUE) \/ ~Converting(x)'
          /\ UNCHANGED <<bootstrapVars, migrationVars, chunkerVars, rankingVars>>
       \/ /\ part = "overlap" /\ IncludeNext
          /\ scope' = scope /\ editors' = editors /\ cuts' = cuts
          /\ UNCHANGED <<bootstrapVars, migrationVars, chunkerVars, rankingVars>>
       \/ /\ part = "chunk" /\ ChunkBody
          /\ UNCHANGED <<bootstrapVars, migrationVars, includeVars, rankingVars>>
       \/ /\ part = "search" /\ SearchAll
          /\ UNCHANGED <<bootstrapVars, migrationVars, includeVars, chunkerVars>>

WorkflowsSpec == WorkflowsInit /\ [][WorkflowsNext]_workflowsVars
=============================================================================
