---------------------------- MODULE MCApplication ----------------------------
(***************************************************************************)
(* What an application builds on, side by side: the parts of the Python    *)
(* process that call back into it, and what outlives a process (the        *)
(* modules directory, external connections, migrations, seeding, the       *)
(* source and generated files).  A behaviour exercises the one that part   *)
(* names.                                                                  *)
(***************************************************************************)
EXTENDS Workflow, PubSub, HotReload, Modules, Database, DslTools, TLC

CONSTANTS
    draft, review, done, i1, i2, f, g, web, models,
    p1, p2, d1, d2, blog, shop, dsn, main, fallback, e1, e2

\* review -> lost is an arrow to a state nobody added; done -> draft is in
\* the dictionary of done but not among the transitions.
MCStates == {draft, review, done}
MCArrows ==
    [s \in MCStates |->
        IF s = draft THEN [a \in {"submit"} |-> review]
        ELSE IF s = review
             THEN [a \in {"approve", "lose"} |-> IF a = "lose" THEN "lost" ELSE done]
             ELSE [a \in {"reopen"} |-> draft]]
MCListed == {<<draft, "submit">>, <<review, "approve">>, <<review, "lose">>}
MCInstances == {i1, i2}
MCCallbackSet == {f, g}
MCDirs == {web, models}

MCProcs == {p1, p2}
MCDirNames == {d1, d2}
MCSources == [s \in {blog, shop} |-> [name |-> s, marked |-> s = shop]]
\* dsn and main lead to the database main, default to another one.
MCPaths == {dsn, main, Default}
MCDbName == [p \in MCPaths |-> IF p = Default THEN fallback ELSE main]
MCMigrations == <<[idem |-> TRUE, undo |-> TRUE], [idem |-> FALSE, undo |-> TRUE],
                  [idem |-> TRUE, undo |-> FALSE]>>
MCSeeders == {p1, p2}
MCEmails == {e1, e2}

\* Processes and directory names are interchangeable.
Symmetry == Permutations(MCProcs) \cup Permutations(MCDirNames)

VARIABLE part

callbackVars == <<wfVars, psVars, hrVars>>
persistenceVars == <<modVars, poolVars, migVars, seedVars, fmtVars, smapVars>>
applicationVars == <<part, callbackVars, persistenceVars>>

ApplicationInit ==
    /\ part \in {"workflow", "pubsub", "reload",
                 "modules", "pool", "migrations", "seed", "format", "map"}
    /\ WfInit /\ PsInit /\ HrInit
    /\ ModInit /\ PoolInit /\ MigInit /\ SeedInit /\ FmtInit /\ SmapInit
    /\ part # "reload" => exists = {}

CallbacksNext ==
    /\ UNCHANGED persistenceVars
    /\ \/ part = "workflow" /\ WfNext /\ UNCHANGED <<psVars, hrVars>>
       \/ part = "pubsub" /\ PsNext /\ UNCHANGED <<wfVars, hrVars>>
       \/ part = "reload" /\ HrNext /\ UNCHANGED <<wfVars, psVars>>

PersistenceNext ==
    /\ UNCHANGED callbackVars
    /\ \/ /\ part = "modules" /\ ModNext
          /\ UNCHANGED <<poolVars, migVars, seedVars, fmtVars, smapVars>>
       \/ /\ part = "pool" /\ PoolNext
          /\ UNCHANGED <<modVars, migVars, seedVars, fmtVars, smapVars>>
       \/ /\ part = "migrations" /\ MigNext
          /\ UNCHANGED <<modVars, poolVars, seedVars, fmtVars, smapVars>>
       \/ /\ part = "seed" /\ SeedNext
          /\ UNCHANGED <<modVars, poolVars, migVars, fmtVars, smapVars>>
       \/ /\ part = "format" /\ FmtNext
          /\ UNCHANGED <<modVars, poolVars, migVars, seedVars, smapVars>>
       \/ /\ part = "map" /\ SmapNext
          /\ UNCHANGED <<modVars, poolVars, migVars, seedVars, fmtVars>>

ApplicationNext == UNCHANGED part /\ (CallbacksNext \/ PersistenceNext)

ApplicationSpec == ApplicationInit /\ [][ApplicationNext]_applicationVars
=============================================================================
