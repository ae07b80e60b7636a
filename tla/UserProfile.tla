----------------------------- MODULE UserProfile -----------------------------
(***************************************************************************)
(* The user's own row, edited by patches: the handler reads the row, lays  *)
(* the patch over it and writes every column back, in two statements that  *)
(* no transaction joins.  Two patches at once may undo each other's.       *)
(***************************************************************************)
EXTENDS Requests, FiniteSetsExt, Functions

CONSTANTS
    Field,          \* the columns a patch may name
    Value,          \* what they may be set to
    Null,           \* not set
    Required,       \* the columns a complete profile has set
    Terms           \* the one of them that is set once: terms_accepted_at

ASSUME UserProfileAssumption ==
    /\ Null \notin Value
    /\ Required \subseteq Field /\ Terms \in Required

VARIABLES
    user,           \* the columns of the row in users
    completed,      \* its profile_completed
    patching,       \* patching[r]: the patch of request r and the row it read
    wanted,         \* history: what was last asked of each column
    undone          \* history: columns an overtaken request has written back as it read them

userVars == <<user, completed, patching, wanted, undone>>

-----------------------------------------------------------------------------

Columns == [Field -> Value \cup {Null}]

\* A patch names some of the columns; the others are left out of the request.
Patch == UNION {[names -> Value] : names \in SUBSET Field}

\* since: columns written by others after the read.
Patching ==
    {Idle} \cup [op: {"patching"}, patch: Patch, read: Columns, since: SUBSET Field]

UserProfileTypeOK ==
    /\ user \in Columns /\ wanted \in Columns
    /\ completed \in BOOLEAN
    /\ patching \in [Request -> Patching]
    /\ undone \subseteq Field

UserProfileInit ==
    /\ user = [f \in Field |-> Null] /\ wanted = user
    /\ completed = FALSE
    /\ patching = [r \in Request |-> Idle]
    /\ undone = {}

-----------------------------------------------------------------------------

Complete(row) == \A f \in Required : row[f] # Null

\* The patch over the row as it was read; accepted terms are not accepted again.
mergeUserPatch(current, patch) ==
    [f \in Field |->
        IF f \in DOMAIN patch /\ ~(f = Terms /\ current[Terms] # Null) THEN patch[f] ELSE current[f]]

\* Mutant: the statement sets the terms as it sets the others.
SetAll(row, merged) == merged

\* Every column is written, but the terms only where the row has none by now.
updateUserProfile(row, merged) ==
    [merged EXCEPT ![Terms] = IF row[Terms] = Null THEN merged[Terms] ELSE row[Terms]]

GetUserByID(r, patch) ==
    /\ patching[r] = Idle
    /\ patching' = [patching EXCEPT ![r] =
           [op |-> "patching", patch |-> patch, read |-> user, since |-> {}]]
    /\ UNCHANGED <<user, completed, wanted, undone>>

\* The columns this patch changes what is wanted of.
Asked(patch) == {f \in DOMAIN patch : f # Terms \/ user[Terms] = Null}

\* Whether the profile is complete is worked out from the merged row and written with it.
UpdateMe(r) ==
    /\ patching[r] # Idle
    /\ LET patch == patching[r].patch
           merged == mergeUserPatch(patching[r].read, patch)
           asked == Asked(patch)
       IN  /\ user' = updateUserProfile(user, merged)
           /\ completed' = Complete(merged)
           /\ wanted' = [f \in Field |-> IF f \in asked THEN patch[f] ELSE wanted[f]]
           /\ undone' = ((undone \cup patching[r].since) \ asked) \ {Terms}
           /\ patching' = [q \in Request |->
                  IF q = r THEN Idle
                  ELSE IF patching[q] = Idle THEN Idle
                  ELSE [patching[q] EXCEPT !.since = @ \cup asked]]

\* The update fails, or its answer is lost before it runs.
PatchFails(r) ==
    /\ patching[r] # Idle
    /\ patching' = [patching EXCEPT ![r] = Idle]
    /\ UNCHANGED <<user, completed, wanted, undone>>

UserProfileNext ==
    \/ \E r \in Request, patch \in Patch : GetUserByID(r, patch)
    \/ \E r \in Request : UpdateMe(r)
    \/ \E r \in Request : PatchFails(r)

UserProfileSpec == UserProfileInit /\ [][UserProfileNext]_userVars

-----------------------------------------------------------------------------

\* What a user last asked of a column is what it holds, unless a request that had read the
\* row before has written it back since; the terms are never written back, and a profile
\* is never marked complete that is not (UpdateMe).
PatchKept ==
    /\ \A f \in Field \ undone : user[f] = wanted[f]
    /\ Terms \notin undone
    /\ completed => Complete(user)

=============================================================================
