------------------------------- MODULE Startup --------------------------------
(***************************************************************************)
(* The processes of the platform coming up, each by the steps of its run() *)
(* and under a restart policy, and the schema three of them bring with     *)
(* them: catalogue, orders and storefront apply the SQL files they embed,  *)
(* a file and the record of it in two statements, while the migrate tool   *)
(* puts both into one transaction.  Two processes of a service may start   *)
(* at once, and a file of one service may need a table of another.         *)
(***************************************************************************)
EXTENDS Integers, FiniteSets, Sequences

CONSTANTS
    Process,
    Deployments,    \* which program each process runs
    File,
    FilesOf,        \* FilesOf[s]: what program s applies, in the order of the names
    NeededBy,       \* NeededBy[f]: files of others whose tables f reads
    Repeatable,     \* files that may be applied over themselves
    Earlier,        \* sets of files that earlier releases left in place
    MaxPings,
    MaxStops        \* bound: errors, kills and redeployments

Migrating == {"catalogue", "orders", "storefront", "migrate"}

Program == Migrating \cup {"auth", "identity", "gateway"}

FilesIn(s) == {FilesOf[s][i] : i \in DOMAIN FilesOf[s]}

\* The tool's files are its own, and an earlier release left nothing half done.
ASSUME StartupAssumption ==
    /\ Deployments \subseteq [Process -> Program \cup {"none"}]
    /\ FilesOf \in [Program -> Seq(File)]
    /\ \A s \in Program \ {"migrate"} : FilesIn(s) \cap FilesIn("migrate") = {}
    /\ NeededBy \in [File -> SUBSET File] /\ Repeatable \subseteq File
    /\ \A had \in Earlier : had \subseteq File /\ \A f \in had : NeededBy[f] \subseteq had
    /\ MaxPings \in Nat \ {0} /\ MaxStops \in Nat

VARIABLES
    deployed,       \* deployed[p]: the program p is kept running with
    proc,           \* proc[p]: how far process p is
    loops,          \* processes whose background loops run
    applied,        \* files whose statements the database has run
    recorded,       \* names in the tables of versions
    stops,          \* errors, kills and redeployments so far
    rerun,          \* history: files applied while their record stood
    excused         \* history: files whose record a process could not read, or that two were at

startupVars == <<deployed, proc, loops, applied, recorded, stops, rerun, excused>>

-----------------------------------------------------------------------------
(* What run() does, step by step; what falls back to a default is no step. *)

AuthSteps == <<"config", "connect", "keys", "mailer", "listen">>

CatalogueSteps == <<"config", "connect", "migrate", "listen">>

IdentitySteps == <<"config", "connect", "loops", "listen">>

\* Mutant: the loops are started before the schema is there.
LoopsFirst == <<"config", "connect", "loops", "migrate", "listen">>

OrdersSteps == <<"config", "connect", "migrate", "loops", "listen">>

StorefrontSteps == <<"config", "connect", "migrate", "listen">>

GatewaySteps == <<"config", "keys", "listen">>

ToolSteps == <<"config", "connect", "migrate">>

StepsOf(s) ==
    [auth |-> AuthSteps, catalogue |-> CatalogueSteps, identity |-> IdentitySteps, orders |-> OrdersSteps,
     storefront |-> StorefrontSteps, gateway |-> GatewaySteps, migrate |-> ToolSteps][s]

Stage == {"config", "connect", "keys", "mailer", "migrate", "loops", "listen"}

Off == [op |-> "off"]

\* at: a file is looked up, applied and recorded.
Starting == [op: {"starting"}, left: Seq(Stage), pings: 0..(MaxPings - 1), files: Seq(File), at: {"check", "apply", "record"}]

ProcessState == {Off} \cup Starting \cup [op: {"serving", "draining", "done"}]

Nothing == [p \in Process |-> "none"]

StartupTypeOK ==
    /\ deployed \in Deployments
    /\ proc \in [Process -> ProcessState]
    /\ loops \subseteq Process
    /\ applied \subseteq File /\ recorded \subseteq File
    /\ rerun \subseteq File /\ excused \subseteq File
    /\ stops \in 0..MaxStops

StartupInit ==
    /\ deployed \in Deployments
    /\ proc = [p \in Process |-> Off]
    /\ loops = {}
    /\ applied \in Earlier /\ recorded = applied
    /\ stops = 0
    /\ rerun = {} /\ excused = {}

-----------------------------------------------------------------------------

\* A container is started, and started again whatever it ended with; so is the tool by hand.
Launch(p) ==
    /\ deployed[p] \in Program /\ proc[p] = Off
    /\ proc' = [proc EXCEPT ![p] = [op |-> "starting", left |-> StepsOf(deployed[p]), pings |-> 0,
                                    files |-> FilesOf[deployed[p]], at |-> "check"]]
    /\ UNCHANGED <<deployed, loops, applied, recorded, stops, rerun, excused>>

At(p, stage) == proc[p].op = "starting" /\ proc[p].left # <<>> /\ Head(proc[p].left) = stage

Proceed(p) == proc' = [proc EXCEPT ![p].left = Tail(@)]

\* The process ends, and its loops with it, wherever they are.
Exit(p) == proc' = [proc EXCEPT ![p] = Off] /\ loops' = loops \ {p}

SchemaStays == UNCHANGED <<applied, recorded, rerun, excused>>

\* Settings are there, keys are read and the mailer's settings are valid.
Prepare(p) ==
    /\ At(p, "config") \/ At(p, "keys") \/ At(p, "mailer")
    /\ Proceed(p)
    /\ UNCHANGED <<deployed, loops, stops>> /\ SchemaStays

Connect(p) ==
    /\ At(p, "connect")
    /\ Proceed(p)
    /\ UNCHANGED <<deployed, loops, stops>> /\ SchemaStays

\* connectDB asks a few times before it gives up.
PingFails(p) ==
    /\ At(p, "connect") /\ stops < MaxStops
    /\ LET pings == proc[p].pings + 1
       IN  IF pings = MaxPings
           THEN Exit(p) /\ stops' = stops + 1
           ELSE proc' = [proc EXCEPT ![p].pings = pings] /\ UNCHANGED <<loops, stops>>
    /\ UNCHANGED deployed /\ SchemaStays

\* run returns an error, or the process is killed, at any step and between any two.
Stop(p) ==
    /\ proc[p].op \in {"starting", "serving", "draining"} /\ stops < MaxStops
    /\ Exit(p)
    /\ stops' = stops + 1
    /\ UNCHANGED deployed /\ SchemaStays

StartLoops(p) ==
    /\ At(p, "loops")
    /\ loops' = loops \cup {p}
    /\ Proceed(p)
    /\ UNCHANGED <<deployed, stops>> /\ SchemaStays

Listen(p) ==
    /\ At(p, "listen")
    /\ proc' = [proc EXCEPT ![p] = [op |-> "serving"]]
    /\ UNCHANGED <<deployed, loops, stops>> /\ SchemaStays

\* A signal: no request is taken any more, and those under way have a few seconds.
Signal(p) ==
    /\ proc[p].op = "serving" /\ stops < MaxStops
    /\ proc' = [proc EXCEPT ![p] = [op |-> "draining"]]
    /\ stops' = stops + 1
    /\ UNCHANGED <<deployed, loops>> /\ SchemaStays

Drained(p) ==
    /\ proc[p].op = "draining"
    /\ Exit(p)
    /\ UNCHANGED <<deployed, stops>> /\ SchemaStays

-----------------------------------------------------------------------------
(* Migrate, file by file. *)

Next1(p) == Head(proc[p].files)

Working(p, at) == At(p, "migrate") /\ proc[p].files # <<>> /\ proc[p].at = at

\* Processes between the lookup of f and its record.
Busy(f) == {p \in Process : (Working(p, "apply") \/ Working(p, "record")) /\ Next1(p) = f}

SkipFile(p) == proc' = [proc EXCEPT ![p].files = Tail(@), ![p].at = "check"]

\* Mutant: nothing is skipped.
SkipsNone(f) == FALSE

Skips(f) == f \in recorded

\* An error of the lookup is dropped by a service, and the file counts as not applied.
CheckFile(p, failed) ==
    /\ Working(p, "check")
    /\ failed => deployed[p] # "migrate" /\ stops < MaxStops
    /\ LET f == Next1(p)
       IN  IF ~failed /\ Skips(f)
           THEN SkipFile(p) /\ UNCHANGED excused
           ELSE /\ proc' = [proc EXCEPT ![p].at = "apply"]
                /\ excused' = IF failed \/ Busy(f) # {} THEN excused \cup {f} ELSE excused
    /\ stops' = IF failed THEN stops + 1 ELSE stops
    /\ UNCHANGED <<deployed, loops, applied, recorded, rerun>>

\* The database refuses a file that finds no table to read, or finds its own work done.
Runnable(f) == NeededBy[f] \subseteq applied /\ (f \in applied => f \in Repeatable)

\* The statements of a file are sent in one go, and hold or fail together.
ApplyFile(p) ==
    /\ Working(p, "apply") /\ deployed[p] # "migrate"
    /\ LET f == Next1(p)
       IN  IF Runnable(f)
           THEN /\ applied' = applied \cup {f}
                /\ rerun' = IF f \in recorded THEN rerun \cup {f} ELSE rerun
                /\ proc' = [proc EXCEPT ![p].at = "record"]
                /\ UNCHANGED loops
           ELSE Exit(p) /\ UNCHANGED <<applied, rerun>>
    /\ UNCHANGED <<deployed, recorded, stops, excused>>

\* Only orders minds that the name is there already.
RecordFile(p) ==
    /\ Working(p, "record")
    /\ LET f == Next1(p)
       IN  IF deployed[p] = "orders" /\ f \in recorded
           THEN Exit(p) /\ UNCHANGED recorded
           ELSE recorded' = recorded \cup {f} /\ SkipFile(p) /\ UNCHANGED loops
    /\ UNCHANGED <<deployed, stops, applied, rerun, excused>>

\* The tool applies and records in one transaction.
ApplyInOne(p) ==
    /\ Working(p, "apply") /\ deployed[p] = "migrate"
    /\ LET f == Next1(p)
       IN  IF Runnable(f) /\ f \notin recorded
           THEN /\ applied' = applied \cup {f} /\ recorded' = recorded \cup {f}
                /\ SkipFile(p) /\ UNCHANGED loops
           ELSE Exit(p) /\ UNCHANGED <<applied, recorded>>
    /\ UNCHANGED <<deployed, stops, rerun, excused>>

\* The tool is done with its last file; a service goes on.
Migrated(p) ==
    /\ At(p, "migrate") /\ proc[p].files = <<>>
    /\ IF deployed[p] = "migrate" THEN proc' = [proc EXCEPT ![p] = [op |-> "done"]] ELSE Proceed(p)
    /\ UNCHANGED <<deployed, loops, stops>> /\ SchemaStays

-----------------------------------------------------------------------------

\* What brings a process further when nothing goes wrong.
Advance(p) ==
    \/ Launch(p) \/ Prepare(p) \/ Connect(p) \/ StartLoops(p) \/ Listen(p) \/ Drained(p)
    \/ CheckFile(p, FALSE) \/ ApplyFile(p) \/ RecordFile(p) \/ ApplyInOne(p) \/ Migrated(p)

StartupNext ==
    \E p \in Process :
        \/ Advance(p)
        \/ PingFails(p)
        \/ Stop(p)
        \/ Signal(p)
        \/ CheckFile(p, TRUE)

StartupSpec == StartupInit /\ [][StartupNext]_startupVars

-----------------------------------------------------------------------------

\* Whoever takes requests or runs its loops finds the tables its own files bring, and those
\* they read, whoever else starts, fails or is replaced meanwhile.
ServesItsSchema ==
    \A p \in Process : proc[p].op \in {"serving", "draining"} \/ p \in loops =>
        \A f \in FilesIn(deployed[p]) : deployed[p] \in Migrating => f \in applied /\ NeededBy[f] \subseteq applied

\* A file is run over what was written since its record only where the lookup failed or two
\* processes were at it; and the tool never leaves one applied and not recorded.
RerunsExplained ==
    /\ recorded \subseteq applied
    /\ rerun \subseteq excused \cap Repeatable
    /\ \A f \in FilesIn("migrate") : f \in applied => f \in recorded

SchemaStands == ServesItsSchema /\ RerunsExplained

\* Applied, not recorded, and the database will not have it again.
Limbo(f) ==
    /\ f \in (applied \ recorded) \ Repeatable
    /\ \A p \in Process : ~(Working(p, "record") /\ Next1(p) = f)

\* The files of p, and of those whose files they read.
Behind(p) ==
    UNION {FilesIn(s) : s \in {t \in Program : t = deployed[p] \/ \E f \in FilesIn(deployed[p]) : NeededBy[f] \cap FilesIn(t) # {}}}

\* One that p has to get past lies in limbo, or reads what nobody who runs would ever bring.
HeldUp(p) ==
    \E f \in Behind(p) :
        \/ Limbo(f)
        \/ \E n \in NeededBy[f] \ applied : \A q \in Process : deployed[q] \in Program => n \notin FilesIn(deployed[q])

\* Every process that is kept running comes up, in whatever order they start, unless one
\* was stopped between applying a file that cannot be repeated and recording it.
PlatformComesUp ==
    \A p \in Process : []<>(deployed[p] \in Program => proc[p].op \in {"serving", "done"} \/ HeldUp(p))

=============================================================================
