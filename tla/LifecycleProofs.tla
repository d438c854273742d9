---------------------------- MODULE LifecycleProofs ----------------------------
(***************************************************************************)
(* Proofs about Lifecycle, for any number of balancers, requests,          *)
(* statements and deaths.                                                  *)
(***************************************************************************)
EXTENDS Lifecycle, TLAPS

-----------------------------------------------------------------------------
(* The inductive invariant.                                                *)

\* run has been through applyMigrations
Migrated == {"construct", "listen", "serving", "drain", "shutdown", "settle", "stopped"}

Types ==
  /\ main \in {"down", "ping", "database", "schema"} \union Migrated
  /\ stmt \in Schema /\ tables \subseteq Schema
  /\ deaths \in Nat
  /\ database \in BOOLEAN /\ ready \in BOOLEAN /\ listening \in BOOLEAN
  /\ working \in BOOLEAN /\ timedOut \in BOOLEAN
  /\ req \in [Requests -> {"new", "active", "served", "stranded", "refused", "cut"}]
  /\ lb \in [Balancers -> BOOLEAN]
  /\ probe \in [Balancers -> {"idle", "pings"}]
  /\ probed \in [Balancers -> BOOLEAN]

\* What the point that run has got to says of the schema: the tables of the statements
\* before stmt are there, whoever made them.
SchemaBuilt ==
  /\ main = "schema" => database /\ 1 .. stmt - 1 \subseteq tables
  /\ main \in Migrated => database /\ tables = Schema

\* ... and of the flags.
FlagsSet ==
  /\ listening => main \in {"serving", "drain"}
  /\ ready => main \in {"listen", "serving"}
  /\ main \in {"listen", "serving", "drain", "shutdown"} => working

\* Requests are in progress only while there is a process that listened.
RequestsServed ==
  \A r \in Requests : req[r] = "active" => main \in {"serving", "drain", "shutdown", "settle"}

\* A process that has not died: a balancer that routes to it, or may yet do so, has a
\* listener to route to, and none that has asked since SIGTERM does.
Routed ==
  GraceCoversProbe /\ deaths = 0 =>
    \A b \in Balancers :
      /\ lb[b] \/ probe[b] = "pings" => listening
      /\ probed[b] => ~lb[b] /\ probe[b] = "idle"

\* What Shutdown leaves behind, unless it is timed out.
Drained ==
  GraceCoversProbe /\ deaths = 0 =>
    /\ main \notin {"settle", "stopped"} => ~timedOut
    /\ main \in {"settle", "stopped"} /\ ~timedOut => \A r \in Requests : req[r] # "active"

LifeInv == /\ Types /\ SchemaBuilt /\ FlagsSet /\ RequestsServed
           /\ Routed /\ Drained /\ NoneTurnedAway

-----------------------------------------------------------------------------
\* Before the first start there is nothing that could be wrong.
LEMMA LifeStarts == Init => LifeInv
<1> SUFFICES ASSUME Init PROVE LifeInv
  OBVIOUS
<1>1. Types
  <2>1. database \in BOOLEAN /\ ready \in BOOLEAN /\ listening \in BOOLEAN
    BY LifecycleAssumption, Zenon DEF Init
  <2>2. /\ lb \in [Balancers -> BOOLEAN] /\ probed \in [Balancers -> BOOLEAN]
        /\ working \in BOOLEAN /\ timedOut \in BOOLEAN
    BY Zenon DEF Init
  <2>3. stmt \in Schema /\ tables \subseteq Schema /\ deaths \in Nat
    BY LifecycleAssumption DEF Init, Schema
  <2> QED
    BY <2>1, <2>2, <2>3 DEF Init, Types
<1>2. SchemaBuilt /\ FlagsSet /\ RequestsServed
  BY DEF Init, SchemaBuilt, FlagsSet, RequestsServed, Migrated
<1>3. Routed /\ Drained /\ NoneTurnedAway
  BY DEF Init, Routed, Drained, NoneTurnedAway
<1> QED
  BY <1>1, <1>2, <1>3 DEF LifeInv

\* Each step keeps the invariant.
LEMMA LifeStep == LifeInv /\ [Next]_vars => LifeInv'
<1> SUFFICES ASSUME LifeInv, [Next]_vars PROVE LifeInv'
  OBVIOUS
<1> USE DEF LifeInv
<1>1. CASE Start
  <2>1. Types'
    BY <1>1, LifecycleAssumption DEF Start, Types, Migrated, Schema, outerVars, processVars, storeVars
  <2>2. SchemaBuilt'
    BY <1>1, LifecycleAssumption DEF Start, SchemaBuilt, Types, Migrated, Schema, outerVars, processVars, storeVars
  <2>3. FlagsSet'
    BY <1>1, LifecycleAssumption DEF Start, FlagsSet, outerVars, processVars, storeVars
  <2>4. RequestsServed'
    BY <1>1, LifecycleAssumption DEF Start, RequestsServed, Types, FlagsSet, outerVars, processVars, storeVars
  <2>5. Routed'
    BY <1>1, LifecycleAssumption DEF Start, Routed, Types, FlagsSet, outerVars, processVars, storeVars
  <2>6. Drained'
    BY <1>1, LifecycleAssumption DEF Start, Drained, Types, FlagsSet, Routed, RequestsServed, Migrated, outerVars, processVars, storeVars
  <2>7. NoneTurnedAway'
    BY <1>1, LifecycleAssumption DEF Start, NoneTurnedAway, Types, Drained, Routed, FlagsSet, RequestsServed, outerVars, processVars, storeVars
  <2> QED
    BY <2>1, <2>2, <2>3, <2>4, <2>5, <2>6, <2>7
<1>2. CASE Ping
  <2>1. Types'
    BY <1>2, LifecycleAssumption DEF Ping, Types, Migrated, Schema, outerVars, processVars, storeVars
  <2>2. SchemaBuilt'
    BY <1>2, LifecycleAssumption DEF Ping, SchemaBuilt, Types, Migrated, Schema, outerVars, processVars, storeVars
  <2>3. FlagsSet'
    BY <1>2, LifecycleAssumption DEF Ping, FlagsSet, outerVars, processVars, storeVars
  <2>4. RequestsServed'
    BY <1>2, LifecycleAssumption DEF Ping, RequestsServed, Types, FlagsSet, outerVars, processVars, storeVars
  <2>5. Routed'
    BY <1>2, LifecycleAssumption DEF Ping, Routed, Types, FlagsSet, outerVars, processVars, storeVars
  <2>6. Drained'
    BY <1>2, LifecycleAssumption DEF Ping, Drained, Types, FlagsSet, Routed, RequestsServed, Migrated, outerVars, processVars, storeVars
  <2>7. NoneTurnedAway'
    BY <1>2, LifecycleAssumption DEF Ping, NoneTurnedAway, Types, Drained, Routed, FlagsSet, RequestsServed, outerVars, processVars, storeVars
  <2> QED
    BY <2>1, <2>2, <2>3, <2>4, <2>5, <2>6, <2>7
<1>3. CASE EnsureDatabase
  <2> DEFINE Refused == main' = "down" /\ database' = database /\ stmt' = stmt
             Made == main' = "schema" /\ database' = TRUE /\ stmt' = 1
  <2>a. (Refused \/ Made) /\ UNCHANGED <<config, ready, listening, working, tables, deaths, timedOut, outerVars>>
    BY <1>3 DEF EnsureDatabase
  <2>b. stmt' \in Schema /\ 1 .. 0 = {}
    BY <2>a, LifecycleAssumption DEF Types, Schema
  <2>c. ASSUME Refused PROVE Types' /\ SchemaBuilt'
    <3>1. Types'
      BY <2>a, <2>b, <2>c DEF Types, outerVars
    <3>2. SchemaBuilt'
      BY <2>c DEF SchemaBuilt, Migrated
    <3> QED BY <3>1, <3>2
  <2>d. ASSUME Made PROVE Types' /\ SchemaBuilt'
    <3>1. Types'
      BY <2>a, <2>b, <2>d DEF Types, outerVars
    <3>2. 1 .. stmt' - 1 \subseteq tables'
      BY <2>d
    <3>3. SchemaBuilt'
      BY <2>d, <3>2 DEF SchemaBuilt, Migrated
    <3> QED BY <3>1, <3>3
  <2>1. Types'
    BY <2>a, <2>c, <2>d
  <2>2. SchemaBuilt'
    BY <2>a, <2>c, <2>d
  <2>3. FlagsSet'
    BY <1>3, LifecycleAssumption DEF EnsureDatabase, FlagsSet, outerVars, processVars, storeVars
  <2>4. RequestsServed'
    BY <1>3, LifecycleAssumption DEF EnsureDatabase, RequestsServed, Types, FlagsSet, outerVars, processVars, storeVars
  <2>5. Routed'
    BY <1>3, LifecycleAssumption DEF EnsureDatabase, Routed, Types, FlagsSet, outerVars, processVars, storeVars
  <2>6. Drained'
    BY <1>3, LifecycleAssumption DEF EnsureDatabase, Drained, Types, FlagsSet, Routed, RequestsServed, Migrated, outerVars, processVars, storeVars
  <2>7. NoneTurnedAway'
    BY <1>3, LifecycleAssumption DEF EnsureDatabase, NoneTurnedAway, Types, Drained, Routed, FlagsSet, RequestsServed, outerVars, processVars, storeVars
  <2> QED
    BY <2>1, <2>2, <2>3, <2>4, <2>5, <2>6, <2>7
<1>4. CASE CreateTable
  <2> DEFINE Refused == main' = "down" /\ stmt' = stmt /\ tables' = tables
             Last == main' = "construct" /\ stmt = Statements /\ stmt' = stmt
                     /\ tables' = tables \union {stmt}
             More == main' = main /\ stmt # Statements /\ stmt' = stmt + 1
                     /\ tables' = tables \union {stmt}
  <2>a. /\ Refused \/ Last \/ More
        /\ main = "schema"
        /\ UNCHANGED <<config, ready, listening, working, database, deaths, timedOut, outerVars>>
    BY <1>4 DEF CreateTable, NextStatement
  <2>b. stmt' \in Schema /\ tables' \subseteq Schema
    <3>1. stmt \in Schema /\ tables \subseteq Schema
      BY DEF Types
    <3>2. stmt # Statements => stmt + 1 \in Schema
      BY <3>1, LifecycleAssumption DEF Schema
    <3> QED
      BY <2>a, <3>1, <3>2
  <2>1. Types'
    BY <2>a, <2>b DEF Types, Migrated, outerVars
  <2>c. database' /\ 1 .. stmt - 1 \subseteq tables
    BY <2>a DEF SchemaBuilt
  <2>d. 1 .. stmt = (1 .. stmt - 1) \union {stmt}
    BY LifecycleAssumption DEF Types, Schema
  <2>2. SchemaBuilt'
    <3>1. CASE Refused
      BY <3>1 DEF SchemaBuilt, Migrated
    <3>2. CASE Last
      <4>1. tables' = Schema
        BY <3>2, <2>b, <2>c, <2>d DEF Schema
      <4> QED
        BY <3>2, <4>1, <2>c DEF SchemaBuilt, Migrated
    <3>3. CASE More
      <4>1. stmt' - 1 = stmt
        BY <3>3, LifecycleAssumption DEF Types, Schema
      <4>2. 1 .. stmt' - 1 \subseteq tables'
        BY <3>3, <4>1, <2>c, <2>d
      <4> QED
        BY <3>3, <4>2, <2>a, <2>c DEF SchemaBuilt, Migrated
    <3> QED
      BY <2>a, <3>1, <3>2, <3>3
  <2>3. FlagsSet'
    BY <1>4, LifecycleAssumption DEF CreateTable, NextStatement, FlagsSet, outerVars, processVars, storeVars
  <2>4. RequestsServed'
    BY <1>4, LifecycleAssumption DEF CreateTable, NextStatement, RequestsServed, Types, FlagsSet, outerVars, processVars, storeVars
  <2>5. Routed'
    BY <1>4, LifecycleAssumption DEF CreateTable, NextStatement, Routed, Types, FlagsSet, outerVars, processVars, storeVars
  <2>6. Drained'
    BY <1>4, LifecycleAssumption DEF CreateTable, NextStatement, Drained, Types, FlagsSet, Routed, RequestsServed, Migrated, outerVars, processVars, storeVars
  <2>7. NoneTurnedAway'
    BY <1>4, LifecycleAssumption DEF CreateTable, NextStatement, NoneTurnedAway, Types, Drained, Routed, FlagsSet, RequestsServed, outerVars, processVars, storeVars
  <2> QED
    BY <2>1, <2>2, <2>3, <2>4, <2>5, <2>6, <2>7
<1>5. CASE Construct
  <2>1. Types'
    BY <1>5, LifecycleAssumption DEF Construct, Types, Migrated, Schema, outerVars, processVars, storeVars
  <2>2. SchemaBuilt'
    BY <1>5, LifecycleAssumption DEF Construct, SchemaBuilt, Types, Migrated, Schema, outerVars, processVars, storeVars
  <2>3. FlagsSet'
    BY <1>5, LifecycleAssumption DEF Construct, FlagsSet, outerVars, processVars, storeVars
  <2>4. RequestsServed'
    BY <1>5, LifecycleAssumption DEF Construct, RequestsServed, Types, FlagsSet, outerVars, processVars, storeVars
  <2>5. Routed'
    BY <1>5, LifecycleAssumption DEF Construct, Routed, Types, FlagsSet, outerVars, processVars, storeVars
  <2>6. Drained'
    BY <1>5, LifecycleAssumption DEF Construct, Drained, Types, FlagsSet, Routed, RequestsServed, Migrated, outerVars, processVars, storeVars
  <2>7. NoneTurnedAway'
    BY <1>5, LifecycleAssumption DEF Construct, NoneTurnedAway, Types, Drained, Routed, FlagsSet, RequestsServed, outerVars, processVars, storeVars
  <2> QED
    BY <2>1, <2>2, <2>3, <2>4, <2>5, <2>6, <2>7
<1>6. CASE Listen
  <2>1. Types'
    BY <1>6, LifecycleAssumption DEF Listen, Types, Migrated, Schema, outerVars, processVars, storeVars
  <2>2. SchemaBuilt'
    BY <1>6, LifecycleAssumption DEF Listen, SchemaBuilt, Types, Migrated, Schema, outerVars, processVars, storeVars
  <2>3. FlagsSet'
    BY <1>6, LifecycleAssumption DEF Listen, FlagsSet, outerVars, processVars, storeVars
  <2>4. RequestsServed'
    BY <1>6, LifecycleAssumption DEF Listen, RequestsServed, Types, FlagsSet, outerVars, processVars, storeVars
  <2>5. Routed'
    BY <1>6, LifecycleAssumption DEF Listen, Routed, Types, FlagsSet, outerVars, processVars, storeVars
  <2>6. Drained'
    BY <1>6, LifecycleAssumption DEF Listen, Drained, Types, FlagsSet, Routed, RequestsServed, Migrated, outerVars, processVars, storeVars
  <2>7. NoneTurnedAway'
    BY <1>6, LifecycleAssumption DEF Listen, NoneTurnedAway, Types, Drained, Routed, FlagsSet, RequestsServed, outerVars, processVars, storeVars
  <2> QED
    BY <2>1, <2>2, <2>3, <2>4, <2>5, <2>6, <2>7
<1>7. CASE Sigterm
  <2>1. Types'
    BY <1>7, LifecycleAssumption DEF Sigterm, Types, Migrated, Schema, outerVars, processVars, storeVars
  <2>2. SchemaBuilt'
    BY <1>7, LifecycleAssumption DEF Sigterm, SchemaBuilt, Types, Migrated, Schema, outerVars, processVars, storeVars
  <2>3. FlagsSet'
    BY <1>7, LifecycleAssumption DEF Sigterm, FlagsSet, outerVars, processVars, storeVars
  <2>4. RequestsServed'
    BY <1>7, LifecycleAssumption DEF Sigterm, RequestsServed, Types, FlagsSet, outerVars, processVars, storeVars
  <2>5. Routed'
    BY <1>7, LifecycleAssumption DEF Sigterm, Routed, Types, FlagsSet, outerVars, processVars, storeVars
  <2>6. Drained'
    BY <1>7, LifecycleAssumption DEF Sigterm, Drained, Types, FlagsSet, Routed, RequestsServed, Migrated, outerVars, processVars, storeVars
  <2>7. NoneTurnedAway'
    BY <1>7, LifecycleAssumption DEF Sigterm, NoneTurnedAway, Types, Drained, Routed, FlagsSet, RequestsServed, outerVars, processVars, storeVars
  <2> QED
    BY <2>1, <2>2, <2>3, <2>4, <2>5, <2>6, <2>7
<1>8. CASE CloseListener
  <2>1. Types'
    BY <1>8, LifecycleAssumption DEF CloseListener, Types, Migrated, Schema, outerVars, processVars, storeVars
  <2>2. SchemaBuilt'
    BY <1>8, LifecycleAssumption DEF CloseListener, SchemaBuilt, Types, Migrated, Schema, outerVars, processVars, storeVars
  <2>3. FlagsSet'
    BY <1>8, LifecycleAssumption DEF CloseListener, FlagsSet, outerVars, processVars, storeVars
  <2>4. RequestsServed'
    BY <1>8, LifecycleAssumption DEF CloseListener, RequestsServed, Types, FlagsSet, outerVars, processVars, storeVars
  <2>5. Routed'
    BY <1>8, LifecycleAssumption DEF CloseListener, Routed, Types, FlagsSet, outerVars, processVars, storeVars
  <2>6. Drained'
    BY <1>8, LifecycleAssumption DEF CloseListener, Drained, Types, FlagsSet, Routed, RequestsServed, Migrated, outerVars, processVars, storeVars
  <2>7. NoneTurnedAway'
    BY <1>8, LifecycleAssumption DEF CloseListener, NoneTurnedAway, Types, Drained, Routed, FlagsSet, RequestsServed, outerVars, processVars, storeVars
  <2> QED
    BY <2>1, <2>2, <2>3, <2>4, <2>5, <2>6, <2>7
<1>9. CASE CancelWorkers
  <2>1. Types'
    BY <1>9, LifecycleAssumption DEF CancelWorkers, Active, Types, Migrated, Schema, outerVars, processVars, storeVars
  <2>2. SchemaBuilt'
    BY <1>9, LifecycleAssumption DEF CancelWorkers, Active, SchemaBuilt, Types, Migrated, Schema, outerVars, processVars, storeVars
  <2>3. FlagsSet'
    BY <1>9, LifecycleAssumption DEF CancelWorkers, Active, FlagsSet, outerVars, processVars, storeVars
  <2>4. RequestsServed'
    BY <1>9, LifecycleAssumption DEF CancelWorkers, Active, RequestsServed, Types, FlagsSet, outerVars, processVars, storeVars
  <2>5. Routed'
    BY <1>9, LifecycleAssumption DEF CancelWorkers, Active, Routed, Types, FlagsSet, outerVars, processVars, storeVars
  <2>6. Drained'
    BY <1>9, LifecycleAssumption DEF CancelWorkers, Active, Drained, Types, FlagsSet, Routed, RequestsServed, Migrated, outerVars, processVars, storeVars
  <2>7. NoneTurnedAway'
    BY <1>9, LifecycleAssumption DEF CancelWorkers, Active, NoneTurnedAway, Types, Drained, Routed, FlagsSet, RequestsServed, outerVars, processVars, storeVars
  <2> QED
    BY <2>1, <2>2, <2>3, <2>4, <2>5, <2>6, <2>7
<1>10. CASE Exit
  <2>1. Types'
    BY <1>10, LifecycleAssumption DEF Exit, CutOff, Types, Migrated, Schema, outerVars, processVars, storeVars
  <2>2. SchemaBuilt'
    BY <1>10, LifecycleAssumption DEF Exit, CutOff, SchemaBuilt, Types, Migrated, Schema, outerVars, processVars, storeVars
  <2>3. FlagsSet'
    BY <1>10, LifecycleAssumption DEF Exit, CutOff, FlagsSet, outerVars, processVars, storeVars
  <2>4. RequestsServed'
    BY <1>10, LifecycleAssumption DEF Exit, CutOff, RequestsServed, Types, FlagsSet, outerVars, processVars, storeVars
  <2>5. Routed'
    BY <1>10, LifecycleAssumption DEF Exit, CutOff, Routed, Types, FlagsSet, outerVars, processVars, storeVars
  <2>6. Drained'
    BY <1>10, LifecycleAssumption DEF Exit, CutOff, Drained, Types, FlagsSet, Routed, RequestsServed, Migrated, outerVars, processVars, storeVars
  <2>7. NoneTurnedAway'
    BY <1>10, LifecycleAssumption DEF Exit, CutOff, NoneTurnedAway, Types, Drained, Routed, FlagsSet, RequestsServed, outerVars, processVars, storeVars
  <2> QED
    BY <2>1, <2>2, <2>3, <2>4, <2>5, <2>6, <2>7
<1>11. CASE Die
  <2>a. lb' \in [Balancers -> BOOLEAN]
    BY <1>11, Zenon DEF Die
  <2>b. req' \in [Requests -> {"new", "active", "served", "stranded", "refused", "cut"}]
    BY <1>11 DEF Die, CutOff, Types
  <2>c. /\ main' = "down" /\ ready' = FALSE /\ listening' = FALSE /\ working' = FALSE
        /\ deaths' = deaths + 1
        /\ probe' = [b \in Balancers |-> "idle"] /\ probed' = [b \in Balancers |-> FALSE]
        /\ UNCHANGED <<stmt, storeVars, timedOut>>
    BY <1>11 DEF Die
  <2>d. probe' \in [Balancers -> {"idle", "pings"}] /\ probed' \in [Balancers -> BOOLEAN]
    BY <2>c, Zenon
  <2>e. (database \in BOOLEAN)' /\ (timedOut \in BOOLEAN)'
    BY <2>c, Zenon DEF Types, storeVars
  <2>f. stmt' \in Schema /\ tables' \subseteq Schema /\ deaths' \in Nat
    BY <2>c DEF Types, storeVars, Schema
  <2>1. Types'
    BY <2>a, <2>b, <2>c, <2>d, <2>e, <2>f DEF Types
  <2>2. SchemaBuilt'
    BY <1>11, LifecycleAssumption DEF Die, CutOff, SchemaBuilt, Types, Migrated, Schema, outerVars, processVars, storeVars
  <2>3. FlagsSet'
    BY <1>11, LifecycleAssumption DEF Die, CutOff, FlagsSet, outerVars, processVars, storeVars
  <2>4. RequestsServed'
    BY <1>11, LifecycleAssumption DEF Die, CutOff, RequestsServed, Types, FlagsSet, outerVars, processVars, storeVars
  <2>5. Routed'
    BY <1>11, LifecycleAssumption DEF Die, CutOff, Routed, Types, FlagsSet, outerVars, processVars, storeVars
  <2>6. Drained'
    BY <1>11, LifecycleAssumption DEF Die, CutOff, Drained, Types, FlagsSet, Routed, RequestsServed, Migrated, outerVars, processVars, storeVars
  <2>7. NoneTurnedAway'
    BY <1>11, LifecycleAssumption DEF Die, CutOff, NoneTurnedAway, Types, Drained, Routed, FlagsSet, RequestsServed, outerVars, processVars, storeVars
  <2> QED
    BY <2>1, <2>2, <2>3, <2>4, <2>5, <2>6, <2>7
<1>12. ASSUME NEW b \in Balancers, ProbeFlag(b) PROVE LifeInv'
  <2>1. Types'
    BY <1>12, LifecycleAssumption DEF ProbeFlag, Types, Migrated, Schema, outerVars, processVars, storeVars
  <2>2. SchemaBuilt'
    BY <1>12, LifecycleAssumption DEF ProbeFlag, SchemaBuilt, Types, Migrated, Schema, outerVars, processVars, storeVars
  <2>3. FlagsSet'
    BY <1>12, LifecycleAssumption DEF ProbeFlag, FlagsSet, outerVars, processVars, storeVars
  <2>4. RequestsServed'
    BY <1>12, LifecycleAssumption DEF ProbeFlag, RequestsServed, Types, FlagsSet, outerVars, processVars, storeVars
  <2>5. Routed'
    BY <1>12, LifecycleAssumption DEF ProbeFlag, Routed, Types, FlagsSet, outerVars, processVars, storeVars
  <2>6. Drained'
    BY <1>12, LifecycleAssumption DEF ProbeFlag, Drained, Types, FlagsSet, Routed, RequestsServed, Migrated, outerVars, processVars, storeVars
  <2>7. NoneTurnedAway'
    BY <1>12, LifecycleAssumption DEF ProbeFlag, NoneTurnedAway, Types, Drained, Routed, FlagsSet, RequestsServed, outerVars, processVars, storeVars
  <2> QED
    BY <2>1, <2>2, <2>3, <2>4, <2>5, <2>6, <2>7
<1>13. ASSUME NEW b \in Balancers, ProbeAnswer(b) PROVE LifeInv'
  <2>1. Types'
    BY <1>13, LifecycleAssumption DEF ProbeAnswer, Types, Migrated, Schema, outerVars, processVars, storeVars
  <2>2. SchemaBuilt'
    BY <1>13, LifecycleAssumption DEF ProbeAnswer, SchemaBuilt, Types, Migrated, Schema, outerVars, processVars, storeVars
  <2>3. FlagsSet'
    BY <1>13, LifecycleAssumption DEF ProbeAnswer, FlagsSet, outerVars, processVars, storeVars
  <2>4. RequestsServed'
    BY <1>13, LifecycleAssumption DEF ProbeAnswer, RequestsServed, Types, FlagsSet, outerVars, processVars, storeVars
  <2>5. Routed'
    BY <1>13, LifecycleAssumption DEF ProbeAnswer, Routed, Types, FlagsSet, outerVars, processVars, storeVars
  <2>6. Drained'
    BY <1>13, LifecycleAssumption DEF ProbeAnswer, Drained, Types, FlagsSet, Routed, RequestsServed, Migrated, outerVars, processVars, storeVars
  <2>7. NoneTurnedAway'
    BY <1>13, LifecycleAssumption DEF ProbeAnswer, NoneTurnedAway, Types, Drained, Routed, FlagsSet, RequestsServed, outerVars, processVars, storeVars
  <2> QED
    BY <2>1, <2>2, <2>3, <2>4, <2>5, <2>6, <2>7
<1>14. ASSUME NEW r \in Requests, Send(r) PROVE LifeInv'
  <2>1. Types'
    BY <1>14, LifecycleAssumption DEF Send, Types, Migrated, Schema, outerVars, processVars, storeVars
  <2>2. SchemaBuilt'
    BY <1>14, LifecycleAssumption DEF Send, SchemaBuilt, Types, Migrated, Schema, outerVars, processVars, storeVars
  <2>3. FlagsSet'
    BY <1>14, LifecycleAssumption DEF Send, FlagsSet, outerVars, processVars, storeVars
  <2>4. RequestsServed'
    BY <1>14, LifecycleAssumption DEF Send, RequestsServed, Types, FlagsSet, outerVars, processVars, storeVars
  <2>5. Routed'
    BY <1>14, LifecycleAssumption DEF Send, Routed, Types, FlagsSet, outerVars, processVars, storeVars
  <2>6. Drained'
    BY <1>14, LifecycleAssumption DEF Send, Drained, Types, FlagsSet, Routed, RequestsServed, Migrated, outerVars, processVars, storeVars
  <2>7. NoneTurnedAway'
    BY <1>14, LifecycleAssumption DEF Send, NoneTurnedAway, Types, Drained, Routed, FlagsSet, RequestsServed, outerVars, processVars, storeVars
  <2> QED
    BY <2>1, <2>2, <2>3, <2>4, <2>5, <2>6, <2>7
<1>15. ASSUME NEW r \in Requests, Serve(r) PROVE LifeInv'
  <2>1. Types'
    BY <1>15, LifecycleAssumption DEF Serve, Types, Migrated, Schema, outerVars, processVars, storeVars
  <2>2. SchemaBuilt'
    BY <1>15, LifecycleAssumption DEF Serve, SchemaBuilt, Types, Migrated, Schema, outerVars, processVars, storeVars
  <2>3. FlagsSet'
    BY <1>15, LifecycleAssumption DEF Serve, FlagsSet, outerVars, processVars, storeVars
  <2>4. RequestsServed'
    BY <1>15, LifecycleAssumption DEF Serve, RequestsServed, Types, FlagsSet, outerVars, processVars, storeVars
  <2>5. Routed'
    BY <1>15, LifecycleAssumption DEF Serve, Routed, Types, FlagsSet, outerVars, processVars, storeVars
  <2>6. Drained'
    BY <1>15, LifecycleAssumption DEF Serve, Drained, Types, FlagsSet, Routed, RequestsServed, Migrated, outerVars, processVars, storeVars
  <2>7. NoneTurnedAway'
    BY <1>15, LifecycleAssumption DEF Serve, NoneTurnedAway, Types, Drained, Routed, FlagsSet, RequestsServed, outerVars, processVars, storeVars
  <2> QED
    BY <2>1, <2>2, <2>3, <2>4, <2>5, <2>6, <2>7
<1>16. CASE UNCHANGED vars
  BY <1>16 DEF vars, processVars, storeVars, outerVars, Types, SchemaBuilt, FlagsSet, RequestsServed,
     Routed, Drained, NoneTurnedAway
<1> QED
  BY <1>1, <1>2, <1>3, <1>4, <1>5, <1>6, <1>7, <1>8, <1>9, <1>10, <1>11, <1>12, <1>13, <1>14, <1>15, <1>16 DEF Next, MainStep, ProbeStep

\* Every reachable state satisfies the invariant.
THEOREM LifeInvariance == Spec => []LifeInv
<1>1. Init /\ [][Next]_vars => []LifeInv
  BY LifeStarts, LifeStep, PTL
<1> QED
  BY <1>1, PTL DEF Spec

\* No request meets a schema that is not all there, wherever the process has died.
THEOREM SchemaBeforeTraffic == Spec => []TrafficHasSchema
<1>1. LifeInv => TrafficHasSchema
  BY DEF LifeInv, TrafficHasSchema, Active, RequestsServed, SchemaBuilt, Migrated
<1> QED
  BY <1>1, LifeInvariance, PTL

\* A graceful stop costs no request anything, under the assumptions of the property.
THEOREM GracefulStop == Spec => []NoneTurnedAway
<1>1. LifeInv => NoneTurnedAway
  BY DEF LifeInv
<1> QED
  BY <1>1, LifeInvariance, PTL

=============================================================================
