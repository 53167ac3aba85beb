--------------------------- MODULE Schema_proofs ----------------------------
(***************************************************************************)
(* The schema stays whole, and upgrades fail only for a cause, for any     *)
(* number of processes that migrate, boot, run and downgrade at once.      *)
(***************************************************************************)
EXTENDS Schema, TLAPS

\* What a process read before it changes anything was a revision, and the tables
\* it missed are all of them or none: it looked at a whole schema.
ReadWhole(p) == /\ seen[p] \in 0 .. Head
                /\ missing[p] \in {{}, BaseTables}

SchemaTyped == /\ version \in 0 .. Head
               /\ DOMAIN seen = Procs /\ DOMAIN missing = Procs
               /\ DOMAIN stage = Procs

SchemaInv == SchemaTyped /\ SchemaIsWhole /\ \A p \in Procs : ReadWhole(p)

\* The three revisions.
LEMMA Revisions ==
  /\ Built(0) = {} /\ Built(1) = BaseTables /\ Built(2) = Newest
  /\ Pending(0) = Newest /\ Pending(1) = RefundObjects /\ Pending(2) = {}
<1>1. 1 .. 0 = {} /\ 1 .. 1 = {1} /\ 1 .. 2 = {1, 2} /\ 2 .. 2 = {2}
      /\ 3 .. 2 = {}
  OBVIOUS
<1>2. 0 + 1 = 1 /\ 1 + 1 = 2 /\ 2 + 1 = 3
  OBVIOUS
<1>3. Adds(1) = BaseTables /\ Adds(2) = RefundObjects
  BY DEF Adds
<1>4. Built(0) = {} /\ Pending(2) = {}
  BY <1>1, <1>2 DEF Built, Pending, Head
<1>5. Built(1) = BaseTables /\ Pending(1) = RefundObjects
  BY <1>1, <1>2, <1>3 DEF Built, Pending, Head
<1>6. Built(2) = Newest /\ Pending(0) = Newest
  BY <1>1, <1>2, <1>3 DEF Built, Pending, Head, Newest
<1> QED BY <1>4, <1>5, <1>6

\* Tables and refund objects are there and are different things.
LEMMA ObjectsDiffer ==
  /\ BaseTables \cap RefundObjects = {} /\ BaseTables # {} /\ RefundObjects # {}
  /\ "transactions" \in BaseTables
  BY DEF BaseTables, RefundObjects

LEMMA InitWhole == SchemaInit => SchemaInv
  BY Revisions DEF SchemaInit, SchemaInv, SchemaTyped, SchemaIsWhole, ReadWhole,
     Head

\* A schema that is whole is empty, at 0001, or the newest, and Alembic knows
\* which unless create_all built it.
LEMMA WholeSchemas ==
  ASSUME version \in 0 .. Head, SchemaIsWhole
  PROVE  \/ version = 0 /\ catalog \in {{}, Newest}
         \/ version = 1 /\ catalog = BaseTables
         \/ version = 2 /\ catalog = Newest
  BY Revisions DEF SchemaIsWhole, Unversioned, Head

LEMMA UpgradeWhole ==
  ASSUME SchemaInv, NEW p \in Procs, Upgrade(p)
  PROVE  SchemaInv'
<1> USE DEF SchemaInv
<1>1. UNCHANGED <<seen, missing>> /\ DOMAIN stage' = Procs
  BY DEF Upgrade, Enter, Leaves, SchemaTyped
<1>2. \A q \in Procs : ReadWhole(q)'
  BY <1>1 DEF ReadWhole
<1>3. CASE Upgrades(seen[p]) /\ seen[p] < Head
  <2>1. catalog' = catalog \cup Pending(seen[p]) /\ version' = 2
    BY <1>3 DEF Upgrade, RecordVersion, Head
  <2>2. CASE seen[p] = 0
    <3>1. catalog' = Newest
      BY <2>1, <2>2, <1>3, Revisions, WholeSchemas, ObjectsDiffer
         DEF Upgrades, Newest, SchemaTyped
    <3> QED BY <3>1, <2>1, <1>1, <1>2, Revisions DEF SchemaIsWhole, SchemaTyped, Head
  <2>3. CASE seen[p] = 1
    <3>1. version = 1 /\ catalog = BaseTables
      BY <2>3, <1>3, WholeSchemas DEF Upgrades, SchemaTyped, Head
    <3>2. catalog' = Newest
      BY <2>1, <2>3, <3>1, Revisions DEF Newest
    <3> QED BY <3>2, <2>1, <1>1, <1>2, Revisions DEF SchemaIsWhole, SchemaTyped, Head
  <2> QED BY <2>2, <2>3, <1>3 DEF ReadWhole, Head
<1>4. CASE Upgrades(seen[p]) /\ ~(seen[p] < Head)
  <2>1. seen[p] = 2
    BY <1>4 DEF ReadWhole, Head
  <2>2. UNCHANGED <<catalog, version>>
    BY <1>4, <2>1, Revisions DEF Upgrade
  <2> QED BY <2>2, <1>1, <1>2 DEF SchemaIsWhole, SchemaTyped, Unversioned
<1>5. CASE ~Upgrades(seen[p])
  <2>1. UNCHANGED <<catalog, version>>
    BY <1>5 DEF Upgrade
  <2> QED BY <2>1, <1>1, <1>2 DEF SchemaIsWhole, SchemaTyped, Unversioned
<1> QED BY <1>3, <1>4, <1>5

LEMMA DowngradeWhole ==
  ASSUME SchemaInv, NEW p \in Procs, Downgrade(p)
  PROVE  SchemaInv'
<1> USE DEF SchemaInv
<1>1. UNCHANGED <<seen, missing>> /\ DOMAIN stage' = Procs
  BY DEF Downgrade, Enter, Leaves, SchemaTyped
<1>2. \A q \in Procs : ReadWhole(q)'
  BY <1>1 DEF ReadWhole
<1>3. CASE seen[p] > 0 /\ version = seen[p]
  <2>1. catalog' = catalog \ Drops(version) /\ version' = version - 1
    BY <1>3 DEF Downgrade, RecordVersion
  <2>2. CASE version = 1
    <3>1. catalog' = {} /\ version' = 0
      BY <2>1, <2>2, WholeSchemas DEF Drops, SchemaTyped
    <3> QED BY <3>1, <1>1, <1>2, Revisions DEF SchemaIsWhole, SchemaTyped, Head
  <2>3. CASE version = 2
    <3>1. catalog' = BaseTables /\ version' = 1
      BY <2>1, <2>3, WholeSchemas, ObjectsDiffer DEF Drops, SchemaTyped, Newest
    <3> QED BY <3>1, <1>1, <1>2, Revisions DEF SchemaIsWhole, SchemaTyped, Head
  <2> QED BY <2>2, <2>3, <1>3 DEF SchemaTyped, Head
<1>4. CASE ~(seen[p] > 0 /\ version = seen[p])
  <2>1. UNCHANGED <<catalog, version>>
    BY <1>4 DEF Downgrade
  <2> QED BY <2>1, <1>1, <1>2 DEF SchemaIsWhole, SchemaTyped, Unversioned
<1> QED BY <1>3, <1>4

LEMMA CreateMissingWhole ==
  ASSUME SchemaInv, NEW p \in Procs, CreateMissing(p)
  PROVE  SchemaInv'
<1> USE DEF SchemaInv
<1>1. UNCHANGED <<version, seen, missing>> /\ DOMAIN stage' = Procs
  BY DEF CreateMissing, Enter, SchemaTyped
<1>2. \A q \in Procs : ReadWhole(q)'
  BY <1>1 DEF ReadWhole
<1>3. CASE missing[p] = BaseTables /\ BaseTables \cap catalog = {}
  <2>1. catalog = {} /\ version = 0
    BY <1>3, WholeSchemas, ObjectsDiffer DEF SchemaTyped, Newest
  <2>2. catalog' = Newest
    BY <2>1, <1>3, ObjectsDiffer DEF CreateMissing, Declared, Newest
  <2> QED BY <2>1, <2>2, <1>1, <1>2, ObjectsDiffer
        DEF SchemaIsWhole, Unversioned, SchemaTyped, Newest
<1>4. CASE missing[p] = {}
  <2>1. catalog' = catalog
    BY <1>4 DEF CreateMissing, Declared
  <2> QED BY <2>1, <1>1, <1>2 DEF SchemaIsWhole, SchemaTyped, Unversioned
<1>5. CASE missing[p] \cap catalog # {}
  <2>1. catalog' = catalog
    BY <1>5 DEF CreateMissing
  <2> QED BY <2>1, <1>1, <1>2 DEF SchemaIsWhole, SchemaTyped, Unversioned
<1> QED BY <1>3, <1>4, <1>5 DEF ReadWhole

LEMMA ReadsWhole ==
  ASSUME SchemaInv, NEW p \in Procs, ReadVersion(p) \/ CheckTables(p)
  PROVE  SchemaInv'
<1> USE DEF SchemaInv
<1>1. UNCHANGED <<catalog, version>> /\ DOMAIN stage' = Procs
  BY DEF ReadVersion, CheckTables, Enter, SchemaTyped
<1>2. SchemaIsWhole' /\ (version \in 0 .. Head)'
  BY <1>1 DEF SchemaIsWhole, SchemaTyped, Unversioned
<1>3. CASE ReadVersion(p)
  BY <1>1, <1>2, <1>3 DEF ReadVersion, ReadWhole, SchemaTyped
<1>4. CASE CheckTables(p)
  <2>1. BaseTables \ catalog \in {{}, BaseTables}
    BY WholeSchemas, ObjectsDiffer DEF SchemaTyped, Newest
  <2> QED BY <1>1, <1>2, <1>4, <2>1 DEF CheckTables, ReadWhole, SchemaTyped
<1> QED BY <1>3, <1>4

LEMMA NextWhole == SchemaInv /\ [SchemaNext]_schemaVars => SchemaInv'
<1> SUFFICES ASSUME SchemaInv, [SchemaNext]_schemaVars PROVE SchemaInv'
  OBVIOUS
<1>1. ASSUME NEW p \in Procs, NEW cmd, Start(p, cmd) PROVE SchemaInv'
  BY <1>1 DEF Start, Enter, SchemaInv, SchemaTyped, SchemaIsWhole, Unversioned,
     ReadWhole
<1>2. ASSUME NEW p \in Procs, Stop(p) PROVE SchemaInv'
  BY <1>2 DEF Stop, Leaves, Enter, SchemaInv, SchemaTyped, SchemaIsWhole,
     Unversioned, ReadWhole
<1>3. CASE UNCHANGED schemaVars
  BY <1>3 DEF schemaVars, SchemaInv, SchemaTyped, SchemaIsWhole, Unversioned,
     ReadWhole
<1> QED BY <1>1, <1>2, <1>3, ReadsWhole, UpgradeWhole, DowngradeWhole,
      CreateMissingWhole DEF SchemaNext

LEMMA AlwaysWhole == SchemaSpec => []SchemaInv
  BY InitWhole, NextWhole, PTL DEF SchemaSpec

\* However many commands race, the schema is exactly what the recorded revision
\* stands for or, unversioned, what the models declare.
THEOREM SchemaStaysWhole == SchemaSpec => []SchemaIsWhole
  BY AlwaysWhole, PTL DEF SchemaInv

\* An upgrade that fails met tables that create_all built, or another command
\* moved the revision after it was read.
THEOREM UpgradeFailures == SchemaSpec => UpgradesFailForCause
<1> DEFINE Cause(p) == Unversioned \/ version # seen[p]
           Failing(p) == stage[p] = "upgrade" /\ stage'[p] = "failed"
<1>1. ASSUME SchemaInv, NEW p \in Procs, [SchemaNext]_schemaVars, Failing(p)
      PROVE  Cause(p)
  <2>1. Upgrade(p) /\ ~Upgrades(seen[p])
    BY <1>1 DEF SchemaNext, schemaVars, Start, ReadVersion, Upgrade, Downgrade,
       CheckTables, CreateMissing, Stop, Leaves, Enter, SchemaInv, SchemaTyped
  <2>2. ASSUME version = seen[p], ~Unversioned PROVE FALSE
    <3>1. catalog \cap Pending(version) = {}
      BY <1>1, <2>2, WholeSchemas, Revisions, ObjectsDiffer
         DEF SchemaInv, SchemaTyped, Unversioned, Newest
    <3>2. version > 0 /\ version < Head => BaseTables \subseteq catalog
      BY <1>1, WholeSchemas DEF SchemaInv, SchemaTyped, Head
    <3> QED BY <2>1, <2>2, <3>1, <3>2 DEF Upgrades
  <2> QED BY <2>2
<1>2. SchemaInv /\ [SchemaNext]_schemaVars
        => [\A p \in Procs : Failing(p) => Cause(p)]_schemaVars
  BY <1>1
<1> QED BY <1>2, AlwaysWhole, PTL DEF SchemaSpec, UpgradesFailForCause

-----------------------------------------------------------------------------
(* Serving.  Until somebody downgrades, the schema only grows, so what an   *)
(* app found when it started is still there when it serves.                 *)

Starting == {"check", "create", "serving"}

Found(p) ==
  /\ stage[p] \in Starting => command[p] \in {"boot", "run"}
  /\ ~downgraded =>
       /\ stage[p] = "upgrade" /\ seen[p] = Head => catalog = Newest
       /\ stage[p] \in Starting /\ command[p] = "boot" => catalog = Newest
       /\ stage[p] = "create" /\ missing[p] = {} => catalog # {}
       /\ stage[p] = "serving" => catalog # {}

ServingInv == /\ DOMAIN command = Procs
              /\ \A p \in Procs : Found(p)

LEMMA InitServing == SchemaInit => ServingInv
  BY DEF SchemaInit, ServingInv, Found, Starting

\* A step of p that changes no schema leaves the others as they are.
LEMMA OthersFound ==
  ASSUME ServingInv, NEW p \in Procs, NEW q \in Procs \ {p},
         UNCHANGED downgraded, catalog' = catalog \/ catalog' = Newest,
         seen'[q] = seen[q],
         command'[q] = command[q], stage'[q] = stage[q], missing'[q] = missing[q]
  PROVE  Found(q)'
  BY ObjectsDiffer DEF ServingInv, Found, Newest

LEMMA UpgradeServing ==
  ASSUME SchemaInv, ServingInv, NEW p \in Procs, Upgrade(p)
  PROVE  ServingInv'
<1>1. /\ UNCHANGED <<downgraded, seen, missing>> /\ DOMAIN command' = Procs
      /\ \A q \in Procs \ {p} : stage'[q] = stage[q] /\ command'[q] = command[q]
  BY DEF Upgrade, Enter, Leaves, SchemaInv, SchemaTyped, ServingInv
<1>2. catalog' = catalog \/ catalog' = Newest
  <2>1. CASE seen[p] = 2
    BY <2>1, Revisions DEF Upgrade
  <2>2. CASE seen[p] = 1 /\ Upgrades(seen[p])
    BY <2>2, Revisions, WholeSchemas
       DEF Upgrade, Upgrades, SchemaInv, SchemaTyped, Head, Newest
  <2>3. CASE seen[p] = 0 /\ Upgrades(seen[p])
    BY <2>3, Revisions, WholeSchemas, ObjectsDiffer
       DEF Upgrade, Upgrades, SchemaInv, SchemaTyped, Newest
  <2>4. CASE ~Upgrades(seen[p])
    BY <2>4 DEF Upgrade
  <2> QED BY <2>1, <2>2, <2>3, <2>4 DEF SchemaInv, ReadWhole, Head
<1>3. ASSUME NEW q \in Procs \ {p} PROVE Found(q)'
  BY <1>1, <1>2, OthersFound
<1>4. Found(p)'
  <2>1. CASE stage'[p] \notin Starting
    BY <2>1 DEF Found, Starting, Upgrade, Enter, Leaves, SchemaInv, SchemaTyped
  <2>2. CASE stage'[p] \in Starting
    <3>1. Upgrades(seen[p]) /\ command[p] = "boot" /\ stage'[p] = "check"
          /\ UNCHANGED command
      BY <2>2 DEF Upgrade, Enter, Leaves, SchemaInv, SchemaTyped, Starting
    <3>2. CASE seen[p] < 2
      <4>1. catalog' = catalog \cup Pending(seen[p]) /\ Pending(seen[p]) # {}
            /\ Pending(seen[p]) \cap catalog = {}
        BY <3>1, <3>2, Revisions, ObjectsDiffer
           DEF Upgrade, Upgrades, SchemaInv, ReadWhole, Head, Newest
      <4>2. catalog' = Newest
        BY <4>1, <1>2
      <4> QED BY <3>1, <4>2 DEF Found, Starting
    <3>3. CASE seen[p] = 2
      \* Nothing to do: 0002 was there when the revision was read, and until a
      \* downgrade it stays.
      <4>1. ~downgraded => catalog = Newest
        BY <3>3 DEF ServingInv, Found, Upgrade, Head
      <4>2. catalog' = catalog
        BY <3>3, <1>2, Revisions DEF Upgrade
      <4> QED BY <1>1, <3>1, <4>1, <4>2 DEF Found, Starting
    <3> QED BY <3>2, <3>3 DEF SchemaInv, ReadWhole, Head
  <2> QED BY <2>1, <2>2
<1> QED BY <1>1, <1>3, <1>4 DEF ServingInv

LEMMA DowngradeServing ==
  ASSUME SchemaInv, ServingInv, NEW p \in Procs, Downgrade(p)
  PROVE  ServingInv'
<1>1. /\ UNCHANGED <<seen, missing>> /\ DOMAIN command' = Procs
      /\ \A q \in Procs \ {p} : stage'[q] = stage[q] /\ command'[q] = command[q]
      /\ stage'[p] \in {"idle", "failed"}
  BY DEF Downgrade, Enter, Leaves, SchemaInv, SchemaTyped, ServingInv
<1>2. downgraded' \/ UNCHANGED <<downgraded, catalog>>
  BY DEF Downgrade
<1>3. ASSUME NEW q \in Procs PROVE Found(q)'
  <2>1. CASE q = p
    BY <1>1, <2>1 DEF Found, Starting
  <2>2. CASE q # p /\ downgraded'
    BY <1>1, <2>2 DEF ServingInv, Found
  <2>3. CASE q # p /\ UNCHANGED <<downgraded, catalog>>
    BY <1>1, <2>3, OthersFound
  <2> QED BY <2>1, <2>2, <2>3, <1>2
<1> QED BY <1>1, <1>3 DEF ServingInv

LEMMA CreateMissingServing ==
  ASSUME SchemaInv, ServingInv, NEW p \in Procs, CreateMissing(p)
  PROVE  ServingInv'
<1>1. /\ UNCHANGED <<downgraded, seen, missing, command>>
      /\ \A q \in Procs \ {p} : stage'[q] = stage[q]
      /\ stage[p] = "create" /\ stage'[p] \in {"serving", "failed"}
  BY DEF CreateMissing, Enter, SchemaInv, SchemaTyped
<1>2. CASE catalog' = catalog /\ (missing[p] = {} \/ stage'[p] = "failed")
  <2>1. Found(p)'
    BY <1>1, <1>2 DEF ServingInv, Found, Starting
  <2> QED BY <1>1, <1>2, <2>1, OthersFound DEF ServingInv
<1>3. CASE catalog' = Newest
  <2>1. Found(p)'
    BY <1>1, <1>3, ObjectsDiffer DEF ServingInv, Found, Starting, Newest
  <2> QED BY <1>1, <1>3, <2>1, OthersFound DEF ServingInv
<1>4. \/ catalog' = catalog /\ (missing[p] = {} \/ stage'[p] = "failed")
      \/ catalog' = Newest
  <2>1. CASE missing[p] \cap catalog # {}
    BY <2>1 DEF CreateMissing, Enter, SchemaInv, SchemaTyped
  <2>2. CASE missing[p] = {}
    BY <2>2 DEF CreateMissing, Declared
  <2>3. CASE missing[p] = BaseTables /\ BaseTables \cap catalog = {}
    <3>1. catalog = {}
      BY <2>3, WholeSchemas, ObjectsDiffer DEF SchemaInv, SchemaTyped, Newest
    <3> QED BY <2>3, <3>1, ObjectsDiffer DEF CreateMissing, Declared, Newest
  <2> QED BY <2>1, <2>2, <2>3 DEF SchemaInv, ReadWhole
<1> QED BY <1>2, <1>3, <1>4

LEMMA ReadsServing ==
  ASSUME SchemaInv, ServingInv, NEW p \in Procs, ReadVersion(p) \/ CheckTables(p)
  PROVE  ServingInv'
<1>1. /\ UNCHANGED <<catalog, downgraded, command>>
      /\ \A q \in Procs \ {p} : /\ stage'[q] = stage[q] /\ seen'[q] = seen[q]
                                /\ missing'[q] = missing[q]
  BY DEF ReadVersion, CheckTables, Enter, SchemaInv, SchemaTyped
<1>2. CASE ReadVersion(p)
  <2>1. stage'[p] \in {"upgrade", "downgrade"} /\ seen'[p] = version
    BY <1>2 DEF ReadVersion, Enter, SchemaInv, SchemaTyped
  <2>2. version = Head => catalog = Newest
    BY WholeSchemas DEF SchemaInv, SchemaTyped, Head
  <2>3. Found(p)'
    BY <1>1, <2>1, <2>2 DEF Found, Starting
  <2> QED BY <1>1, <2>3, OthersFound DEF ServingInv
<1>3. CASE CheckTables(p)
  <2>1. stage[p] = "check" /\ stage'[p] = "create"
        /\ missing'[p] = BaseTables \ catalog
    BY <1>3 DEF CheckTables, Enter, SchemaInv, SchemaTyped
  <2>2. missing'[p] = {} => catalog # {}
    BY <2>1, ObjectsDiffer
  <2>3. Found(p)'
    BY <1>1, <2>1, <2>2 DEF ServingInv, Found, Starting
  <2> QED BY <1>1, <2>3, OthersFound DEF ServingInv
<1> QED BY <1>2, <1>3

LEMMA NextServing ==
  SchemaInv /\ ServingInv /\ [SchemaNext]_schemaVars => ServingInv'
<1> SUFFICES ASSUME SchemaInv, ServingInv, [SchemaNext]_schemaVars
             PROVE  ServingInv'
  OBVIOUS
<1>1. ASSUME NEW p \in Procs,
             NEW cmd \in {"migrate", "boot", "run", "downgrade"}, Start(p, cmd)
      PROVE  ServingInv'
  <2>1. /\ UNCHANGED <<catalog, downgraded, seen, missing>>
        /\ command'[p] = cmd /\ DOMAIN command' = Procs
        /\ stage'[p] = IF cmd = "run" THEN "check" ELSE "version"
        /\ \A q \in Procs \ {p} : stage'[q] = stage[q] /\ command'[q] = command[q]
    BY <1>1 DEF Start, Enter, SchemaInv, SchemaTyped, ServingInv
  <2>2. Found(p)'
    BY <2>1 DEF Found, Starting
  <2> QED BY <2>1, <2>2, OthersFound DEF ServingInv
<1>2. ASSUME NEW p \in Procs, Stop(p) PROVE ServingInv'
  <2>1. /\ UNCHANGED <<catalog, downgraded, seen, missing>>
        /\ stage'[p] = "idle" /\ DOMAIN command' = Procs
        /\ \A q \in Procs \ {p} : stage'[q] = stage[q] /\ command'[q] = command[q]
    BY <1>2 DEF Stop, Leaves, Enter, SchemaInv, SchemaTyped, ServingInv
  <2>2. Found(p)'
    BY <2>1 DEF Found, Starting
  <2> QED BY <2>1, <2>2, OthersFound DEF ServingInv
<1>3. CASE UNCHANGED schemaVars
  BY <1>3 DEF schemaVars, ServingInv, Found
<1> QED BY <1>1, <1>2, <1>3, ReadsServing, UpgradeServing, DowngradeServing,
      CreateMissingServing DEF SchemaNext

LEMMA ServesWholeSchema == SchemaInv /\ ServingInv => ServesNewest
  BY WholeSchemas DEF SchemaInv, SchemaTyped, ServingInv, Found, Starting,
     ServesNewest

\* Until somebody downgrades, a container serves on the newest schema, and an app
\* started by hand on the newest or on one that Alembic records as 0001.
THEOREM ServedSchema == SchemaSpec => []ServesNewest
<1>1. SchemaSpec => []ServingInv
  BY InitServing, NextServing, AlwaysWhole, PTL DEF SchemaSpec
<1> QED BY <1>1, AlwaysWhole, ServesWholeSchema, PTL

-----------------------------------------------------------------------------
(* Booting.  What the documents say of the container holds where it is alone *)
(* and Alembic has built the database.                                      *)

Busy(p) == stage[p] \notin {"idle", "serving", "failed"}
BootsAlone ==
  \A p, q \in Procs : command[p] = "boot" /\ Busy(p) /\ Busy(q) => p = q

Boots(p) ==
  command[p] = "boot" =>
    /\ stage[p] \notin {"failed", "downgrade"}
    /\ stage[p] = "upgrade" => seen[p] = version
    /\ stage[p] \in {"check", "create"} => catalog = Newest
    /\ stage[p] = "create" => missing[p] = {}

LEMMA InitBoots == SchemaInit => \A p \in Procs : Boots(p)
  BY DEF SchemaInit, Boots

\* A step of another process leaves a boot alone: that process is not busy.
LEMMA OthersBoot ==
  ASSUME SchemaInv, BootsAlone, [SchemaNext]_schemaVars, NEW p \in Procs,
         Boots(p), stage'[p] = stage[p], command'[p] = command[p],
         seen'[p] = seen[p], missing'[p] = missing[p]
  PROVE  Boots(p)'
<1>1. CASE command[p] = "boot" /\ Busy(p)
  <2>1. UNCHANGED <<catalog, version>>
    <3>1. ASSUME NEW q \in Procs, Upgrade(q) \/ Downgrade(q) \/ CreateMissing(q)
          PROVE  UNCHANGED <<catalog, version>>
      <4>1. Busy(q)
        BY <3>1 DEF Upgrade, Downgrade, CreateMissing, Busy
      <4>2. q = p
        BY <1>1, <4>1 DEF BootsAlone
      <4>3. stage'[p] # stage[p]
        BY <3>1, <4>2 DEF Upgrade, Downgrade, CreateMissing, Enter, Leaves,
           SchemaInv, SchemaTyped
      <4> QED BY <4>3
    <3> QED BY <3>1 DEF SchemaNext, schemaVars, Start, ReadVersion, CheckTables,
            Stop
  <2> QED BY <2>1 DEF Boots
<1>2. CASE ~Busy(p)
  BY <1>2 DEF Boots, Busy
<1>3. CASE command[p] # "boot"
  BY <1>3 DEF Boots
<1> QED BY <1>1, <1>2, <1>3

LEMMA UpgradeBoots ==
  ASSUME SchemaInv, ~Unversioned, NEW p \in Procs, Boots(p), Upgrade(p),
         DOMAIN command = Procs
  PROVE  Boots(p)'
<1>1. CASE command[p] = "boot"
  <2>1. seen[p] = version /\ stage[p] = "upgrade"
    BY <1>1 DEF Boots, Upgrade
  <2>2. /\ catalog \cap Pending(version) = {}
        /\ catalog \cup Pending(version) = Newest
        /\ version > 0 /\ version < Head => BaseTables \subseteq catalog
    BY WholeSchemas, Revisions, ObjectsDiffer
       DEF SchemaInv, SchemaTyped, Unversioned, Newest, Head
  <2>3. Upgrades(seen[p])
    BY <2>1, <2>2 DEF Upgrades
  <2>4. catalog' = Newest /\ stage'[p] = "check"
    BY <1>1, <2>1, <2>2, <2>3 DEF Upgrade, Enter, SchemaInv, SchemaTyped
  <2> QED BY <2>4 DEF Boots
<1>2. CASE command[p] # "boot"
  BY <1>2 DEF Upgrade, Leaves, Boots
<1> QED BY <1>1, <1>2

LEMMA NextBoots ==
  SchemaInv /\ ServingInv /\ ~Unversioned /\ BootsAlone
    /\ (\A p \in Procs : Boots(p)) /\ [SchemaNext]_schemaVars
  => (\A p \in Procs : Boots(p))'
<1> SUFFICES ASSUME SchemaInv, ServingInv, ~Unversioned, BootsAlone,
                    [SchemaNext]_schemaVars, NEW p \in Procs, Boots(p)
             PROVE  Boots(p)'
  OBVIOUS
<1>0. SchemaTyped /\ DOMAIN command = Procs
  BY DEF SchemaInv, ServingInv
<1>1. ASSUME NEW cmd, Start(p, cmd) PROVE Boots(p)'
  BY <1>0, <1>1 DEF Start, Enter, Boots, SchemaTyped
<1>2. CASE ReadVersion(p)
  BY <1>0, <1>2 DEF ReadVersion, Enter, Boots, SchemaTyped
<1>3. CASE Upgrade(p)
  BY <1>0, <1>3, UpgradeBoots
<1>4. CASE Downgrade(p)
  BY <1>0, <1>4 DEF Downgrade, Leaves, Boots
<1>5. CASE CheckTables(p)
  <2>1. catalog = Newest => BaseTables \ catalog = {}
    BY DEF Newest
  <2> QED BY <1>0, <1>5, <2>1 DEF CheckTables, Enter, Boots, SchemaTyped
<1>6. CASE CreateMissing(p)
  <2>1. command[p] = "boot" => missing[p] = {} /\ stage'[p] = "serving"
    BY <1>0, <1>6 DEF CreateMissing, Enter, Boots, SchemaTyped
  <2> QED BY <1>6, <2>1 DEF CreateMissing, Boots
<1>7. CASE Stop(p)
  BY <1>0, <1>7 DEF Stop, Leaves, Boots
<1>8. CASE /\ stage'[p] = stage[p] /\ command'[p] = command[p]
           /\ seen'[p] = seen[p] /\ missing'[p] = missing[p]
  BY <1>8, OthersBoot
<1>9. ASSUME NEW q \in Procs \ {p},
             \/ \E cmd \in {"migrate", "boot", "run", "downgrade"} : Start(q, cmd)
             \/ ReadVersion(q) \/ Upgrade(q) \/ Downgrade(q)
             \/ CheckTables(q) \/ CreateMissing(q) \/ Stop(q)
      PROVE  /\ stage'[p] = stage[p] /\ command'[p] = command[p]
             /\ seen'[p] = seen[p] /\ missing'[p] = missing[p]
  BY <1>0, <1>9 DEF Start, ReadVersion, Upgrade, Downgrade, CheckTables,
     CreateMissing, Stop, Enter, Leaves, SchemaTyped
<1> QED BY <1>1, <1>2, <1>3, <1>4, <1>5, <1>6, <1>7, <1>8, <1>9
        DEF SchemaNext, schemaVars

\* A container that boots while no other command is at work, on a database that
\* only Alembic has built, serves: nothing but a schema that create_all left
\* unversioned makes it fail.
THEOREM ContainerServes ==
  SchemaSpec /\ []~Unversioned /\ []BootsAlone => []BootServes
<1> DEFINE I == \A p \in Procs : Boots(p)
<1>1. SchemaSpec => [](SchemaInv /\ ServingInv)
  BY InitServing, NextServing, AlwaysWhole, PTL DEF SchemaSpec
<1>2. I => BootServes
  BY DEF Boots, BootServes
<1>3. SchemaInit => I
  BY InitBoots
<1>4. /\ SchemaInv /\ ServingInv /\ ~Unversioned /\ BootsAlone /\ I
      /\ [SchemaNext]_schemaVars
      => I'
  BY NextBoots
<1> HIDE DEF I
<1> QED BY <1>1, <1>2, <1>3, <1>4, PTL DEF SchemaSpec
=============================================================================
