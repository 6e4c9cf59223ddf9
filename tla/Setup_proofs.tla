---------------------------- MODULE Setup_proofs ----------------------------
(***************************************************************************)
(* Theorems about Setup, for any master keys, any providers, any databases *)
(* that are what their version says, and any number of starts cut short    *)
(* wherever they are.                                                      *)
(***************************************************************************)
EXTENDS Setup, TLAPS

-----------------------------------------------------------------------------
(* The steps, and what providers are *)

StepsIndex == 1..10

(* The statements of all the migrations. *)
LEMMA StepsLen == DOMAIN Steps = StepsIndex /\ Len(Steps) = 10
BY DEF Steps, StepsIndex

(* A step is one of three kinds, and what it makes is a table or a column. *)
LEMMA StepsKinds ==
  ASSUME NEW i \in DOMAIN Steps
  PROVE  /\ Steps[i].does \in {"create", "add", "remove"}
         /\ Steps[i].since \in 1..VERSION
         /\ Steps[i].does = "create" => Steps[i].what \in Created
         /\ Steps[i].does = "add" => Steps[i].what \in Added
<1>1. i \in 1..10
  BY StepsLen DEF StepsIndex
<1>2. Steps[i].does \in {"create", "add", "remove"} /\ Steps[i].since \in 1..VERSION
  BY <1>1 DEF Steps, VERSION
<1> QED
  BY <1>2 DEF Created, Added

Kept == UNION {[S -> Provider] : S \in SUBSET Ids}

(* Providers are a function on some of the ids.                            *)
LEMMA KeptIs ==
  ASSUME NEW f
  PROVE  f \in Kept <=> DOMAIN f \subseteq Ids /\ f \in [DOMAIN f -> Provider]
BY DEF Kept

(* Keeping some providers adds none. *)
LEMMA KeptRestricts ==
  ASSUME NEW f \in Kept, NEW S \in SUBSET DOMAIN f
  PROVE  /\ Restrict(f, S) \in Kept /\ DOMAIN Restrict(f, S) = S
         /\ \A p \in S : Restrict(f, S)[p] = f[p]
<1>1. DOMAIN f \subseteq Ids /\ f \in [DOMAIN f -> Provider]
  BY KeptIs
<1>2. DOMAIN Restrict(f, S) = S /\ \A p \in S : Restrict(f, S)[p] = f[p]
  BY DEF Restrict
<1>3. Restrict(f, S) \in [S -> Provider]
  BY <1>1 DEF Restrict
<1> QED
  BY <1>1, <1>2, <1>3 DEF Kept

(* The fields of a database, one by one.                                   *)
LEMMA DatabaseIs ==
  ASSUME NEW d \in Database
  PROVE  /\ d = [version |-> d.version, tables |-> d.tables, columns |-> d.columns,
                 key |-> d.key, providers |-> d.providers]
         /\ d.version \in Nat /\ d.tables \in SUBSET Created /\ d.columns \in SUBSET Added
         /\ d.key \in {None} \cup {Some(k) : k \in Keys} /\ d.providers \in Kept
BY DEF Database, Kept

-----------------------------------------------------------------------------
(* What a step does to a database *)

(* The effect of a step is a database that has what the step makes, and    *)
(* everything the database had: a step undoes no other.                    *)
LEMMA EffectKeeps ==
  ASSUME disk \in Database, NEW i \in DOMAIN Steps
  PROVE  LET d == Effect(Steps[i]) IN
         /\ d \in Database /\ d.version = disk.version /\ d.key = disk.key
         /\ Sealed(d) \subseteq Sealed(disk)
         /\ Done(Steps[i], d)
         /\ \A j \in DOMAIN Steps : Done(Steps[j], disk) => Done(Steps[j], d)
<1> DEFINE d == Effect(Steps[i])
<1>1. CASE Steps[i].does = "create"
  <2>1. d = [disk EXCEPT !.tables = @ \cup {Steps[i].what}]
    BY <1>1 DEF Effect
  <2>2. Steps[i].what \in Created
    BY <1>1, StepsKinds
  <2>3. /\ d.version = disk.version /\ d.tables = disk.tables \cup {Steps[i].what}
        /\ d.columns = disk.columns /\ d.key = disk.key /\ d.providers = disk.providers
    BY <2>1 DEF Database
  <2>4. d \in Database
    BY <2>1, <2>2 DEF Database
  <2>5. Sealed(d) = Sealed(disk)
    BY <2>3 DEF Sealed
  <2>6. Done(Steps[i], d)
    BY <1>1, <2>3 DEF Done
  <2>7. \A j \in DOMAIN Steps : Done(Steps[j], disk) => Done(Steps[j], d)
    BY <2>3, StepsKinds DEF Done
  <2> QED
    BY <2>3, <2>4, <2>5, <2>6, <2>7
<1>2. CASE Steps[i].does = "add"
  <2>1. d = [disk EXCEPT !.columns = @ \cup {Steps[i].what}]
    BY <1>2 DEF Effect
  <2>2. Steps[i].what \in Added
    BY <1>2, StepsKinds
  <2>3. /\ d.version = disk.version /\ d.columns = disk.columns \cup {Steps[i].what}
        /\ d.tables = disk.tables /\ d.key = disk.key /\ d.providers = disk.providers
    BY <2>1 DEF Database
  <2>4. d \in Database
    BY <2>1, <2>2 DEF Database
  <2>5. Sealed(d) = Sealed(disk)
    BY <2>3 DEF Sealed
  <2>6. Done(Steps[i], d)
    BY <1>2, <2>3 DEF Done
  <2>7. \A j \in DOMAIN Steps : Done(Steps[j], disk) => Done(Steps[j], d)
    BY <2>3, StepsKinds DEF Done
  <2> QED
    BY <2>3, <2>4, <2>5, <2>6, <2>7
<1>3. CASE Steps[i].does = "remove"
  <2> DEFINE Stay == {p \in DOMAIN disk.providers : ~disk.providers[p].tool}
  <2>1. d = [disk EXCEPT !.providers = Restrict(disk.providers, Stay)]
    BY <1>3 DEF Effect
  <2>2. disk.providers \in Kept
    BY DatabaseIs
  <2>3. /\ Restrict(disk.providers, Stay) \in Kept
        /\ DOMAIN Restrict(disk.providers, Stay) = Stay
        /\ \A p \in Stay : Restrict(disk.providers, Stay)[p] = disk.providers[p]
    BY <2>2, KeptRestricts
  <2>4. /\ d.version = disk.version /\ d.columns = disk.columns /\ d.tables = disk.tables
        /\ d.key = disk.key /\ d.providers = Restrict(disk.providers, Stay)
    BY <2>1 DEF Database
  <2>5. d \in Database
    BY <2>1, <2>3 DEF Database, Kept
  <2>6. Sealed(d) \subseteq Sealed(disk)
    <3>1. Sealed(d) = {d.providers[p].sealed : p \in Stay} \ {None}
      BY <2>3, <2>4 DEF Sealed
    <3>2. \A p \in Stay : d.providers[p].sealed = disk.providers[p].sealed
      BY <2>3, <2>4
    <3> QED
      BY <3>1, <3>2 DEF Sealed
  <2>7. \A p \in DOMAIN d.providers : ~d.providers[p].tool
    BY <2>3, <2>4
  <2>8. \A j \in DOMAIN Steps : Done(Steps[j], disk) => Done(Steps[j], d)
    BY <2>4, <2>7, StepsKinds DEF Done
  <2>9. Done(Steps[i], d)
    BY <1>3, <2>7 DEF Done
  <2> QED
    BY <2>4, <2>5, <2>6, <2>8, <2>9
<1> QED
  BY <1>1, <1>2, <1>3, StepsKinds

-----------------------------------------------------------------------------
(* The inductive invariant *)

(* Everything the version says is there.                                   *)
Has(d, version) == \A i \in DOMAIN Steps : Steps[i].since <= version => Done(Steps[i], d)

(* A process that moves a database forward has done the steps before the   *)
(* one it is at, on a database whose version it knows.                     *)
MovingInv ==
  phase = "moving" =>
    /\ next \in DOMAIN Steps /\ found = disk.version
    /\ \A i \in DOMAIN Steps : i < next => Done(Steps[i], disk)

(* The version is written when all of them are done.                       *)
MarkingInv == phase = "marking" => \A i \in DOMAIN Steps : Done(Steps[i], disk)

(* A process that works on a database works on one it knows, and when it   *)
(* is at the key it has brought it to its own version.                     *)
KnownInv ==
  /\ phase \in {"moving", "marking"} => disk.version <= VERSION
  /\ phase \in {"checking", "open"} => disk.version = VERSION

IInv == TypeOK /\ VersionTellsTheSchema /\ OneKeyReadsAll /\ MovingInv /\ MarkingInv /\ KnownInv

(* A file SQLite has just made. *)
LEMMA FreshIs == Fresh \in Database /\ Sealed(Fresh) = {} /\ Fresh.version = 0
<1>1. DOMAIN <<>> = {}
  OBVIOUS
<1>2. <<>> \in [{} -> Provider]
  OBVIOUS
<1>3. <<>> \in Kept
  BY <1>2 DEF Kept
<1>4. Fresh \in Database
  BY <1>3 DEF Fresh, Database, Kept
<1>5. Fresh.providers = <<>>
  BY DEF Fresh
<1>6. Sealed(Fresh) = {}
  BY <1>1, <1>5 DEF Sealed
<1> QED
  BY <1>4, <1>6 DEF Fresh

(* The invariant holds before the first start, *)
LEMMA InitEstablishes == Init => IInv
<1> SUFFICES ASSUME Init PROVE IInv
  OBVIOUS
<1>1. disk \in Database
  BY FreshIs, SetupAssumption DEF Init
<1>2. TypeOK
  BY <1>1, StepsLen DEF Init, TypeOK, StepsIndex
<1>3. CASE disk = Fresh
  <2>1. \A i \in DOMAIN Steps : ~(Steps[i].since <= disk.version)
    BY <1>3, FreshIs, StepsKinds DEF VERSION
  <2>2. VersionTellsTheSchema
    BY <2>1, <1>3, FreshIs DEF VersionTellsTheSchema, VERSION
  <2> QED
    BY <1>2, <1>3, <2>2, FreshIs DEF Init, IInv, OneKeyReadsAll, MovingInv, MarkingInv, KnownInv
<1>4. CASE disk \in Stored
  BY <1>2, <1>4, SetupAssumption
     DEF Init, IInv, VersionTellsTheSchema, OneKeyReadsAll, MovingInv, MarkingInv, KnownInv
<1> QED
  BY <1>3, <1>4 DEF Init

(* a start keeps it, *)
LEMMA StartPreserves == ASSUME IInv, NEW k \in Keys, Start(k) PROVE IInv'
<1>1. UNCHANGED disk /\ phase' \in {"failed", "moving"} /\ next' = 1 /\ found' = disk.version /\ key' = k
  BY DEF Start
<1>2. TypeOK'
  BY <1>1, StepsLen, DatabaseIs DEF IInv, TypeOK, StepsIndex
<1>3. VersionTellsTheSchema' /\ OneKeyReadsAll'
  BY <1>1 DEF IInv, VersionTellsTheSchema, OneKeyReadsAll, Sealed, Done
<1>4. MovingInv' /\ MarkingInv'
  BY <1>1, StepsLen DEF MovingInv, MarkingInv, StepsIndex
<1>5. KnownInv'
  BY <1>1, DatabaseIs DEF Start, KnownInv, VERSION, IInv, TypeOK
<1> QED
  BY <1>2, <1>3, <1>4, <1>5 DEF IInv

(* A step that is due makes what it says, and one that is not due was made *)
(* by the build that wrote the version.                                    *)
LEMMA MovePreserves == ASSUME IInv, Move PROVE IInv'
<1> DEFINE step == Steps[next]
<1>1. /\ phase = "moving" /\ next \in DOMAIN Steps /\ UNCHANGED <<found, key>>
      /\ disk \in Database /\ disk.version <= VERSION /\ found = disk.version
  BY DEF Move, IInv, TypeOK, KnownInv, MovingInv
<1>2. CASE Due(step) /\ Fails(step)
  <2>1. phase' = "failed" /\ UNCHANGED <<disk, next>>
    BY <1>2 DEF Move
  <2> QED
    BY <1>1, <2>1 DEF IInv, TypeOK, VersionTellsTheSchema, OneKeyReadsAll, Sealed, Done,
                      MovingInv, MarkingInv, KnownInv
<1>3. CASE ~(Due(step) /\ Fails(step))
  <2>1. /\ disk' = IF Due(step) THEN Effect(step) ELSE disk
        /\ next' = next + 1
        /\ phase' = IF next = Len(Steps) THEN "marking" ELSE phase
    BY <1>3 DEF Move
  <2>2. /\ disk' \in Database /\ disk'.version = disk.version /\ disk'.key = disk.key
        /\ Sealed(disk') \subseteq Sealed(disk)
        /\ \A j \in DOMAIN Steps : Done(Steps[j], disk) => Done(Steps[j], disk')
    BY <1>1, <2>1, EffectKeeps
  <2>3. Done(step, disk')
    <3>1. CASE Due(step)
      BY <1>1, <2>1, <3>1, EffectKeeps
    <3>2. CASE ~Due(step)
      <4>1. step.since <= disk.version
        BY <1>1, <3>2, StepsKinds, DatabaseIs DEF Due
      <4>2. Done(step, disk)
        BY <1>1, <4>1 DEF IInv, VersionTellsTheSchema
      <4> QED
        BY <1>1, <2>2, <4>2
    <3> QED
      BY <3>1, <3>2
  <2>4. next \in 1..10 /\ Len(Steps) = 10 /\ DOMAIN Steps = 1..10
    BY <1>1, StepsLen DEF StepsIndex
  <2>5. TypeOK'
    BY <1>1, <2>1, <2>2, <2>4 DEF IInv, TypeOK
  <2>6. VersionTellsTheSchema'
    BY <1>1, <2>2, DatabaseIs DEF IInv, VersionTellsTheSchema, VERSION
  <2>7. OneKeyReadsAll'
    BY <1>1, <2>1, <2>2 DEF IInv, OneKeyReadsAll
  <2>8. \A i \in DOMAIN Steps : i < next + 1 => Done(Steps[i], disk')
    BY <1>1, <2>2, <2>3, <2>4 DEF IInv, MovingInv
  <2>9. MovingInv' /\ MarkingInv' /\ KnownInv'
    BY <1>1, <2>1, <2>2, <2>4, <2>8 DEF MovingInv, MarkingInv, KnownInv
  <2> QED
    BY <2>5, <2>6, <2>7, <2>9 DEF IInv
<1> QED
  BY <1>2, <1>3

(* so does writing the version, *)
LEMMA MarkPreserves == ASSUME IInv, Mark PROVE IInv'
<1>1. /\ phase = "marking" /\ phase' = "checking" /\ UNCHANGED <<next, found, key>>
      /\ disk' = [disk EXCEPT !.version = VERSION] /\ disk \in Database
  BY DEF Mark, IInv, TypeOK
<1>2. /\ disk'.version = VERSION /\ disk'.tables = disk.tables /\ disk'.columns = disk.columns
      /\ disk'.key = disk.key /\ disk'.providers = disk.providers
  BY <1>1 DEF Database
<1>3. disk' \in Database
  BY <1>1 DEF Database, VERSION
<1>4. Sealed(disk') = Sealed(disk)
  BY <1>2 DEF Sealed
<1>5. \A i \in DOMAIN Steps : Done(Steps[i], disk')
  BY <1>1, <1>2 DEF IInv, MarkingInv, Done
<1>6. VersionTellsTheSchema'
  BY <1>2, <1>5 DEF VersionTellsTheSchema, VERSION
<1>7. TypeOK' /\ OneKeyReadsAll'
  BY <1>1, <1>2, <1>3, <1>4 DEF IInv, TypeOK, OneKeyReadsAll
<1> QED
  BY <1>1, <1>2, <1>6, <1>7 DEF IInv, MovingInv, MarkingInv, KnownInv, VERSION

(* A database without a key has no credential, so the key it takes is the  *)
(* key of all it has.                                                      *)
LEMMA CheckKeyPreserves == ASSUME IInv, CheckKey PROVE IInv'
<1>1. /\ phase = "checking" /\ disk \in Database /\ disk' = KeptKey /\ key \in Keys
      /\ phase' = IF disk.key \in {None, Some(key)} THEN "open" ELSE "failed"
      /\ UNCHANGED <<next, found, key>> /\ disk.version = VERSION
  BY DEF CheckKey, IInv, TypeOK, KnownInv
<1>2. /\ disk'.version = disk.version /\ disk'.tables = disk.tables /\ disk'.columns = disk.columns
      /\ disk'.providers = disk.providers
      /\ disk'.key = IF disk.key = None THEN Some(key) ELSE disk.key
  BY <1>1 DEF KeptKey, Database
<1>3. disk' \in Database
  BY <1>1 DEF KeptKey, Database
<1>4. Sealed(disk') = Sealed(disk)
  BY <1>2 DEF Sealed
<1>5. disk.key = None => Sealed(disk) = {}
  BY DEF IInv, OneKeyReadsAll, Sealed
<1>6. OneKeyReadsAll'
  BY <1>1, <1>2, <1>4, <1>5 DEF IInv, OneKeyReadsAll
<1>7. VersionTellsTheSchema'
  <2>1. \A i \in DOMAIN Steps : Done(Steps[i], disk) => Done(Steps[i], disk')
    BY <1>2 DEF Done
  <2> QED
    BY <1>1, <1>2, <2>1, DatabaseIs DEF IInv, VersionTellsTheSchema, VERSION
<1>8. TypeOK'
  BY <1>1, <1>3 DEF IInv, TypeOK
<1> QED
  BY <1>1, <1>2, <1>6, <1>7, <1>8 DEF IInv, MovingInv, MarkingInv, KnownInv

(* An open store has no provider of a type that is gone, and what its      *)
(* providers hold is sealed under the key the process has.                 *)
LEMMA OpenIs ==
  ASSUME IInv, phase = "open"
  PROVE  /\ disk \in Database /\ disk.version = VERSION /\ disk.key = Some(key) /\ disk.providers \in Kept
         /\ \A i \in DOMAIN Steps : Done(Steps[i], disk)
         /\ \A p \in DOMAIN disk.providers :
              /\ disk.providers[p].tool = FALSE /\ disk.providers[p].sealed \in {None, Some(key)}
              /\ disk.providers[p] = [tool |-> FALSE, sealed |-> disk.providers[p].sealed]
<1>1. disk \in Database /\ disk.version = VERSION /\ disk.key = Some(key)
  BY DEF IInv, TypeOK, OneKeyReadsAll, KnownInv
<1>2. \A i \in DOMAIN Steps : Done(Steps[i], disk)
  BY <1>1, StepsKinds DEF IInv, VersionTellsTheSchema, VERSION
<1>3. 6 \in DOMAIN Steps /\ Steps[6].does = "remove"
  BY StepsLen DEF Steps, StepsIndex
<1>4. \A p \in DOMAIN disk.providers : ~disk.providers[p].tool
  BY <1>2, <1>3 DEF Done
<1>5. disk.providers \in Kept
  BY <1>1, DatabaseIs
<1>6. \A p \in DOMAIN disk.providers : disk.providers[p] \in Provider
  BY <1>5, KeptIs
<1>7. \A p \in DOMAIN disk.providers : disk.providers[p].sealed \in {None, Some(key)}
  BY <1>1 DEF IInv, OneKeyReadsAll, Sealed
<1> QED
  BY <1>1, <1>2, <1>4, <1>5, <1>6, <1>7 DEF Provider

(* Changing the providers of an open store, to ones sealed under its key   *)
(* and of the types there are, keeps the invariant.                        *)
LEMMA ProvidersPreserve ==
  ASSUME IInv, phase = "open", NEW f \in Kept,
         \A p \in DOMAIN f : f[p].tool = FALSE /\ f[p].sealed \in {None, Some(key)},
         disk' = [disk EXCEPT !.providers = f], UNCHANGED <<phase, next, found, key>>
  PROVE  IInv'
<1>1. disk \in Database /\ disk.key = Some(key) /\ disk.version = VERSION
  BY OpenIs
<1>2. /\ disk'.version = disk.version /\ disk'.tables = disk.tables /\ disk'.columns = disk.columns
      /\ disk'.providers = f /\ disk'.key = disk.key
  BY <1>1 DEF Database
<1>3. disk' \in Database
  BY <1>1 DEF Database, Kept
<1>4. \A s \in Sealed(disk') : s = disk'.key
  BY <1>1, <1>2 DEF Sealed
<1>5. \A i \in DOMAIN Steps : Done(Steps[i], disk) => Done(Steps[i], disk')
  BY <1>2, StepsKinds DEF Done
<1>6. TypeOK'
  BY <1>3 DEF IInv, TypeOK
<1>7. OneKeyReadsAll'
  BY <1>1, <1>2, <1>4 DEF OneKeyReadsAll
<1>8. VersionTellsTheSchema'
  BY <1>1, <1>2, <1>5 DEF IInv, VersionTellsTheSchema, VERSION
<1> QED
  BY <1>1, <1>2, <1>6, <1>7, <1>8 DEF IInv, MovingInv, MarkingInv, KnownInv, VERSION

(* storing a provider, *)
LEMMA PutPreserves ==
  ASSUME IInv, NEW p \in Ids, NEW sealed \in {None, Some(key)}, Put(p, sealed)
  PROVE  IInv'
<1> DEFINE was == disk.providers
           f == [q \in DOMAIN was \cup {p} |-> IF q = p THEN [tool |-> FALSE, sealed |-> sealed] ELSE was[q]]
<1>1. phase = "open" /\ disk' = [disk EXCEPT !.providers = f] /\ UNCHANGED <<phase, next, found, key>>
  BY DEF Put
<1>2. was \in Kept /\ key \in Keys
  BY <1>1, OpenIs DEF IInv, TypeOK
<1>3. DOMAIN was \subseteq Ids /\ was \in [DOMAIN was -> Provider]
  BY <1>2, KeptIs
<1>4. [tool |-> FALSE, sealed |-> sealed] \in Provider
  BY <1>2 DEF Provider
<1>5. f \in Kept
  BY <1>3, <1>4, KeptIs
<1>6. \A q \in DOMAIN f : f[q].tool = FALSE /\ f[q].sealed \in {None, Some(key)}
  BY <1>1, OpenIs
<1> HIDE DEF f
<1> QED
  BY <1>1, <1>5, <1>6, ProvidersPreserve

(* deleting one, *)
LEMMA DeletePreserves == ASSUME IInv, NEW p \in Ids, Delete(p) PROVE IInv'
<1> DEFINE was == disk.providers
           f == Restrict(was, DOMAIN was \ {p})
<1>1. phase = "open" /\ disk' = [disk EXCEPT !.providers = f] /\ UNCHANGED <<phase, next, found, key>>
  BY DEF Delete
<1>2. was \in Kept
  BY <1>1, OpenIs
<1>3. f \in Kept /\ DOMAIN f = DOMAIN was \ {p} /\ \A q \in DOMAIN f : f[q] = was[q]
  BY <1>2, KeptRestricts
<1>4. \A q \in DOMAIN f : f[q].tool = FALSE /\ f[q].sealed \in {None, Some(key)}
  BY <1>1, <1>3, OpenIs
<1> HIDE DEF f
<1> QED
  BY <1>1, <1>3, <1>4, ProvidersPreserve

(* the end of the process, *)
LEMMA CrashPreserves == ASSUME IInv, Crash PROVE IInv'
BY DEF Crash, IInv, TypeOK, VersionTellsTheSchema, OneKeyReadsAll, Sealed, Done, MovingInv, MarkingInv,
       KnownInv

(* and with that every step. *)
LEMMA NextPreserves == IInv /\ [Next]_vars => IInv'
<1> SUFFICES ASSUME IInv, [Next]_vars PROVE IInv'
  OBVIOUS
<1>1. CASE \E k \in Keys : Start(k)
  BY <1>1, StartPreserves
<1>2. CASE Move
  BY <1>2, MovePreserves
<1>3. CASE Mark
  BY <1>3, MarkPreserves
<1>4. CASE CheckKey
  BY <1>4, CheckKeyPreserves
<1>5. CASE Crash
  BY <1>5, CrashPreserves
<1>6. CASE \E p \in Ids, sealed \in {None, Some(key)} : Put(p, sealed)
  BY <1>6, PutPreserves
<1>7. CASE \E p \in Ids : Delete(p)
  BY <1>7, DeletePreserves
<1>8. CASE UNCHANGED vars
  BY <1>8 DEF vars, IInv, TypeOK, VersionTellsTheSchema, OneKeyReadsAll, Sealed, Done, MovingInv,
              MarkingInv, KnownInv
<1> QED
  BY <1>1, <1>2, <1>3, <1>4, <1>5, <1>6, <1>7, <1>8 DEF Next

(* It holds of every behaviour. *)
LEMMA Invariant == Spec => []IInv
<1> QED
  BY InitEstablishes, NextPreserves, PTL DEF Spec

-----------------------------------------------------------------------------
(* The theorems *)

(* Every reachable state of an opening, a crash and a start is of the type *)
(* TypeOK says: what Store::setup leaves behind is always a database.      *)
THEOREM TypeCorrect == Spec => []TypeOK
<1>1. IInv => TypeOK
  BY DEF IInv
<1> QED
  BY <1>1, Invariant, PTL

(* The version a database says it is of is one it has all of, wherever     *)
(* starts are cut short, and a newer build's database is left as it was    *)
(* (Store::setup writes user_version after the last statement).            *)
THEOREM VersionIsTold == Spec => []VersionTellsTheSchema
<1>1. IInv => VersionTellsTheSchema
  BY DEF IInv
<1> QED
  BY <1>1, Invariant, PTL

(* Every credential is sealed under the key the database was made with,    *)
(* whatever keys it is started with, and an open store was started with it *)
(* (Store::check_key).                                                     *)
THEOREM OneKey == Spec => []OneKeyReadsAll
<1>1. IInv => OneKeyReadsAll
  BY DEF IInv
<1> QED
  BY <1>1, Invariant, PTL
=============================================================================
