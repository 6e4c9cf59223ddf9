------------------------------- MODULE Setup --------------------------------
(***************************************************************************)
(* Opening the database: it is brought forward from the version it was     *)
(* written at, statement by statement, with nothing around the statements; *)
(* then the version is written and the master key is checked.  The process *)
(* may end between any two of them and be started again, with any key.     *)
(*                                                                         *)
(* Of what is stored, the providers are kept: whether one is of a type     *)
(* that is gone, and the key its credential is sealed under.  A table's    *)
(* indexes are made with it, and the models of a provider go with it.      *)
(***************************************************************************)
EXTENDS Integers, Sequences, Functions

CONSTANTS
  Keys,      (* master keys                                                *)
  Ids,       (* of providers                                               *)
  Stored     (* the databases builds up to this one and newer have written *)

VARIABLES
  disk,   (* [version, tables, columns, key, providers]                    *)
  phase,  (* of the process: down, moving, marking, checking, open, failed *)
  next,   (* the step a moving process takes next                          *)
  found,  (* the version it read when it started                           *)
  key     (* the key it was started with                                   *)

vars == <<disk, phase, next, found, key>>

VERSION == 5

None == <<>>
Some(x) == <<x>>

(* What brings a database to each version, in order.                       *)
Steps ==
  <<[since |-> 1, does |-> "create", what |-> "meta"],
    [since |-> 1, does |-> "create", what |-> "providers"],
    [since |-> 1, does |-> "create", what |-> "models"],
    [since |-> 1, does |-> "create", what |-> "routes"],
    [since |-> 2, does |-> "create", what |-> "usage"],
    [since |-> 3, does |-> "remove", what |-> "tools"],
    [since |-> 4, does |-> "add",    what |-> "models.kind"],
    [since |-> 5, does |-> "create", what |-> "synced_prices"],
    [since |-> 5, does |-> "create", what |-> "price_overrides"],
    [since |-> 5, does |-> "add",    what |-> "usage.price_book"]>>

Created == {Steps[i].what : i \in {j \in DOMAIN Steps : Steps[j].does = "create"}}
Added == {Steps[i].what : i \in {j \in DOMAIN Steps : Steps[j].does = "add"}}

Provider == [tool : BOOLEAN, sealed : {None} \cup {Some(k) : k \in Keys}]

Database ==
  [version : Nat, tables : SUBSET Created, columns : SUBSET Added,
   key : {None} \cup {Some(k) : k \in Keys}, providers : UNION {[S -> Provider] : S \in SUBSET Ids}]

Fresh == [version |-> 0, tables |-> {}, columns |-> {}, key |-> None, providers |-> <<>>]

Done(step, d) ==
  CASE step.does = "create" -> step.what \in d.tables
    [] step.does = "add"    -> step.what \in d.columns
    [] step.does = "remove" -> \A p \in DOMAIN d.providers : ~d.providers[p].tool

Sealed(d) == {d.providers[p].sealed : p \in DOMAIN d.providers} \ {None}

(* A database that was written has what its version says, and its          *)
(* credentials are sealed under the key it was made with.                  *)
ASSUME SetupAssumption ==
  /\ Stored \subseteq Database
  /\ \A d \in Stored :
       /\ \A i \in DOMAIN Steps : Steps[i].since <= d.version => Done(Steps[i], d)
       /\ \A s \in Sealed(d) : s = d.key

-----------------------------------------------------------------------------

Init ==
  /\ disk \in Stored \cup {Fresh}
  /\ phase = "down" /\ next = 1 /\ found = 0 /\ key \in Keys

(* A database of a newer build is refused.                                 *)
Start(k) ==
  /\ phase = "down"
  /\ phase' = IF disk.version > VERSION THEN "failed" ELSE "moving"
  /\ next' = 1 /\ found' = disk.version /\ key' = k
  /\ UNCHANGED disk

(* A step back is taken for one the database has already. *)
Due_OneShort(step) == step.since = 1 \/ found + 1 < step.since

(* The first version's tables are made wherever they are missing, and the  *)
(* rest by what the version was when the process started.                  *)
Due(step) == step.since = 1 \/ found < step.since

(* A table that exists is left alone; a column cannot be added twice.      *)
Fails(step) == step.does = "add" /\ step.what \in disk.columns

Effect(step) ==
  CASE step.does = "create" -> [disk EXCEPT !.tables = @ \cup {step.what}]
    [] step.does = "add"    -> [disk EXCEPT !.columns = @ \cup {step.what}]
    [] step.does = "remove" ->
         [disk EXCEPT !.providers = Restrict(@, {p \in DOMAIN @ : ~@[p].tool})]

(* The next step, when it is due.                                          *)
Move ==
  /\ phase = "moving" /\ next \in DOMAIN Steps
  /\ LET step == Steps[next] IN
     IF Due(step) /\ Fails(step)
     THEN phase' = "failed" /\ UNCHANGED <<disk, next>>
     ELSE /\ disk' = IF Due(step) THEN Effect(step) ELSE disk
          /\ next' = next + 1
          /\ phase' = IF next = Len(Steps) THEN "marking" ELSE phase
  /\ UNCHANGED <<found, key>>

Mark ==
  /\ phase = "marking"
  /\ disk' = [disk EXCEPT !.version = VERSION]
  /\ phase' = "checking"
  /\ UNCHANGED <<next, found, key>>

(* A key that is not there yet is taken on trust. *)
KeptKey_Unstored == disk

(* The first key a database is opened with is the one it is made with.     *)
KeptKey == IF disk.key = None THEN [disk EXCEPT !.key = Some(key)] ELSE disk

CheckKey ==
  /\ phase = "checking"
  /\ phase' = IF disk.key \in {None, Some(key)} THEN "open" ELSE "failed"
  /\ disk' = KeptKey
  /\ UNCHANGED <<next, found, key>>

(* What the management API does to providers, with the store open.         *)
Put(p, sealed) ==
  /\ phase = "open"
  /\ disk' = [disk EXCEPT !.providers =
                [q \in DOMAIN @ \cup {p} |-> IF q = p THEN [tool |-> FALSE, sealed |-> sealed] ELSE @[q]]]
  /\ UNCHANGED <<phase, next, found, key>>

Delete(p) ==
  /\ phase = "open" /\ p \in DOMAIN disk.providers
  /\ disk' = [disk EXCEPT !.providers = Restrict(@, DOMAIN @ \ {p})]
  /\ UNCHANGED <<phase, next, found, key>>

(* The process ends: stopped, killed, or because it could not open.        *)
Crash ==
  /\ phase # "down"
  /\ phase' = "down"
  /\ UNCHANGED <<disk, next, found, key>>

Next ==
  \/ \E k \in Keys : Start(k)
  \/ Move \/ Mark \/ CheckKey \/ Crash
  \/ \E p \in Ids, sealed \in {None, Some(key)} : Put(p, sealed)
  \/ \E p \in Ids : Delete(p)

Spec == Init /\ [][Next]_vars

-----------------------------------------------------------------------------
(* Properties *)

TypeOK ==
  /\ disk \in Database
  /\ phase \in {"down", "moving", "marking", "checking", "open", "failed"}
  /\ next \in 1..Len(Steps) + 1 /\ found \in Nat /\ key \in Keys

(* Wherever starts are cut short, the version a database says it is of is  *)
(* one it has all of, and a database of a newer build is left as it was    *)
(* (setup writes user_version after the last statement).                   *)
VersionTellsTheSchema ==
  /\ \A i \in DOMAIN Steps : Steps[i].since <= disk.version => Done(Steps[i], disk)
  /\ disk.version > VERSION => disk \in Stored

(* Every credential is sealed under the one key the database was made with,*)
(* whatever keys it is started with and wherever its first start is cut    *)
(* short; and an open store was started with it (check_key).               *)
OneKeyReadsAll ==
  /\ \A s \in Sealed(disk) : s = disk.key
  /\ phase = "open" => disk.key = Some(key)

(* "Each step brings a database written by an older build forward, once":  *)
(* a start fails only on a database of a newer build or of another key.    *)
ForwardOnce ==
  phase = "failed" => disk.version > VERSION \/ disk.key \notin {None, Some(key)}
=============================================================================
