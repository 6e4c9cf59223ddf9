------------------------------ MODULE Gateway ------------------------------
(***************************************************************************)
(* What the store holds of the configuration, and the gateway that         *)
(* Gateway::build makes of it.  Building never fails as a whole: a         *)
(* provider that cannot be built and a route that cannot be used are left  *)
(* out, and everything else is served.                                     *)
(***************************************************************************)
EXTENDS Lists

CONSTANTS
  Providers, Models, Names,
  ProviderOf,  (* the provider each model is under                         *)
  Types,       (* what a provider may be: whose API it speaks              *)
  NeedsKey,    (* types that require a credential                          *)
  KindsOf,     (* what the models of a type may be for                     *)
  Shipped,     (* models of a type this release knows the capabilities of  *)
  Keys,        (* credentials, as positive numbers                         *)
  Kinds        (* what a model is for; "chat" among them                   *)

ASSUME GatewayAssumption ==
  /\ ProviderOf \in [Models -> Providers]
  /\ Types # {} /\ NeedsKey \subseteq Types
  /\ KindsOf \in [Types -> SUBSET Kinds] /\ \A t \in Types : "chat" \in KindsOf[t]
  /\ Shipped \in [Types -> SUBSET Models]
  /\ Keys \subseteq Nat \ {0}
  /\ "chat" \in Kinds

NoKey == 0

(* A row that is not there has every field at rest, so equal stores are    *)
(* equal values.  A route set that is not there lists nothing; one that is *)
(* there never does.  Of the capabilities a row may have, only whether it  *)
(* has any; of what a type requires, only the credential.                  *)
ProviderRow ==
  [there : BOOLEAN, type : Types, enabled : BOOLEAN, key : Keys \cup {NoKey}]
ModelRow == [there : BOOLEAN, enabled : BOOLEAN, kind : Kinds, known : BOOLEAN]

NoProvider == [there |-> FALSE, type |-> CHOOSE t \in Types : TRUE,
               enabled |-> FALSE, key |-> NoKey]
NoModel == [there |-> FALSE, enabled |-> FALSE, kind |-> "chat", known |-> FALSE]

Store ==
  [providers : [Providers -> ProviderRow],
   models : [Models -> ModelRow],
   routes : [Names -> Seq(Models)]]

Empty ==
  [providers |-> [p \in Providers |-> NoProvider],
   models |-> [m \in Models |-> NoModel],
   routes |-> [n \in Names |-> <<>>]]

(* What complete and build_provider both ask of a row.                     *)
HasItsKey(row) == row.type \in NeedsKey => row.key # NoKey

Built(s) ==
  {p \in Providers : /\ s.providers[p].there /\ s.providers[p].enabled
                     /\ HasItsKey(s.providers[p])}

(* The provider's being built is forgotten. *)
Enabled_AnyProvider(s) == {m \in Models : s.models[m].there /\ s.models[m].enabled}

Enabled(s) ==
  {m \in Models : /\ s.models[m].there /\ s.models[m].enabled
                  /\ ProviderOf[m] \in Built(s)}

(* A set serves the kind of its first enabled route, and that kind only.   *)
KindOf(s, n) ==
  LET on == Only(s.routes[n], Enabled(s))
  IN  IF on = <<>> THEN "chat" ELSE s.models[Head(on)].kind

(* What a provider of a type can be asked for by a model's row: a chat     *)
(* model when something says what it can do, another kind when the type has*)
(* an endpoint for it.                                                     *)
CanServe(type, m, row) ==
  /\ row.kind \in KindsOf[type]
  /\ row.kind = "chat" => row.known \/ m \in Shipped[type]

Usable(s) == {m \in Enabled(s) : CanServe(s.providers[ProviderOf[m]].type, m, s.models[m])}

Served(s, n) ==
  Only(s.routes[n], {m \in Usable(s) : s.models[m].kind = KindOf(s, n)})

Build(s) ==
  [keys |-> [p \in Built(s) |-> s.providers[p].key],
   enabled |-> Enabled(s),
   kinds |-> [m \in Enabled(s) |-> s.models[m].kind],
   served |-> [n \in {n \in Names : s.routes[n] # <<>>} |-> Served(s, n)]]
=============================================================================
