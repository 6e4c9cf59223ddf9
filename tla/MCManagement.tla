---------------------------- MODULE MCManagement ----------------------------
(* A type that needs a key and only chats, and one that needs none and does *)
(* more; a provider of each at first, a chat model under each, one known to *)
(* the release, and an embedding model; one route set.  The first provider  *)
(* may be deleted and created as either type.                               *)
EXTENDS Management, TLC

CONSTANTS h1, h2, h3, anthropic, compatible, cloud, local, claude, llama, embed, fast

Under == claude :> cloud @@ llama :> local @@ embed :> local
ServedBy == anthropic :> {"chat"} @@ compatible :> {"chat", "embedding"}
InRelease == anthropic :> {claude} @@ compatible :> {}

Row(type, key) == [there |-> TRUE, type |-> type, enabled |-> TRUE, key |-> key]
On(kind, known) == [there |-> TRUE, enabled |-> TRUE, kind |-> kind, known |-> known]

Configured ==
  [providers |-> cloud :> Row(anthropic, 1) @@ local :> Row(compatible, NoKey),
   models |-> claude :> On("chat", FALSE) @@ llama :> On("chat", TRUE)
              @@ embed :> On("embedding", FALSE),
   routes |-> fast :> <<claude, llama>>]

(* The first provider without a key yet, of the type that needs none.      *)
Keyless ==
  [Configured EXCEPT !.providers[cloud] = Row(compatible, NoKey), !.models[claude].known = TRUE]

Stores == {Empty, Configured, Keyless}

Create(type, key) ==
  [do |-> "create_provider", p |-> cloud, type |-> type, enabled |-> TRUE, key |-> key]
Patch(enabled, key) ==
  [do |-> "update_provider", p |-> cloud, enabled |-> enabled, key |-> key]
Put(enabled, kind, known) ==
  [do |-> "put_model", m |-> claude, enabled |-> enabled, kind |-> kind, known |-> known]

Asked ==
  {Create(anthropic, 1), Create(compatible, NoKey),
   Patch(TRUE, Absent), Patch(FALSE, Absent), Patch(Absent, 2), Patch(Absent, NoKey),
   [do |-> "delete_provider", p |-> cloud],
   Put(TRUE, Absent, Absent), Put(Absent, "embedding", FALSE),
   [do |-> "delete_model", m |-> claude],
   [do |-> "put_route", n |-> fast, routes |-> <<embed, claude, llama>>],
   [do |-> "delete_route", n |-> fast]}

Interchangeable == Permutations(Handlers)
=============================================================================
