------------------------------ MODULE MCSetup -------------------------------
(* One database of each version, of a build before this one and after it.  *)
EXTENDS Setup

MCKeys == {"k1", "k2"}
MCIds == {"one", "tool"}

UpTo(version, does) ==
  {Steps[i].what : i \in {j \in DOMAIN Steps : Steps[j].does = does /\ Steps[j].since <= version}}

Written(version) ==
  [version |-> version, tables |-> UpTo(version, "create"), columns |-> UpTo(version, "add"),
   key |-> Some("k1"),
   providers |-> [p \in IF version < 3 THEN MCIds ELSE {"one"} |->
                    [tool |-> p = "tool", sealed |-> IF p = "tool" THEN None ELSE Some("k1")]]]

MCStored == {Written(version) : version \in 1..6}
=============================================================================
