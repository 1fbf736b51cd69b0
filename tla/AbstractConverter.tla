-------------------------- MODULE AbstractConverter --------------------------
(***************************************************************************)
(* What ObjectFactory.convert promises a caller, with the object shapes    *)
(* abstracted away: the caller holds one logical managed object, of some   *)
(* kind and with some key material or value, in one of the two universes.  *)
(* A conversion moves it to the other universe and keeps its kind and its *)
(* material, or fails; once it has failed there is nothing left to convert.*)
(* Failure is allowed only where the spec lets convert raise: an object of *)
(* no supported class, or a core object whose fields the Pie class cannot  *)
(* take (keys, split keys and certificates).  A Pie object of a supported  *)
(* class, a core SecretData and a core OpaqueObject always convert.        *)
(***************************************************************************)
EXTENDS KmipObjects

VARIABLES
  universe,  \* "pie", "core", or "failed" after convert raised
  kind,      \* the managed object's class, or "Unsupported"
  material   \* its key material or value; NONE for an unsupported object

vars == <<universe, kind, material>>

(* The classes that may fail to convert out of universe u. *)
MayFail(u, k) ==
  \/ k \notin Kinds
  \/ u = "core" /\ k \in KeyKinds \cup {"SplitKey", "Certificate"}

Init ==
  /\ universe \in Spaces
  /\ \/ kind \in Kinds /\ material \in Materials
     \/ kind = "Unsupported" /\ material = NONE

(* A successful conversion: same object, other universe. *)
Translate ==
  /\ universe \in Spaces
  /\ kind \in Kinds
  /\ universe' = IF universe = "pie" THEN "core" ELSE "pie"
  /\ UNCHANGED <<kind, material>>

(* A conversion that raises. *)
Fail ==
  /\ universe \in Spaces
  /\ MayFail(universe, kind)
  /\ universe' = "failed"
  /\ UNCHANGED <<kind, material>>

Next == Translate \/ Fail

Spec == Init /\ [][Next]_vars
=============================================================================
