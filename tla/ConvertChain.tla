---------------------------- MODULE ConvertChain -----------------------------
(***************************************************************************)
(* A caller that feeds ObjectFactory.convert its own output: it starts     *)
(* with any object of either universe and converts the latest result again *)
(* until a conversion raises or MaxHops conversions have been made.  The   *)
(* whole chain is kept in `trace`, so that a result can be compared with   *)
(* the object it was converted from and with the one two hops earlier.     *)
(* The factory keeps no state between calls, so this chain is the whole   *)
(* of its observable behaviour.                                            *)
(***************************************************************************)
EXTENDS ObjectFactory

CONSTANT MaxHops   \* bound on the number of conversions in one chain

ASSUME MaxHopsAssumption == MaxHops \in Nat

VARIABLE trace

vars == <<trace>>

Current == trace[Len(trace)]

(* The latest result is an object and the bound is not reached. *)
Active == ~IsErr(Current) /\ Len(trace) <= MaxHops

Init == \E o \in Objects : trace = <<o>>

(* convert() on a Pie object (or an unsupported one tagged Pie). *)
ConvertToCore ==
  /\ Active
  /\ Current.space = "pie"
  /\ trace' = Append(trace, Convert(Current))

(* convert() on a core object (or an unsupported one tagged core). *)
ConvertToPie ==
  /\ Active
  /\ Current.space = "core"
  /\ trace' = Append(trace, Convert(Current))

Next == ConvertToCore \/ ConvertToPie

Spec == Init /\ [][Next]_vars

-----------------------------------------------------------------------------
(* Every entry of the chain is an object or an error, the errors only at   *)
(* the end.                                                                *)
TypeOK ==
  /\ trace \in Seq(Objects \cup Errors)
  /\ Len(trace) \in 1..(MaxHops + 1)
  /\ \A i \in 1..(Len(trace) - 1) : ~IsErr(trace[i])

(* The part of an object the other universe can carry: a core Certificate  *)
(* has no usage masks or names, and a Pie SecretData has no key format.    *)
Carried(o) ==
  IF o.space = "pie" /\ o.kind = "Certificate"
  THEN [certificate_type |-> o.certificate_type, value |-> o.value]
  ELSE IF o.space = "core" /\ o.kind = "SecretData"
  THEN [secret_data_type |-> o.secret_data_type, value |-> o.key_block.key_material]
  ELSE o

(* Round trip (spec section 8): converting an object to the other universe *)
(* and back, when both calls succeed, gives back everything the other      *)
(* universe can carry: algorithm, length, material, format, the whole      *)
(* wrapping data with its absent and empty blocks, the split-key sharing   *)
(* parameters, certificate type and value.  This is the agreement between  *)
(* the _build_core_* and _build_pie_* builders, in both directions.        *)
RoundTrip ==
  \A i \in 1..(Len(trace) - 2) :
    ~IsErr(trace[i + 2]) => Carried(trace[i + 2]) = Carried(trace[i])

(* The reason a conversion may fail, by the error it raised. *)
LacksParameters(o) ==
  /\ o.kind \in KeyKinds \cup {"SplitKey"}
  /\ o.key_block.key_wrapping_data # NONE
  /\ \E f \in {"encryption_key_information", "mac_signature_key_information"} :
        /\ o.key_block.key_wrapping_data[f] # NONE
        /\ o.key_block.key_wrapping_data[f].cryptographic_parameters = NONE

Justified(src, e) ==
  /\ e = "UnsupportedVariant" => src.kind \notin Kinds
  /\ e = "UnsupportedCertificateType" =>
       src.space = "core" /\ src.kind = "Certificate" /\ src.certificate_type # X509
  /\ e = "FormatMismatch" =>
       /\ src.space = "core" /\ src.kind = "SymmetricKey"
       /\ src.key_block.key_format_type # SymFormat
  /\ e = "AttributeError" =>
       /\ src.space = "core"
       /\ \/ src.kind \in KeyKinds \cup {"SplitKey"} /\ LacksAlgorithmOrLength(src.key_block)
          \/ LacksParameters(src)

(* A conversion fails only for its reason: an unsupported class, a core    *)
(* certificate that is not X.509, a core SymmetricKey whose format is not  *)
(* the Pie one (never a PublicKey or PrivateKey), a core key block without *)
(* an algorithm or length, or a wrapping block without parameters.  It     *)
(* catches a guard of convert() or _build_pie_key that fires where it must *)
(* not, and a field read before the guard that should have come first.    *)
ErrorsJustified ==
  \A i \in 1..(Len(trace) - 1) :
    IsErr(trace[i + 1]) => Justified(trace[i], trace[i + 1].error)

(* The objects that give convert() a reason to raise: the disjunction of  *)
(* the reasons Justified names.                                            *)
Raises(o) ==
  \/ o.kind \notin Kinds
  \/ /\ o.space = "core"
     /\ \/ o.kind = "Certificate" /\ o.certificate_type # X509
        \/ o.kind = "SymmetricKey" /\ o.key_block.key_format_type # SymFormat
        \/ o.kind \in KeyKinds \cup {"SplitKey"} /\ LacksAlgorithmOrLength(o.key_block)
        \/ LacksParameters(o)

(* Every call of convert() raises exactly when the object gives it a       *)
(* reason: the guards of convert(), _build_pie_certificate and             *)
(* _build_pie_key, and the attribute reads of _build_pie_key and           *)
(* _build_key_wrapping_data, fire on every such object (none is dropped or *)
(* skipped by an earlier branch) and on no other.                          *)
RaisesExactly == [][IsErr(Current') <=> Raises(Current)]_vars

(* The spec (sections 4.1 and 7): every failure of a conversion is one of  *)
(* the conversion errors, never an exception of the builders themselves;   *)
(* _build_pie_key and _build_pie_split_key read .value of the key block's *)
(* algorithm and length, both optional in a core key block, first of all. *)
NoAttributeError ==
  \A i \in 1..Len(trace) : trace[i] # Err("AttributeError")

(* The spec (sections 2 and 7): a key-information block is a unique      *)
(* identifier with cryptographic parameters whose fields are all optional, *)
(* and a well-formed object converts or fails with a conversion error.     *)
(* So a core key or split key whose block carries its algorithm and length *)
(* (the line-88 case set aside) never makes convert() raise AttributeError,*)
(* whatever its wrapping data holds; _build_key_wrapping_data passes each  *)
(* block's parameters to _build_cryptographic_parameters unchecked.        *)
WrappedKeysConvert ==
  \A i \in 1..(Len(trace) - 1) :
    /\ trace[i].space = "core"
    /\ trace[i].kind \in KeyKinds \cup {"SplitKey"}
    /\ ~LacksAlgorithmOrLength(trace[i].key_block)
    => trace[i + 1] # Err("AttributeError")

(* The spec (section 8): a Pie certificate converted to core and back is   *)
(* equal to the original in all its fields, masks and names included.     *)
CertificateRoundTrip ==
  \A i \in 1..(Len(trace) - 2) :
    /\ trace[i].kind = "Certificate"
    /\ ~IsErr(trace[i + 2])
    => trace[i + 2] = trace[i]

-----------------------------------------------------------------------------
(* The refinement mapping to AbstractConverter: the managed object the     *)
(* caller holds is the last object of the chain, in the universe of that   *)
(* object, or "failed" once convert() has raised.                          *)
MaterialOf(o) ==
  IF o.kind \notin Kinds THEN NONE
  ELSE IF o.space = "pie" THEN o.value
  ELSE IF o.kind = "Certificate" THEN o.certificate_value
  ELSE IF o.kind = "OpaqueObject" THEN o.opaque_data_value
  ELSE o.key_block.key_material

Entity == IF IsErr(Current) THEN trace[Len(trace) - 1] ELSE Current

Abs == INSTANCE AbstractConverter
         WITH universe <- IF IsErr(Current) THEN "failed" ELSE Current.space,
              kind     <- Entity.kind,
              material <- MaterialOf(Entity)

(* convert() implements the abstract converter: every call keeps the      *)
(* object's class and its key material or value and moves it to the other *)
(* universe, or raises where the spec allows it (an unsupported class, or *)
(* a core key, split key or certificate), never on a Pie object of a      *)
(* supported class nor on a core SecretData or OpaqueObject.              *)
Implements == Abs!Spec
=============================================================================
