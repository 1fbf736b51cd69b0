------------------------- MODULE ConvertChainErrors -------------------------
(***************************************************************************)
(* RaisesExactly for every value of the constants: convert() raises on an  *)
(* object if and only if the object gives it one of the reasons of         *)
(* Justified.  One direction is ConvertErrorJustified; the other says that *)
(* no guard or attribute read of the code is skipped on an object that     *)
(* should trip it.                                                         *)
(***************************************************************************)
EXTENDS ConvertChainRefinement

(* An object in the core universe of class Certificate is a core         *)
(* certificate.                                                            *)
LEMMA CoreCertificateClass ==
  ASSUME NEW o \in Objects, o.space = "core", o.kind = "Certificate"
  PROVE  o \in CoreCertificates
BY DEF Objects, PieObjects, CoreObjects, PieKeys, PieSplitKeys, PieCertificates,
       PieSecretData, PieOpaqueObjects, CoreKeys, CoreSplitKeys, CoreCertificates,
       CoreSecretData, CoreOpaqueObjects, Unsupported, KeyKinds

(* The universe and class of an object fix the set it belongs to. *)
LEMMA ClassOf ==
  ASSUME NEW o \in Objects
  PROVE  /\ o.kind \notin Kinds => o \in Unsupported
         /\ o.space = "core" /\ o.kind \in KeyKinds => o \in CoreKeys
         /\ o.space = "core" /\ o.kind = "SplitKey" => o \in CoreSplitKeys
BY DEF Objects, PieObjects, CoreObjects, PieKeys, PieSplitKeys, PieCertificates,
       PieSecretData, PieOpaqueObjects, CoreKeys, CoreSplitKeys, CoreCertificates,
       CoreSecretData, CoreOpaqueObjects, Unsupported, Kinds, KeyKinds

(* _build_key_wrapping_data raises on a present block without parameters, *)
(* whichever of the two blocks it is.                                      *)
LEMMA WrapLacking ==
  ASSUME NEW w, w # NONE,
         NEW f \in {"encryption_key_information", "mac_signature_key_information"},
         w[f] # NONE, w[f].cryptographic_parameters = NONE
  PROVE  IsErr(BuildKeyWrappingData(w))
<1>1. IsErr(BuildKeyInformation(w[f]))
  BY DEF BuildKeyInformation, BuildCryptographicParameters, IsErr, Err, Errors, ErrorKinds
<1>2. CASE f = "encryption_key_information"
  BY <1>1, <1>2 DEF BuildKeyWrappingData
<1>3. CASE f = "mac_signature_key_information"
  BY <1>1, <1>3 DEF BuildKeyWrappingData
<1>. QED BY <1>2, <1>3

(* A core key or split key that lacks its algorithm or length, or has a   *)
(* block without parameters, makes the Pie builder raise.                  *)
LEMMA KeyBuilderRaises ==
  ASSUME NEW o, o.kind \in KeyKinds \cup {"SplitKey"},
         LacksAlgorithmOrLength(o.key_block) \/ LacksParameters(o)
  PROVE  /\ o.kind \in KeyKinds => IsErr(BuildPieKey(o, o.kind))
         /\ IsErr(BuildPieSplitKey(o))
<1>. DEFINE b == o.key_block
            wrap == BuildKeyWrappingData(b.key_wrapping_data)
<1>1. CASE LacksAlgorithmOrLength(b)
  BY <1>1 DEF BuildPieKey, BuildPieSplitKey, IsErr, Err, Errors, ErrorKinds
<1>2. CASE ~LacksAlgorithmOrLength(b) /\ LacksParameters(o)
  <2>1. IsErr(wrap)
    BY <1>2, WrapLacking DEF LacksParameters
  <2>. QED BY <1>2, <2>1 DEF BuildPieKey, BuildPieSplitKey
<1>. QED BY <1>1, <1>2

(* convert() raises on every object that gives it a reason. *)
LEMMA ConvertErrorComplete ==
  ASSUME NEW o \in Objects, Raises(o)
  PROVE  IsErr(Convert(o))
<1>1. CASE o.kind \notin Kinds
  <2>1. o \in Unsupported
    BY <1>1, ClassOf
  <2>2. Convert(o) = Err("UnsupportedVariant")
    BY <2>1 DEF Convert, ToCore, ToPie, Unsupported, KeyKinds
  <2>. QED BY <2>2 DEF IsErr, Err, Errors, ErrorKinds
<1>2. CASE o.kind = "Certificate"
  <2>1. o.space = "core" /\ o.certificate_type # X509
    BY <1>2 DEF Raises, LacksParameters, Kinds, KeyKinds
  <2>2. o \in CoreCertificates
    BY <2>1, <1>2, CoreCertificateClass
  <2>3. Convert(o) = BuildPieCertificate(o)
    BY <1>2, <2>1 DEF Convert, ToPie
  <2>. QED BY <2>1, <2>3 DEF BuildPieCertificate, IsErr, Err, Errors, ErrorKinds
<1>3. CASE o.kind \in KeyKinds
  <2>. DEFINE b == o.key_block
              wrap == BuildKeyWrappingData(b.key_wrapping_data)
  <2>1. o.space = "core"
    BY <1>3 DEF Raises, Kinds
  <2>2. Convert(o) = BuildPieKey(o, o.kind)
    BY <1>3, <2>1, ToPieKey DEF Convert
  <2>3. CASE LacksAlgorithmOrLength(b) \/ LacksParameters(o)
    BY <1>3, <2>2, <2>3, KeyBuilderRaises
  <2>4. CASE ~LacksAlgorithmOrLength(b) /\ ~LacksParameters(o)
    <3>1. o.kind = "SymmetricKey" /\ b.key_format_type # SymFormat
      BY <1>3, <2>1, <2>4 DEF Raises, Kinds, KeyKinds
    <3>. QED BY <2>2, <3>1 DEF BuildPieKey, IsErr, Err, Errors, ErrorKinds
  <2>. QED BY <2>3, <2>4
<1>4. CASE o.kind = "SplitKey"
  <2>1. o.space = "core" /\ (LacksAlgorithmOrLength(o.key_block) \/ LacksParameters(o))
    BY <1>4 DEF Raises, Kinds, KeyKinds
  <2>2. Convert(o) = BuildPieSplitKey(o)
    BY <1>4, <2>1 DEF Convert, ToPie, KeyKinds
  <2>. QED BY <1>4, <2>1, <2>2, KeyBuilderRaises
<1>5. CASE o.kind \in {"SecretData", "OpaqueObject"}
  BY <1>5 DEF Raises, LacksParameters, Kinds, KeyKinds
<1>. QED BY <1>1, <1>2, <1>3, <1>4, <1>5 DEF Kinds

(* Every reason Justified gives for an error is one of the reasons of      *)
(* Raises.                                                                 *)
LEMMA JustifiedRaises ==
  ASSUME NEW o, NEW e \in ErrorKinds, Justified(o, e)
  PROVE  Raises(o)
<1>1. CASE e = "UnsupportedVariant"
  BY <1>1 DEF Justified, Raises
<1>2. CASE e = "UnsupportedCertificateType"
  BY <1>2 DEF Justified, Raises
<1>3. CASE e = "FormatMismatch"
  BY <1>3 DEF Justified, Raises
<1>4. CASE e = "AttributeError"
  BY <1>4 DEF Justified, Raises
<1>. QED BY <1>1, <1>2, <1>3, <1>4 DEF ErrorKinds

(* RaisesExactly, for every instance: each call of convert() in the chain *)
(* raises if and only if its object gives it a reason, so no guard of the *)
(* factory fires where it must not, and none is skipped where it must     *)
(* fire.  The latest object being an object (TypeOK) is all a step needs. *)
THEOREM RaisesExactlyHolds == Spec => RaisesExactly
<1>1. TypeOK /\ [Next]_vars => [IsErr(Current') <=> Raises(Current)]_vars
  <2>. SUFFICES ASSUME TypeOK, [Next]_vars
                PROVE  [IsErr(Current') <=> Raises(Current)]_vars
    OBVIOUS
  <2>1. CASE UNCHANGED vars
    BY <2>1
  <2>2. CASE Next
    <3>. DEFINE c == Current
    <3>1. /\ ~IsErr(c)
          /\ trace' = Append(trace, Convert(c))
          /\ trace \in Seq(Objects \cup Errors)
          /\ Len(trace) >= 1
      BY <2>2, NextAppends, MaxHopsAssumption DEF Active, TypeOK
    <3>2. c \in Objects
      BY <3>1 DEF Current, IsErr
    <3>3. Current' = Convert(c)
      BY <3>1 DEF Current
    <3>4. IsErr(Convert(c)) => Raises(c)
      BY <3>2, ConvertErrorJustified, JustifiedRaises DEF IsErr, Errors
    <3>5. Raises(c) => IsErr(Convert(c))
      BY <3>2, ConvertErrorComplete
    <3>. QED BY <3>3, <3>4, <3>5
  <2>. QED BY <2>1, <2>2
<1>. QED BY <1>1, TypeCorrect, PTL DEF Spec, RaisesExactly
=============================================================================
