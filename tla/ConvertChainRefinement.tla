----------------------- MODULE ConvertChainRefinement -----------------------
(***************************************************************************)
(* ConvertChain implements AbstractConverter under the mapping Abs of      *)
(* ConvertChain, for every value of the constants: each call of convert()  *)
(* is a Translate step (same class and material, other universe) or a Fail *)
(* step that the abstract converter allows.                                *)
(***************************************************************************)
EXTENDS ConvertChainProofs

(* Every object of either universe is no error, lies in one of the two    *)
(* universes, and is a supported class with a material or an unsupported   *)
(* object without one.                                                     *)
LEMMA ObjectAbstract ==
  ASSUME NEW o \in Objects
  PROVE  /\ ~IsErr(o)
         /\ o.space \in Spaces
         /\ \/ o.kind \in Kinds /\ MaterialOf(o) \in Materials
            \/ o.kind = "Unsupported" /\ MaterialOf(o) = NONE
<1>1. "space" \in DOMAIN o /\ o.space \in Spaces
  BY DEF Objects, PieObjects, CoreObjects, PieKeys, PieSplitKeys, PieCertificates,
         PieSecretData, PieOpaqueObjects, CoreKeys, CoreSplitKeys, CoreCertificates,
         CoreSecretData, CoreOpaqueObjects, Unsupported, Spaces
<1>2. ~IsErr(o)
  BY <1>1, ErrorsDomain DEF IsErr
<1>. SUFFICES \/ o.kind \in Kinds /\ MaterialOf(o) \in Materials
              \/ o.kind = "Unsupported" /\ MaterialOf(o) = NONE
  BY <1>1, <1>2
<1>3. CASE o \in PieObjects
  BY <1>3 DEF MaterialOf, PieObjects, PieKeys, PieSplitKeys, PieCertificates,
              PieSecretData, PieOpaqueObjects, Kinds, KeyKinds
<1>4. CASE o \in CoreKeys \cup CoreSplitKeys \cup CoreSecretData
  BY <1>4 DEF MaterialOf, CoreKeys, CoreSplitKeys, CoreSecretData, KeyBlocks,
              KeyBlocksWith, Kinds, KeyKinds
<1>5. CASE o \in CoreCertificates \cup CoreOpaqueObjects
  BY <1>5 DEF MaterialOf, CoreCertificates, CoreOpaqueObjects, Kinds, KeyKinds
<1>6. CASE o \in Unsupported
  BY <1>6 DEF MaterialOf, Unsupported, Kinds, KeyKinds
<1>. QED BY <1>3, <1>4, <1>5, <1>6 DEF Objects, CoreObjects

(* Whatever error convert() raises on an object, the abstract converter   *)
(* allows that object to fail.                                             *)
LEMMA JustifiedMayFail ==
  ASSUME NEW o, NEW e \in ErrorKinds, Justified(o, e)
  PROVE  Abs!MayFail(o.space, o.kind)
<1>1. CASE e = "UnsupportedVariant"
  BY <1>1 DEF Justified, Abs!MayFail, Abs!Kinds, Abs!KeyKinds, Kinds,
                  KeyKinds
<1>2. CASE e = "UnsupportedCertificateType"
  BY <1>2 DEF Justified, Abs!MayFail, Abs!Kinds, Abs!KeyKinds, Kinds,
                  KeyKinds
<1>3. CASE e = "FormatMismatch"
  BY <1>3 DEF Justified, Abs!MayFail, Abs!Kinds, Abs!KeyKinds, Kinds,
                  KeyKinds
<1>4. CASE e = "AttributeError"
  BY <1>4 DEF Justified, LacksParameters, Abs!MayFail, Abs!Kinds, Abs!KeyKinds, Kinds,
                  KeyKinds
<1>. QED BY <1>1, <1>2, <1>3, <1>4 DEF ErrorKinds

(* A conversion that does not raise keeps the class and the material of   *)
(* the object and moves it to the other universe; an unsupported object   *)
(* never converts.                                                         *)
LEMMA ConvertTranslates ==
  ASSUME NEW o \in Objects, ~IsErr(Convert(o))
  PROVE  /\ o.kind \in Kinds
         /\ Convert(o).kind = o.kind
         /\ Convert(o).space = IF o.space = "pie" THEN "core" ELSE "pie"
         /\ MaterialOf(Convert(o)) = MaterialOf(o)
<1>1. CASE o \in PieKeys
  <2>1. Convert(o) = BuildCoreKey(o, o.kind)
    BY <1>1, ToCoreKey DEF Convert, PieKeys
  <2>. QED BY <1>1, <2>1 DEF BuildCoreKey, MaterialOf, PieKeys, Kinds, KeyKinds
<1>2. CASE o \in PieSplitKeys
  <2>1. Convert(o) = BuildCoreSplitKey(o)
    BY <1>2 DEF Convert, ToCore, PieSplitKeys, KeyKinds
  <2>. QED BY <1>2, <2>1 DEF BuildCoreSplitKey, MaterialOf, PieSplitKeys, Kinds, KeyKinds
<1>3. CASE o \in PieCertificates
  <2>1. Convert(o) = BuildCoreCertificate(o)
    BY <1>3 DEF Convert, ToCore, PieCertificates, KeyKinds
  <2>. QED BY <1>3, <2>1 DEF BuildCoreCertificate, MaterialOf, PieCertificates, Kinds,
                             KeyKinds
<1>4. CASE o \in PieSecretData
  <2>1. Convert(o) = BuildCoreSecretData(o)
    BY <1>4 DEF Convert, ToCore, PieSecretData, KeyKinds
  <2>. QED BY <1>4, <2>1 DEF BuildCoreSecretData, MaterialOf, PieSecretData, Kinds, KeyKinds
<1>5. CASE o \in PieOpaqueObjects
  <2>1. Convert(o) = BuildCoreOpaqueObject(o)
    BY <1>5 DEF Convert, ToCore, PieOpaqueObjects, KeyKinds
  <2>. QED BY <1>5, <2>1 DEF BuildCoreOpaqueObject, MaterialOf, PieOpaqueObjects, Kinds,
                             KeyKinds
<1>6. CASE o \in CoreKeys
  <2>. DEFINE b == o.key_block
              wrap == BuildKeyWrappingData(b.key_wrapping_data)
  <2>1. Convert(o) = BuildPieKey(o, o.kind)
    BY <1>6, ToPieKey DEF Convert, CoreKeys
  <2>2. ~LacksAlgorithmOrLength(b)
    BY <2>1 DEF BuildPieKey, IsErr, Err, Errors, ErrorKinds
  <2>3. ~IsErr(wrap)
    BY <2>1, <2>2 DEF BuildPieKey
  <2>4. ~(o.kind = "SymmetricKey" /\ SymFormat # b.key_format_type)
    BY <2>1, <2>2, <2>3 DEF BuildPieKey, IsErr, Err, Errors, ErrorKinds
  <2>. QED BY <1>6, <2>1, <2>2, <2>3, <2>4 DEF BuildPieKey, MaterialOf, CoreKeys, Kinds,
                                               KeyKinds
<1>7. CASE o \in CoreSplitKeys
  <2>. DEFINE b == o.key_block
              wrap == BuildKeyWrappingData(b.key_wrapping_data)
  <2>1. Convert(o) = BuildPieSplitKey(o)
    BY <1>7 DEF Convert, ToPie, CoreSplitKeys, KeyKinds
  <2>2. ~LacksAlgorithmOrLength(b)
    BY <2>1 DEF BuildPieSplitKey, IsErr, Err, Errors, ErrorKinds
  <2>3. ~IsErr(wrap)
    BY <2>1, <2>2 DEF BuildPieSplitKey
  <2>. QED BY <1>7, <2>1, <2>2, <2>3 DEF BuildPieSplitKey, MaterialOf, CoreSplitKeys, Kinds,
                                         KeyKinds
<1>8. CASE o \in CoreCertificates
  <2>1. Convert(o) = BuildPieCertificate(o)
    BY <1>8 DEF Convert, ToPie, CoreCertificates, KeyKinds
  <2>2. Convert(o) = X509Certificate(o.certificate_value)
    BY <2>1 DEF BuildPieCertificate, IsErr, Err, Errors, ErrorKinds
  <2>. QED BY <1>8, <2>2 DEF X509Certificate, MaterialOf, CoreCertificates, Kinds, KeyKinds
<1>9. CASE o \in CoreSecretData
  <2>1. Convert(o) = BuildPieSecretData(o)
    BY <1>9 DEF Convert, ToPie, CoreSecretData, KeyKinds
  <2>. QED BY <1>9, <2>1 DEF BuildPieSecretData, MaterialOf, CoreSecretData, Kinds, KeyKinds
<1>10. CASE o \in CoreOpaqueObjects
  <2>1. Convert(o) = BuildPieOpaqueObject(o)
    BY <1>10 DEF Convert, ToPie, CoreOpaqueObjects, KeyKinds
  <2>. QED BY <1>10, <2>1 DEF BuildPieOpaqueObject, MaterialOf, CoreOpaqueObjects, Kinds,
                              KeyKinds
<1>11. CASE o \in Unsupported
  <2>1. Convert(o) = Err("UnsupportedVariant")
    BY <1>11 DEF Convert, ToCore, ToPie, Unsupported, KeyKinds
  <2>. QED BY <2>1 DEF IsErr, Err, Errors, ErrorKinds
<1>. QED BY <1>1, <1>2, <1>3, <1>4, <1>5, <1>6, <1>7, <1>8, <1>9, <1>10, <1>11
         DEF Objects, PieObjects, CoreObjects

-----------------------------------------------------------------------------
(* The chain implements the abstract converter (Implements), for every    *)
(* instance: its first object is an abstract initial state, and every call *)
(* of convert() is an abstract Translate step when it returns and a Fail   *)
(* step, which the abstract converter allows for that object, when it      *)
(* raises.  IInv supplies the two facts a step needs: the latest object is *)
(* an object, and the one before an error is the object it was raised on. *)
THEOREM Refinement == Spec => Implements
<1>1. Init => Abs!Init
  <2>. SUFFICES ASSUME NEW o \in Objects, trace = <<o>>
                PROVE  Abs!Init
    BY DEF Init
  <2>1. /\ ~IsErr(o)
        /\ o.space \in Spaces
        /\ \/ o.kind \in Kinds /\ MaterialOf(o) \in Materials
           \/ o.kind = "Unsupported" /\ MaterialOf(o) = NONE
    BY ObjectAbstract
  <2>2. Current = o /\ Entity = o
    BY <2>1 DEF Current, Entity
  <2>. QED BY <2>1, <2>2 DEF Abs!Init, Abs!Kinds, Abs!KeyKinds, Abs!Spaces, Spaces, Kinds,
                             KeyKinds
<1>2. IInv /\ [Next]_vars => [Abs!Next]_Abs!vars
  <2>. SUFFICES ASSUME IInv, [Next]_vars PROVE [Abs!Next]_Abs!vars
    OBVIOUS
  <2>1. CASE UNCHANGED vars
    BY <2>1 DEF vars, Abs!vars, Current, Entity
  <2>2. CASE Next
    <3>. DEFINE c == Current
    <3>1. /\ ~IsErr(c)
          /\ trace' = Append(trace, Convert(c))
          /\ trace \in Seq(Objects \cup Errors) /\ Len(trace) >= 1
      BY <2>2, NextAppends DEF Active, IInv, TypeOK
    <3>2. c \in Objects
      BY <3>1 DEF Current, IsErr
    <3>3. /\ Current' = Convert(c)
          /\ Len(trace') - 1 = Len(trace) /\ trace'[Len(trace')-1] = c
      BY <3>1 DEF Current
    <3>4. CASE ~IsErr(Convert(c))
      <4>1. Entity' = Convert(c)
        BY <3>3, <3>4 DEF Entity
      <4>2. /\ c.kind \in Kinds
            /\ Convert(c).kind = c.kind
            /\ Convert(c).space = IF c.space = "pie" THEN "core" ELSE "pie"
            /\ MaterialOf(Convert(c)) = MaterialOf(c)
        BY <3>2, <3>4, ConvertTranslates
      <4>3. c.space \in Spaces /\ Entity = c
        BY <3>1, <3>2, ObjectAbstract DEF Entity
      <4>4. Abs!Translate
        BY <3>1, <3>3, <3>4, <4>1, <4>2, <4>3
        DEF Abs!Translate, Abs!Kinds, Abs!KeyKinds, Abs!Spaces, Spaces, Kinds, KeyKinds
      <4>. QED BY <4>4 DEF Abs!Next
    <3>5. CASE IsErr(Convert(c))
      <4>1. Entity' = c
        BY <3>3, <3>5 DEF Entity
      <4>2. Abs!MayFail(c.space, c.kind)
        BY <3>2, <3>5, ConvertErrorJustified, JustifiedMayFail DEF IsErr, Errors
      <4>3. c.space \in Spaces /\ Entity = c
        BY <3>1, <3>2, ObjectAbstract DEF Entity
      <4>4. Abs!Fail
        BY <3>1, <3>3, <3>5, <4>1, <4>2, <4>3 DEF Abs!Fail, Abs!Spaces, Spaces
      <4>. QED BY <4>4 DEF Abs!Next
    <3>. QED BY <3>4, <3>5
  <2>. QED BY <2>1, <2>2
<1>3. Spec => []IInv
  BY IInvInit, IInvStep, PTL DEF Spec
<1>. QED BY <1>1, <1>2, <1>3, PTL DEF Spec, Implements, Abs!Spec
=============================================================================
