------------------------- MODULE ConvertChainProofs --------------------------
(***************************************************************************)
(* Theorems about ConvertChain, for every value of the constants, from    *)
(* the lemmas of ObjectFactoryProofs.                                      *)
(***************************************************************************)
EXTENDS ConvertChain, ObjectFactoryProofs

(* Both actions append the conversion of the latest object. *)
LEMMA NextAppends ==
  Next => /\ Active
          /\ trace' = Append(trace, Convert(Current))
BY DEF Next, ConvertToCore, ConvertToPie

(* A step keeps the chain well typed: convert() never returns anything but *)
(* an object of the other universe or an error.                            *)
LEMMA TypeStep == TypeOK /\ [Next]_vars => TypeOK'
<1>. SUFFICES ASSUME TypeOK, [Next]_vars PROVE TypeOK'
  OBVIOUS
<1>1. CASE Next
  <2>1. /\ ~IsErr(Current)
        /\ Len(trace) <= MaxHops
        /\ trace' = Append(trace, Convert(Current))
    BY <1>1, NextAppends DEF Active
  <2>2. Current \in Objects
    BY <2>1 DEF TypeOK, Current, IsErr
  <2>3. Convert(Current) \in Objects \cup Errors
    BY <2>2, ConvertType
  <2>. QED BY <2>1, <2>3, MaxHopsAssumption DEF TypeOK, Current
<1>2. CASE UNCHANGED vars
  BY <1>2 DEF TypeOK, vars
<1>. QED BY <1>1, <1>2

-----------------------------------------------------------------------------
(* The chain is always a non-empty sequence of at most MaxHops + 1 objects *)
(* and errors in which only the last entry may be an error: convert()      *)
(* never returns anything but an object of the other universe or an error. *)
THEOREM TypeCorrect == Spec => []TypeOK
<1>1. Init => TypeOK
  <2>. SUFFICES ASSUME NEW o \in Objects, trace = <<o>>
                PROVE  TypeOK
    BY DEF Init
  <2>. QED BY MaxHopsAssumption DEF TypeOK
<1>. QED BY <1>1, TypeStep, PTL DEF Spec

-----------------------------------------------------------------------------
(* convert() twice, when neither call raises, gives back what the other    *)
(* universe carries of the object, for every class convert() supports.     *)
LEMMA ConvertRoundTrip ==
  ASSUME NEW o \in Objects, ~IsErr(Convert(o)), ~IsErr(Convert(Convert(o)))
  PROVE  Carried(Convert(Convert(o))) = Carried(o)
<1>1. CASE o \in PieKeys /\ PieKeyOK(o)
  <2>1. Convert(o) = BuildCoreKey(o, o.kind)
    BY <1>1, ToCoreKey DEF Convert, PieKeys
  <2>2. Convert(BuildCoreKey(o, o.kind)) = BuildPieKey(BuildCoreKey(o, o.kind), o.kind)
    BY <1>1, ToPieKey DEF Convert, BuildCoreKey, PieKeys
  <2>. QED BY <1>1, <2>1, <2>2, PieKeyRoundTrip
<1>2. CASE o \in PieSplitKeys
  <2>1. Convert(o) = BuildCoreSplitKey(o)
    BY <1>2 DEF Convert, ToCore, PieSplitKeys, KeyKinds
  <2>2. Convert(BuildCoreSplitKey(o)) = BuildPieSplitKey(BuildCoreSplitKey(o))
    BY DEF Convert, ToPie, BuildCoreSplitKey, KeyKinds
  <2>. QED BY <1>2, <2>1, <2>2, PieSplitKeyRoundTrip
<1>3. CASE o \in PieCertificates
  <2>1. Convert(o) = BuildCoreCertificate(o)
    BY <1>3 DEF Convert, ToCore, PieCertificates, KeyKinds
  <2>2. Convert(BuildCoreCertificate(o)) = BuildPieCertificate(BuildCoreCertificate(o))
    BY DEF Convert, ToPie, BuildCoreCertificate, KeyKinds
  <2>3. o.certificate_type = X509
    BY <2>1, <2>2 DEF BuildPieCertificate, BuildCoreCertificate, IsErr, Err, Errors, ErrorKinds
  <2>4. Convert(Convert(o)) = X509Certificate(o.value)
    BY <2>1, <2>2, <2>3 DEF BuildPieCertificate, BuildCoreCertificate
  <2>. QED BY <1>3, <2>3, <2>4 DEF Carried, X509Certificate, PieCertificates
<1>4. CASE o \in PieSecretData
  <2>1. Convert(o) = BuildCoreSecretData(o)
    BY <1>4 DEF Convert, ToCore, PieSecretData, KeyKinds
  <2>2. Convert(BuildCoreSecretData(o)) = BuildPieSecretData(BuildCoreSecretData(o))
    BY DEF Convert, ToPie, BuildCoreSecretData, KeyKinds
  <2>. QED BY <1>4, <2>1, <2>2 DEF BuildPieSecretData, BuildCoreSecretData, PieSecretData
<1>5. CASE o \in PieOpaqueObjects
  <2>1. Convert(o) = BuildCoreOpaqueObject(o)
    BY <1>5 DEF Convert, ToCore, PieOpaqueObjects, KeyKinds
  <2>2. Convert(BuildCoreOpaqueObject(o)) = BuildPieOpaqueObject(BuildCoreOpaqueObject(o))
    BY DEF Convert, ToPie, BuildCoreOpaqueObject, KeyKinds
  <2>. QED BY <1>5, <2>1, <2>2 DEF BuildPieOpaqueObject, BuildCoreOpaqueObject, PieOpaqueObjects
<1>6. CASE o \in CoreKeys
  <2>1. Convert(o) = BuildPieKey(o, o.kind)
    BY <1>6, ToPieKey DEF Convert, CoreKeys
  <2>2. BuildPieKey(o, o.kind) \in PieKeys /\ BuildPieKey(o, o.kind).kind = o.kind
    BY <1>6, <2>1, PieKeyType DEF IsErr, CoreKeys
  <2>3. Convert(BuildPieKey(o, o.kind)) = BuildCoreKey(BuildPieKey(o, o.kind), o.kind)
    BY <2>2, ToCoreKey DEF Convert, PieKeys
  <2>. QED BY <1>6, <2>1, <2>3, CoreKeyRoundTrip
<1>7. CASE o \in CoreSplitKeys
  <2>1. Convert(o) = BuildPieSplitKey(o)
    BY <1>7 DEF Convert, ToPie, CoreSplitKeys, KeyKinds
  <2>2. BuildPieSplitKey(o) \in PieSplitKeys
    BY <1>7, <2>1, PieSplitKeyType DEF IsErr
  <2>3. Convert(BuildPieSplitKey(o)) = BuildCoreSplitKey(BuildPieSplitKey(o))
    BY <2>2 DEF Convert, ToCore, PieSplitKeys, KeyKinds
  <2>. QED BY <1>7, <2>1, <2>3, CoreSplitKeyRoundTrip
<1>8. CASE o \in CoreCertificates
  <2>1. Convert(o) = BuildPieCertificate(o)
    BY <1>8 DEF Convert, ToPie, CoreCertificates, KeyKinds
  <2>2. o.certificate_type = X509
    BY <2>1 DEF BuildPieCertificate, IsErr, Err, Errors, ErrorKinds
  <2>3. Convert(o) = X509Certificate(o.certificate_value)
    BY <2>1, <2>2 DEF BuildPieCertificate
  <2>4. Convert(Convert(o)) = BuildCoreCertificate(X509Certificate(o.certificate_value))
    <3>1. /\ X509Certificate(o.certificate_value).space = "pie"
          /\ X509Certificate(o.certificate_value).kind = "Certificate"
      BY DEF X509Certificate
    <3>. QED BY <2>3, <3>1, Zenon DEF Convert, ToCore
  <2>. QED BY <1>8, <2>2, <2>4 DEF Carried, BuildCoreCertificate, X509Certificate,
                                  CoreCertificates
<1>9. CASE o \in CoreSecretData
  <2>1. Convert(o) = BuildPieSecretData(o)
    BY <1>9 DEF Convert, ToPie, CoreSecretData, KeyKinds
  <2>2. Convert(BuildPieSecretData(o)) = BuildCoreSecretData(BuildPieSecretData(o))
    BY DEF Convert, ToCore, BuildPieSecretData, KeyKinds
  <2>. QED BY <1>9, <2>1, <2>2 DEF Carried, BuildCoreSecretData, BuildPieSecretData, CoreSecretData
<1>10. CASE o \in CoreOpaqueObjects
  <2>1. Convert(o) = BuildPieOpaqueObject(o)
    BY <1>10 DEF Convert, ToPie, CoreOpaqueObjects, KeyKinds
  <2>2. Convert(BuildPieOpaqueObject(o)) = BuildCoreOpaqueObject(BuildPieOpaqueObject(o))
    BY DEF Convert, ToCore, BuildPieOpaqueObject, KeyKinds
  <2>. QED BY <1>10, <2>1, <2>2 DEF BuildPieOpaqueObject, BuildCoreOpaqueObject, CoreOpaqueObjects
<1>11. CASE o \in Unsupported
  <2>1. Convert(o) = Err("UnsupportedVariant")
    BY <1>11 DEF Convert, ToCore, ToPie, Unsupported, KeyKinds
  <2>. QED BY <2>1 DEF IsErr, Err, Errors, ErrorKinds
<1>. QED BY <1>1, <1>2, <1>3, <1>4, <1>5, <1>6, <1>7, <1>8, <1>9, <1>10, <1>11
         DEF Objects, PieObjects, CoreObjects

-----------------------------------------------------------------------------
(* Each entry of the chain is the conversion of the one before it. *)
Linked == \A i \in 1..(Len(trace) - 1) : trace[i + 1] = Convert(trace[i])

(* RoundTrip is not inductive by itself (it says nothing of the last hop,  *)
(* which the next step turns into the middle of a round trip); the chain's *)
(* being linked by convert() is what makes it so.                          *)
IInv == TypeOK /\ Linked

(* The initial chain, one object, is well typed and linked. *)
LEMMA IInvInit == Init => IInv
<1>. SUFFICES ASSUME NEW o \in Objects, trace = <<o>>
              PROVE  IInv
  BY DEF Init
<1>. QED BY MaxHopsAssumption DEF IInv, TypeOK, Linked

(* A step keeps the chain well typed and linked by convert(). *)
LEMMA IInvStep == IInv /\ [Next]_vars => IInv'
<1>. SUFFICES ASSUME IInv, [Next]_vars PROVE IInv'
  OBVIOUS
<1>1. TypeOK'
  BY TypeStep DEF IInv
<1>2. ASSUME Next PROVE Linked'
  <2>1. trace' = Append(trace, Convert(Current))
    BY <1>2, NextAppends
  <2>2. trace \in Seq(Objects \cup Errors) /\ Len(trace) >= 1
    BY DEF IInv, TypeOK
  <2>. SUFFICES ASSUME NEW i \in 1..(Len(trace') - 1)
                PROVE  trace'[i + 1] = Convert(trace'[i])
    BY DEF Linked
  <2>3. CASE i < Len(trace)
    BY <2>1, <2>2, <2>3 DEF IInv, Linked
  <2>4. CASE i = Len(trace)
    BY <2>1, <2>2, <2>4 DEF Current
  <2>. QED BY <2>1, <2>2, <2>3, <2>4
<1>3. ASSUME UNCHANGED vars PROVE Linked'
  BY <1>3 DEF IInv, Linked, vars
<1>. QED BY <1>1, <1>2, <1>3 DEF IInv

(* Round trip (spec section 8), for every instance: whenever convert() is  *)
(* applied twice to an object and neither call raises, the result carries  *)
(* everything of the object that the other universe carries, because the  *)
(* _build_core_* and _build_pie_* builders undo each other.                *)
THEOREM RoundTripHolds == Spec => []RoundTrip
<1>1. IInv => RoundTrip
  <2>. SUFFICES ASSUME IInv, NEW i \in 1..(Len(trace) - 2), ~IsErr(trace[i + 2])
                PROVE  Carried(trace[i + 2]) = Carried(trace[i])
    BY DEF RoundTrip
  <2>1. /\ trace[i] \in Objects
        /\ ~IsErr(trace[i + 1])
    BY DEF IInv, TypeOK, IsErr
  <2>2. trace[i + 1] = Convert(trace[i]) /\ trace[i + 2] = Convert(trace[i + 1])
    BY DEF IInv, TypeOK, Linked
  <2>. QED BY <2>1, <2>2, ConvertRoundTrip
<1>. QED BY <1>1, IInvInit, IInvStep, PTL DEF Spec

-----------------------------------------------------------------------------
(* convert() raises only for the reason Justified names: the Pie -> core  *)
(* builders never raise, and each core -> Pie raise has its cause in the   *)
(* object.                                                                 *)
LEMMA ConvertErrorJustified ==
  ASSUME NEW o \in Objects, IsErr(Convert(o))
  PROVE  Justified(o, Convert(o).error)
<1>1. CASE o \in PieObjects
  <2>1. Convert(o) = ToCore(o)
    BY <1>1 DEF Convert, PieObjects, PieKeys, PieSplitKeys, PieCertificates, PieSecretData,
                PieOpaqueObjects
  <2>2. "space" \in DOMAIN ToCore(o)
    <3>1. CASE o \in PieKeys
      BY <3>1, ToCoreKey DEF BuildCoreKey, PieKeys
    <3>2. CASE o \in PieSplitKeys
      BY <3>2 DEF ToCore, BuildCoreSplitKey, PieSplitKeys, KeyKinds
    <3>3. CASE o \in PieCertificates
      BY <3>3 DEF ToCore, BuildCoreCertificate, PieCertificates, KeyKinds
    <3>4. CASE o \in PieSecretData
      BY <3>4 DEF ToCore, BuildCoreSecretData, PieSecretData, KeyKinds
    <3>5. CASE o \in PieOpaqueObjects
      BY <3>5 DEF ToCore, BuildCoreOpaqueObject, PieOpaqueObjects, KeyKinds
    <3>. QED BY <1>1, <3>1, <3>2, <3>3, <3>4, <3>5 DEF PieObjects
  <2>. QED BY <2>1, <2>2, ErrorsDomain DEF IsErr
<1>2. CASE o \in Unsupported
  <2>1. Convert(o) = Err("UnsupportedVariant")
    BY <1>2 DEF Convert, ToCore, ToPie, Unsupported, KeyKinds
  <2>. QED BY <1>2, <2>1 DEF Justified, Err, Unsupported, Kinds, KeyKinds
<1>3. CASE o \in CoreKeys
  <2>. DEFINE b == o.key_block
              wrap == BuildKeyWrappingData(b.key_wrapping_data)
  <2>1. Convert(o) = BuildPieKey(o, o.kind)
    BY <1>3, ToPieKey DEF Convert, CoreKeys
  <2>2. CASE LacksAlgorithmOrLength(b)
    <3>1. Convert(o) = Err("AttributeError")
      BY <2>1, <2>2 DEF BuildPieKey
    <3>. QED BY <1>3, <2>2, <3>1 DEF Justified, Err, CoreKeys, KeyKinds
  <2>3. CASE ~LacksAlgorithmOrLength(b) /\ IsErr(wrap)
    <3>1. /\ b.key_wrapping_data # NONE
          /\ \E f \in {"encryption_key_information", "mac_signature_key_information"} :
               b.key_wrapping_data[f] # NONE
               /\ b.key_wrapping_data[f].cryptographic_parameters = NONE
          /\ wrap = Err("AttributeError")
      BY <1>3, <2>3, WrapError DEF CoreKeys, KeyBlocks, KeyBlocksWith
    <3>2. Convert(o) = Err("AttributeError")
      BY <2>1, <2>3, <3>1 DEF BuildPieKey
    <3>. QED BY <1>3, <3>1, <3>2 DEF Justified, LacksParameters, Err, CoreKeys, KeyKinds
  <2>4. CASE ~LacksAlgorithmOrLength(b) /\ ~IsErr(wrap)
             /\ o.kind = "SymmetricKey" /\ SymFormat # b.key_format_type
    <3>1. Convert(o) = Err("FormatMismatch")
      BY <2>1, <2>4 DEF BuildPieKey
    <3>. QED BY <1>3, <2>4, <3>1 DEF Justified, Err, CoreKeys
  <2>5. CASE ~LacksAlgorithmOrLength(b) /\ ~IsErr(wrap)
             /\ ~(o.kind = "SymmetricKey" /\ SymFormat # b.key_format_type)
    <3>1. "space" \in DOMAIN Convert(o)
      BY <2>1, <2>5 DEF BuildPieKey
    <3>. QED BY <3>1, ErrorsDomain DEF IsErr
  <2>. QED BY <2>2, <2>3, <2>4, <2>5
<1>4. CASE o \in CoreSplitKeys
  <2>. DEFINE b == o.key_block
              wrap == BuildKeyWrappingData(b.key_wrapping_data)
  <2>1. Convert(o) = BuildPieSplitKey(o)
    BY <1>4 DEF Convert, ToPie, CoreSplitKeys, KeyKinds
  <2>2. CASE LacksAlgorithmOrLength(b)
    <3>1. Convert(o) = Err("AttributeError")
      BY <2>1, <2>2 DEF BuildPieSplitKey
    <3>. QED BY <1>4, <2>2, <3>1 DEF Justified, Err, CoreSplitKeys
  <2>3. CASE ~LacksAlgorithmOrLength(b) /\ IsErr(wrap)
    <3>1. /\ b.key_wrapping_data # NONE
          /\ \E f \in {"encryption_key_information", "mac_signature_key_information"} :
               b.key_wrapping_data[f] # NONE
               /\ b.key_wrapping_data[f].cryptographic_parameters = NONE
          /\ wrap = Err("AttributeError")
      BY <1>4, <2>3, WrapError DEF CoreSplitKeys, KeyBlocks, KeyBlocksWith
    <3>2. Convert(o) = Err("AttributeError")
      BY <2>1, <2>3, <3>1 DEF BuildPieSplitKey
    <3>. QED BY <1>4, <3>1, <3>2 DEF Justified, LacksParameters, Err, CoreSplitKeys
  <2>4. CASE ~LacksAlgorithmOrLength(b) /\ ~IsErr(wrap)
    <3>1. "space" \in DOMAIN Convert(o)
      BY <2>1, <2>4 DEF BuildPieSplitKey
    <3>. QED BY <3>1, ErrorsDomain DEF IsErr
  <2>. QED BY <2>2, <2>3, <2>4
<1>5. CASE o \in CoreCertificates
  <2>1. Convert(o) = BuildPieCertificate(o)
    BY <1>5 DEF Convert, ToPie, CoreCertificates, KeyKinds
  <2>2. o.certificate_type # X509
    <3>1. "space" \in DOMAIN X509Certificate(o.certificate_value)
      BY DEF X509Certificate
    <3>. QED BY <2>1, <3>1, ErrorsDomain DEF BuildPieCertificate, IsErr
  <2>. QED BY <1>5, <2>1, <2>2 DEF BuildPieCertificate, Justified, Err, CoreCertificates
<1>6. CASE o \in CoreSecretData \cup CoreOpaqueObjects
  <2>1. "space" \in DOMAIN Convert(o)
    BY <1>6 DEF Convert, ToPie, BuildPieSecretData, BuildPieOpaqueObject, CoreSecretData,
                CoreOpaqueObjects, KeyKinds
  <2>. QED BY <2>1, ErrorsDomain DEF IsErr
<1>. QED BY <1>1, <1>2, <1>3, <1>4, <1>5, <1>6 DEF Objects, CoreObjects

(* A conversion fails only for its reason, for every instance: an         *)
(* unsupported class, a core certificate that is not X.509, a core         *)
(* SymmetricKey whose format is not the Pie one, a core key or split key   *)
(* whose block lacks its algorithm or length (the AttributeError of        *)
(* _build_pie_key line 88), or a key-information block without parameters *)
(* (the AttributeError of _build_key_wrapping_data); never a Pie -> core   *)
(* conversion.                                                             *)
THEOREM ErrorsJustifiedHolds == Spec => []ErrorsJustified
<1>1. IInv => ErrorsJustified
  <2>. SUFFICES ASSUME IInv, NEW i \in 1..(Len(trace) - 1), IsErr(trace[i + 1])
                PROVE  Justified(trace[i], trace[i + 1].error)
    BY DEF ErrorsJustified
  <2>1. trace[i] \in Objects
    BY DEF IInv, TypeOK, IsErr
  <2>2. trace[i + 1] = Convert(trace[i])
    BY DEF IInv, TypeOK, Linked
  <2>. QED BY <2>1, <2>2, ConvertErrorJustified
<1>. QED BY <1>1, IInvInit, IInvStep, PTL DEF Spec
=============================================================================
