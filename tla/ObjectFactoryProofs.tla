------------------------- MODULE ObjectFactoryProofs -------------------------
(***************************************************************************)
(* Lemmas about the builders of ObjectFactory, for every value of the      *)
(* constants: what each returns, and that the builders of the two          *)
(* directions undo each other.                                             *)
(***************************************************************************)
EXTENDS ObjectFactory, TLAPS

(* _build_cryptographic_parameters returns a parameter set or raises. *)
LEMMA ParamsType ==
  ASSUME NEW p \in Params \cup {NONE}
  PROVE  BuildCryptographicParameters(p) \in Params \cup Errors
<1>1. CASE p = NONE
  BY <1>1 DEF BuildCryptographicParameters, Err, Errors, ErrorKinds
<1>2. CASE p \in Params
  <2>1. p \in [ParamFields -> ParamValues \cup {NONE}]
    BY <1>2, ConstantsAssumption
  <2>2. [f \in ParamFields |-> p[f]] = p
    BY <2>1
  <2>3. p # NONE
    BY <1>2, NoneAssumption
  <2>. QED BY <1>2, <2>2, <2>3 DEF BuildCryptographicParameters
<1>. QED BY <1>1, <1>2

(* A key-information block is built as a dict, the empty dict, or raises. *)
LEMMA KeyInformationType ==
  ASSUME NEW i \in KeyInfos \cup {NONE}
  PROVE  BuildKeyInformation(i) \in KeyInfos \cup {EmptyMap} \cup Errors
<1>1. CASE i = NONE
  BY <1>1 DEF BuildKeyInformation
<1>2. CASE i \in KeyInfos
  <2>1. i # NONE
    BY <1>2, NoneAssumption
  <2>2. BuildCryptographicParameters(i.cryptographic_parameters) \in Params \cup Errors
    BY <1>2, ParamsType DEF KeyInfos
  <2>. QED BY <1>2, <2>1, <2>2 DEF BuildKeyInformation, IsErr, KeyInfos
<1>. QED BY <1>1, <1>2

(* _build_key_wrapping_data maps core wrapping data to a Pie dict. *)
LEMMA KeyWrappingDataType ==
  ASSUME NEW w \in CoreWraps \cup {NONE}
  PROVE  BuildKeyWrappingData(w) \in PieWraps \cup {NONE} \cup Errors
<1>1. CASE w = NONE
  BY <1>1 DEF BuildKeyWrappingData
<1>2. CASE w \in CoreWraps
  <2>1. w # NONE
    BY <1>2, NoneAssumption
  <2>2. /\ BuildKeyInformation(w.encryption_key_information) \in KeyInfos \cup {EmptyMap} \cup Errors
        /\ BuildKeyInformation(w.mac_signature_key_information) \in KeyInfos \cup {EmptyMap} \cup Errors
    BY <1>2, KeyInformationType DEF CoreWraps, WrapsWith
  <2>. QED BY <1>2, <2>1, <2>2 DEF BuildKeyWrappingData, IsErr, CoreWraps, PieWraps, WrapsWith
<1>. QED BY <1>1, <1>2

(* KeyWrappingData built from a Pie dict is core wrapping data. *)
LEMMA CoreWrappingType ==
  ASSUME NEW w \in PieWraps
  PROVE  KeyWrappingData(w) \in CoreWraps
<1>1. \A i \in KeyInfos \cup {EmptyMap} : CoreKeyInfo(i) \in KeyInfos \cup {NONE}
  BY DEF CoreKeyInfo, KeyInfos
<1>. QED BY <1>1 DEF KeyWrappingData, PieWraps, CoreWraps, WrapsWith

(* The CoreWrappingOf of a Pie key or split key is core wrapping data or None. *)
LEMMA CoreWrappingOfType ==
  ASSUME NEW k, k.key_wrapping_data \in PieWraps \cup {NONE}
  PROVE  CoreWrappingOf(k) \in CoreWraps \cup {NONE}
BY CoreWrappingType DEF CoreWrappingOf

(* The three key arms of convert() pass the class of the object they test. *)
LEMMA ToCoreKey ==
  ASSUME NEW o, o.kind \in KeyKinds
  PROVE  ToCore(o) = BuildCoreKey(o, o.kind)
<1>1. CASE o.kind = "SymmetricKey"
  BY <1>1 DEF ToCore
<1>2. CASE o.kind = "PublicKey"
  BY <1>2 DEF ToCore
<1>3. CASE o.kind = "PrivateKey"
  BY <1>3 DEF ToCore
<1>. QED BY <1>1, <1>2, <1>3 DEF KeyKinds

LEMMA ToPieKey ==
  ASSUME NEW o, o.kind \in KeyKinds
  PROVE  ToPie(o) = BuildPieKey(o, o.kind)
<1>1. CASE o.kind = "SymmetricKey"
  BY <1>1 DEF ToPie
<1>2. CASE o.kind = "PublicKey"
  BY <1>2 DEF ToPie
<1>3. CASE o.kind = "PrivateKey"
  BY <1>3 DEF ToPie
<1>. QED BY <1>1, <1>2, <1>3 DEF KeyKinds

(* convert() on a Pie object gives a core object or raises. *)
LEMMA ToCoreType ==
  ASSUME NEW o \in PieObjects \cup [space : {"pie"}, kind : {"Unsupported"}]
  PROVE  ToCore(o) \in CoreObjects \cup Errors
<1>1. CASE o \in PieKeys
  <2>1. ToCore(o) = BuildCoreKey(o, o.kind)
    BY <1>1, ToCoreKey DEF PieKeys
  <2>2. CoreWrappingOf(o) \in CoreWraps \cup {NONE}
    BY <1>1, CoreWrappingOfType DEF PieKeys
  <2>3. BuildCoreKey(o, o.kind) \in CoreKeys
    BY <1>1, <2>2 DEF BuildCoreKey, PieKeys, CoreKeys, KeyBlocks, KeyBlocksWith
  <2>. QED BY <2>1, <2>3 DEF CoreObjects
<1>2. CASE o \in PieSplitKeys
  <2>1. ToCore(o) = BuildCoreSplitKey(o)
    BY <1>2 DEF ToCore, PieSplitKeys, KeyKinds
  <2>2. CoreWrappingOf(o) \in CoreWraps \cup {NONE}
    BY <1>2, CoreWrappingOfType DEF PieSplitKeys
  <2>3. BuildCoreSplitKey(o) \in CoreSplitKeys
    BY <1>2, <2>2 DEF BuildCoreSplitKey, PieSplitKeys, CoreSplitKeys, KeyBlocks, KeyBlocksWith
  <2>. QED BY <2>1, <2>3 DEF CoreObjects
<1>3. CASE o \in PieCertificates
  <2>1. ToCore(o) = BuildCoreCertificate(o)
    BY <1>3 DEF ToCore, PieCertificates, KeyKinds
  <2>. QED BY <1>3, <2>1 DEF BuildCoreCertificate, PieCertificates, CoreCertificates, CoreObjects
<1>4. CASE o \in PieSecretData
  <2>1. ToCore(o) = BuildCoreSecretData(o)
    BY <1>4 DEF ToCore, PieSecretData, KeyKinds
  <2>2. BuildCoreSecretData(o) \in CoreSecretData
    BY <1>4, ConstantsAssumption DEF BuildCoreSecretData, PieSecretData, CoreSecretData, KeyBlocksWith
  <2>. QED BY <2>1, <2>2 DEF CoreObjects
<1>5. CASE o \in PieOpaqueObjects
  <2>1. ToCore(o) = BuildCoreOpaqueObject(o)
    BY <1>5 DEF ToCore, PieOpaqueObjects, KeyKinds
  <2>. QED BY <1>5, <2>1 DEF BuildCoreOpaqueObject, PieOpaqueObjects, CoreOpaqueObjects, CoreObjects
<1>6. CASE o \in [space : {"pie"}, kind : {"Unsupported"}]
  BY <1>6 DEF ToCore, KeyKinds, Err, Errors, ErrorKinds
<1>. QED BY <1>1, <1>2, <1>3, <1>4, <1>5, <1>6 DEF PieObjects

(* _build_pie_key gives a Pie key of class cls, with the Pie SymmetricKey *)
(* format, or raises.                                                      *)
LEMMA PieKeyType ==
  ASSUME NEW o \in CoreKeys, NEW cls \in KeyKinds
  PROVE  BuildPieKey(o, cls) \in {k \in PieKeys : PieKeyOK(k) /\ k.kind = cls} \cup Errors
<1>. DEFINE b == o.key_block
            wrap == BuildKeyWrappingData(b.key_wrapping_data)
<1>1. wrap \in PieWraps \cup {NONE} \cup Errors
  BY KeyWrappingDataType DEF CoreKeys, KeyBlocks, KeyBlocksWith
<1>2. CASE LacksAlgorithmOrLength(b)
  BY <1>2 DEF BuildPieKey, Err, Errors, ErrorKinds
<1>3. CASE ~LacksAlgorithmOrLength(b) /\ wrap \in Errors
  BY <1>3 DEF BuildPieKey, IsErr
<1>4. CASE ~LacksAlgorithmOrLength(b) /\ wrap \notin Errors
           /\ cls = "SymmetricKey" /\ b.key_format_type # SymFormat
  BY <1>4 DEF BuildPieKey, IsErr, Err, Errors, ErrorKinds
<1>5. CASE ~LacksAlgorithmOrLength(b) /\ wrap \notin Errors
           /\ ~(cls = "SymmetricKey" /\ b.key_format_type # SymFormat)
  <2>1. BuildPieKey(o, cls) =
          [space |-> "pie", kind |-> cls,
           cryptographic_algorithm |-> b.cryptographic_algorithm,
           cryptographic_length |-> b.cryptographic_length,
           value |-> b.key_material,
           key_format_type |-> IF cls = "SymmetricKey" THEN SymFormat ELSE b.key_format_type,
           key_wrapping_data |-> wrap]
    BY <1>5 DEF BuildPieKey, IsErr
  <2>2. b.cryptographic_algorithm \in Algorithms /\ b.cryptographic_length \in Lengths
    BY <1>5 DEF LacksAlgorithmOrLength, CoreKeys, KeyBlocks, KeyBlocksWith
  <2>. QED BY <1>1, <1>5, <2>1, <2>2, ConstantsAssumption
           DEF PieKeys, PieKeyOK, CoreKeys, KeyBlocks, KeyBlocksWith
<1>. QED BY <1>2, <1>3, <1>4, <1>5

(* _build_pie_split_key gives a Pie split key or raises. *)
LEMMA PieSplitKeyType ==
  ASSUME NEW o \in CoreSplitKeys
  PROVE  BuildPieSplitKey(o) \in PieSplitKeys \cup Errors
<1>1. BuildKeyWrappingData(o.key_block.key_wrapping_data) \in PieWraps \cup {NONE} \cup Errors
  BY KeyWrappingDataType DEF CoreSplitKeys, KeyBlocks, KeyBlocksWith
<1>2. CASE LacksAlgorithmOrLength(o.key_block)
  BY <1>2 DEF BuildPieSplitKey, Err, Errors, ErrorKinds
<1>3. CASE ~LacksAlgorithmOrLength(o.key_block)
  BY <1>1, <1>3 DEF BuildPieSplitKey, LacksAlgorithmOrLength, IsErr, PieSplitKeys,
                    CoreSplitKeys, KeyBlocks, KeyBlocksWith
<1>. QED BY <1>2, <1>3

(* convert() on a core object gives a Pie object or raises. *)
LEMMA ToPieType ==
  ASSUME NEW o \in CoreObjects \cup [space : {"core"}, kind : {"Unsupported"}]
  PROVE  ToPie(o) \in PieObjects \cup Errors
<1>1. CASE o \in CoreKeys
  <2>1. ToPie(o) = BuildPieKey(o, o.kind)
    BY <1>1, ToPieKey DEF CoreKeys
  <2>. QED BY <1>1, <2>1, PieKeyType DEF PieObjects, CoreKeys
<1>2. CASE o \in CoreSplitKeys
  <2>1. ToPie(o) = BuildPieSplitKey(o)
    BY <1>2 DEF ToPie, CoreSplitKeys, KeyKinds
  <2>. QED BY <1>2, <2>1, PieSplitKeyType DEF PieObjects
<1>3. CASE o \in CoreCertificates
  <2>1. ToPie(o) = BuildPieCertificate(o)
    BY <1>3 DEF ToPie, CoreCertificates, KeyKinds
  <2>. QED BY <1>3, <2>1, ConstantsAssumption
           DEF BuildPieCertificate, X509Certificate, DefaultNames, CoreCertificates,
               PieCertificates, PieObjects, Err, Errors, ErrorKinds
<1>4. CASE o \in CoreSecretData
  <2>1. ToPie(o) = BuildPieSecretData(o)
    BY <1>4 DEF ToPie, CoreSecretData, KeyKinds
  <2>. QED BY <1>4, <2>1 DEF BuildPieSecretData, CoreSecretData, KeyBlocksWith, PieSecretData, PieObjects
<1>5. CASE o \in CoreOpaqueObjects
  <2>1. ToPie(o) = BuildPieOpaqueObject(o)
    BY <1>5 DEF ToPie, CoreOpaqueObjects, KeyKinds
  <2>. QED BY <1>5, <2>1 DEF BuildPieOpaqueObject, CoreOpaqueObjects, PieOpaqueObjects, PieObjects
<1>6. CASE o \in [space : {"core"}, kind : {"Unsupported"}]
  BY <1>6 DEF ToPie, KeyKinds, Err, Errors, ErrorKinds
<1>. QED BY <1>1, <1>2, <1>3, <1>4, <1>5, <1>6 DEF CoreObjects

(* convert() maps every object to an object or raises. *)
LEMMA ConvertType ==
  ASSUME NEW o \in Objects
  PROVE  Convert(o) \in Objects \cup Errors
<1>1. CASE o \in PieObjects \cup [space : {"pie"}, kind : {"Unsupported"}]
  <2>1. o.space = "pie"
    BY <1>1 DEF PieObjects, PieKeys, PieSplitKeys, PieCertificates, PieSecretData,
                PieOpaqueObjects
  <2>. QED BY <1>1, <2>1, ToCoreType DEF Convert, Objects
<1>2. CASE o \in CoreObjects \cup [space : {"core"}, kind : {"Unsupported"}]
  <2>1. o.space = "core"
    BY <1>2 DEF CoreObjects, CoreKeys, CoreSplitKeys, CoreCertificates, CoreSecretData,
                CoreOpaqueObjects
  <2>. QED BY <1>2, <2>1, ToPieType DEF Convert, Objects
<1>. QED BY <1>1, <1>2 DEF Objects, Unsupported, Spaces
-----------------------------------------------------------------------------
(***************************************************************************)
(* The two directions undo each other: nested structures.                  *)
(***************************************************************************)

(* _build_cryptographic_parameters copies every field of a parameter set. *)
LEMMA ParamsCopy ==
  ASSUME NEW p \in Params
  PROVE  BuildCryptographicParameters(p) = p
<1>1. p \in [ParamFields -> ParamValues \cup {NONE}]
  BY ConstantsAssumption
<1>2. p # NONE
  BY NoneAssumption
<1>. QED BY <1>1, <1>2 DEF BuildCryptographicParameters

(* A present key-information block is never the empty dict. *)
LEMMA InfoNotEmptyMap ==
  ASSUME NEW i \in KeyInfos
  PROVE  i # EmptyMap
<1>1. DOMAIN i = {"unique_identifier", "cryptographic_parameters"}
  BY DEF KeyInfos
<1>2. DOMAIN EmptyMap = {}
  BY DEF EmptyMap
<1>. QED BY <1>1, <1>2

(* A present block whose parameters are absent makes BuildKeyInformation  *)
(* raise; otherwise it is rebuilt as it was.                               *)
LEMMA InfoCopy ==
  ASSUME NEW i \in KeyInfos, ~IsErr(BuildKeyInformation(i))
  PROVE  BuildKeyInformation(i) = i
<1>1. i # NONE
  BY NoneAssumption
<1>2. CASE i.cryptographic_parameters = NONE
  <2>1. BuildKeyInformation(i) = Err("AttributeError")
    BY <1>1, <1>2 DEF BuildKeyInformation, BuildCryptographicParameters, IsErr, Err, Errors,
                      ErrorKinds
  <2>. QED BY <2>1 DEF IsErr, Err, Errors, ErrorKinds
<1>3. CASE i.cryptographic_parameters \in Params
  <2>1. BuildCryptographicParameters(i.cryptographic_parameters) = i.cryptographic_parameters
    BY <1>3, ParamsCopy
  <2>. QED BY <1>1, <2>1 DEF BuildKeyInformation, IsErr, KeyInfos
<1>. QED BY <1>2, <1>3 DEF KeyInfos

(* Pie -> core -> Pie of one key-information block. *)
LEMMA PieInfoRoundTrip ==
  ASSUME NEW i \in KeyInfos \cup {EmptyMap},
         ~IsErr(BuildKeyInformation(CoreKeyInfo(i)))
  PROVE  BuildKeyInformation(CoreKeyInfo(i)) = i
<1>1. CASE i = EmptyMap
  BY <1>1 DEF CoreKeyInfo, BuildKeyInformation
<1>2. CASE i \in KeyInfos
  <2>1. i # EmptyMap
    BY <1>2, InfoNotEmptyMap
  <2>2. CoreKeyInfo(i) = i
    BY <1>2, <2>1 DEF CoreKeyInfo, KeyInfos
  <2>. QED BY <1>2, <2>2, InfoCopy
<1>. QED BY <1>1, <1>2

(* core -> Pie -> core of one key-information block. *)
LEMMA CoreInfoRoundTrip ==
  ASSUME NEW i \in KeyInfos \cup {NONE},
         ~IsErr(BuildKeyInformation(i))
  PROVE  CoreKeyInfo(BuildKeyInformation(i)) = i
<1>1. CASE i = NONE
  BY <1>1 DEF CoreKeyInfo, BuildKeyInformation
<1>2. CASE i \in KeyInfos
  <2>1. BuildKeyInformation(i) = i
    BY <1>2, InfoCopy
  <2>2. i # EmptyMap
    BY <1>2, InfoNotEmptyMap
  <2>. QED BY <1>2, <2>1, <2>2 DEF CoreKeyInfo, KeyInfos
<1>. QED BY <1>1, <1>2

(* Pie -> core -> Pie of wrapping data, when the second call does not raise: *)
(* absent blocks come back as the empty dict, present ones unchanged.      *)
LEMMA PieWrapRoundTrip ==
  ASSUME NEW w \in PieWraps,
         ~IsErr(BuildKeyWrappingData(KeyWrappingData(w)))
  PROVE  BuildKeyWrappingData(KeyWrappingData(w)) = w
<1>. DEFINE c == KeyWrappingData(w)
<1>1. c # NONE
  BY CoreWrappingType, NoneAssumption
<1>2. /\ ~IsErr(BuildKeyInformation(c.encryption_key_information))
      /\ ~IsErr(BuildKeyInformation(c.mac_signature_key_information))
  BY <1>1 DEF BuildKeyWrappingData
<1>3. /\ c.encryption_key_information = CoreKeyInfo(w.encryption_key_information)
      /\ c.mac_signature_key_information = CoreKeyInfo(w.mac_signature_key_information)
  BY DEF KeyWrappingData
<1>4. /\ BuildKeyInformation(c.encryption_key_information) = w.encryption_key_information
      /\ BuildKeyInformation(c.mac_signature_key_information) = w.mac_signature_key_information
  BY <1>2, <1>3, PieInfoRoundTrip DEF PieWraps, WrapsWith
<1>. QED BY <1>1, <1>2, <1>4 DEF BuildKeyWrappingData, KeyWrappingData, PieWraps, WrapsWith

(* core -> Pie -> core of wrapping data, when the first call does not      *)
(* raise: the Pie dict is not None, and KeyWrappingData rebuilds the core  *)
(* structure with its absent blocks.                                       *)
LEMMA CoreWrapRoundTrip ==
  ASSUME NEW w \in CoreWraps,
         ~IsErr(BuildKeyWrappingData(w))
  PROVE  /\ BuildKeyWrappingData(w) # NONE
         /\ KeyWrappingData(BuildKeyWrappingData(w)) = w
<1>. DEFINE eki == BuildKeyInformation(w.encryption_key_information)
            mki == BuildKeyInformation(w.mac_signature_key_information)
            d   == BuildKeyWrappingData(w)
<1>1. w # NONE
  BY NoneAssumption
<1>2. ~IsErr(eki) /\ ~IsErr(mki)
  BY <1>1 DEF BuildKeyWrappingData
<1>3. d = [wrapping_method |-> w.wrapping_method,
           encryption_key_information |-> eki,
           mac_signature_key_information |-> mki,
           mac_signature |-> w.mac_signature,
           iv_counter_nonce |-> w.iv_counter_nonce,
           encoding_option |-> w.encoding_option]
  BY <1>1, <1>2 DEF BuildKeyWrappingData
<1>4. d \in PieWraps
  <2>1. eki \in KeyInfos \cup {EmptyMap} /\ mki \in KeyInfos \cup {EmptyMap}
    BY <1>2, KeyInformationType DEF CoreWraps, WrapsWith, IsErr
  <2>. QED BY <1>3, <2>1 DEF CoreWraps, PieWraps, WrapsWith
<1>5. CoreKeyInfo(eki) = w.encryption_key_information
      /\ CoreKeyInfo(mki) = w.mac_signature_key_information
  BY <1>2, CoreInfoRoundTrip DEF CoreWraps, WrapsWith
<1>. QED BY <1>3, <1>4, <1>5, NoneAssumption DEF KeyWrappingData, CoreWraps, WrapsWith

(* The wrapping data of a Pie key, None or a dict, survives Pie -> core -> Pie. *)
LEMMA PieKeyWrapRoundTrip ==
  ASSUME NEW k, k.key_wrapping_data \in PieWraps \cup {NONE},
         ~IsErr(BuildKeyWrappingData(CoreWrappingOf(k)))
  PROVE  BuildKeyWrappingData(CoreWrappingOf(k)) = k.key_wrapping_data
<1>1. CASE k.key_wrapping_data = NONE
  BY <1>1 DEF CoreWrappingOf, BuildKeyWrappingData
<1>2. CASE k.key_wrapping_data \in PieWraps
  <2>1. CoreWrappingOf(k) = KeyWrappingData(k.key_wrapping_data)
    BY <1>2, NoneAssumption DEF CoreWrappingOf
  <2>. QED BY <1>2, <2>1, PieWrapRoundTrip
<1>. QED BY <1>1, <1>2

(* The wrapping data of a core key block survives core -> Pie -> core. *)
LEMMA CoreKeyWrapRoundTrip ==
  ASSUME NEW w \in CoreWraps \cup {NONE}, NEW k,
         k.key_wrapping_data = BuildKeyWrappingData(w),
         ~IsErr(BuildKeyWrappingData(w))
  PROVE  CoreWrappingOf(k) = w
<1>1. CASE w = NONE
  BY <1>1 DEF CoreWrappingOf, BuildKeyWrappingData
<1>2. CASE w \in CoreWraps
  BY <1>2, CoreWrapRoundTrip DEF CoreWrappingOf
<1>. QED BY <1>1, <1>2

(***************************************************************************)
(* The two directions undo each other: keys and split keys.                *)
(***************************************************************************)

(* A Pie key converted to core and back, when that does not raise, is the *)
(* same key.                                                               *)
LEMMA PieKeyRoundTrip ==
  ASSUME NEW o \in PieKeys, PieKeyOK(o),
         ~IsErr(BuildPieKey(BuildCoreKey(o, o.kind), o.kind))
  PROVE  BuildPieKey(BuildCoreKey(o, o.kind), o.kind) = o
<1>. DEFINE b == BuildCoreKey(o, o.kind).key_block
            wrap == BuildKeyWrappingData(b.key_wrapping_data)
<1>1. b.key_wrapping_data = CoreWrappingOf(o)
  BY DEF BuildCoreKey
<1>2. ~LacksAlgorithmOrLength(b)
  BY ConstantsAssumption DEF LacksAlgorithmOrLength, BuildCoreKey, PieKeys
<1>3. ~IsErr(wrap)
  BY <1>2 DEF BuildPieKey
<1>4. wrap = o.key_wrapping_data
  BY <1>1, <1>3, PieKeyWrapRoundTrip DEF PieKeys
<1>5. ~(o.kind = "SymmetricKey" /\ SymFormat # b.key_format_type)
  BY DEF PieKeyOK, BuildCoreKey
<1>6. BuildPieKey(BuildCoreKey(o, o.kind), o.kind) =
        [space |-> "pie", kind |-> o.kind,
         cryptographic_algorithm |-> o.cryptographic_algorithm,
         cryptographic_length |-> o.cryptographic_length,
         value |-> o.value, key_format_type |-> o.key_format_type,
         key_wrapping_data |-> o.key_wrapping_data]
  BY <1>2, <1>3, <1>4, <1>5 DEF BuildPieKey, BuildCoreKey, PieKeyOK
<1>. QED BY <1>6 DEF PieKeys

(* A core key converted to Pie and back, when that does not raise, is the  *)
(* same key.                                                               *)
LEMMA CoreKeyRoundTrip ==
  ASSUME NEW o \in CoreKeys, ~IsErr(BuildPieKey(o, o.kind))
  PROVE  BuildCoreKey(BuildPieKey(o, o.kind), o.kind) = o
<1>. DEFINE b == o.key_block
            wrap == BuildKeyWrappingData(b.key_wrapping_data)
            p == BuildPieKey(o, o.kind)
<1>1. ~LacksAlgorithmOrLength(b)
  BY DEF BuildPieKey, IsErr, Err, Errors, ErrorKinds
<1>2. ~IsErr(wrap)
  BY <1>1 DEF BuildPieKey
<1>3. ~(o.kind = "SymmetricKey" /\ SymFormat # b.key_format_type)
  BY <1>1, <1>2 DEF BuildPieKey, IsErr, Err, Errors, ErrorKinds
<1>4. p = [space |-> "pie", kind |-> o.kind,
           cryptographic_algorithm |-> b.cryptographic_algorithm,
           cryptographic_length |-> b.cryptographic_length,
           value |-> b.key_material, key_format_type |-> b.key_format_type,
           key_wrapping_data |-> wrap]
  BY <1>1, <1>2, <1>3 DEF BuildPieKey
<1>5. CoreWrappingOf(p) = b.key_wrapping_data
  BY <1>2, <1>4, CoreKeyWrapRoundTrip DEF CoreKeys, KeyBlocks, KeyBlocksWith
<1>. QED BY <1>4, <1>5 DEF BuildCoreKey, CoreKeys, KeyBlocks, KeyBlocksWith

(* A Pie split key converted to core and back, when that does not raise,  *)
(* is the same split key, sharing parameters included.                     *)
LEMMA PieSplitKeyRoundTrip ==
  ASSUME NEW o \in PieSplitKeys,
         ~IsErr(BuildPieSplitKey(BuildCoreSplitKey(o)))
  PROVE  BuildPieSplitKey(BuildCoreSplitKey(o)) = o
<1>. DEFINE b == BuildCoreSplitKey(o).key_block
            wrap == BuildKeyWrappingData(b.key_wrapping_data)
<1>1. b.key_wrapping_data = CoreWrappingOf(o)
  BY DEF BuildCoreSplitKey
<1>2. ~LacksAlgorithmOrLength(b)
  BY ConstantsAssumption DEF LacksAlgorithmOrLength, BuildCoreSplitKey, PieSplitKeys
<1>3. ~IsErr(wrap)
  BY <1>2 DEF BuildPieSplitKey
<1>4. wrap = o.key_wrapping_data
  BY <1>1, <1>3, PieKeyWrapRoundTrip DEF PieSplitKeys
<1>. QED BY <1>2, <1>3, <1>4 DEF BuildPieSplitKey, BuildCoreSplitKey, PieSplitKeys

(* A core split key converted to Pie and back, when that does not raise,  *)
(* is the same split key.                                                  *)
LEMMA CoreSplitKeyRoundTrip ==
  ASSUME NEW o \in CoreSplitKeys, ~IsErr(BuildPieSplitKey(o))
  PROVE  BuildCoreSplitKey(BuildPieSplitKey(o)) = o
<1>. DEFINE b == o.key_block
            wrap == BuildKeyWrappingData(b.key_wrapping_data)
            p == BuildPieSplitKey(o)
<1>0. ~LacksAlgorithmOrLength(b)
  BY DEF BuildPieSplitKey, IsErr, Err, Errors, ErrorKinds
<1>1. ~IsErr(wrap)
  BY <1>0 DEF BuildPieSplitKey
<1>2. p.key_wrapping_data = wrap
  BY <1>0, <1>1 DEF BuildPieSplitKey
<1>3. CoreWrappingOf(p) = b.key_wrapping_data
  BY <1>1, <1>2, CoreKeyWrapRoundTrip DEF CoreSplitKeys, KeyBlocks, KeyBlocksWith
<1>. QED BY <1>0, <1>1, <1>3 DEF BuildCoreSplitKey, BuildPieSplitKey, CoreSplitKeys, KeyBlocks,
                           KeyBlocksWith

-----------------------------------------------------------------------------
(***************************************************************************)
(* Where the builders raise.                                               *)
(***************************************************************************)

(* An error record has the one field "error", so a dict or an object with  *)
(* other fields is never taken for one.                                    *)
LEMMA ErrorsDomain ==
  ASSUME NEW e \in Errors
  PROVE  DOMAIN e = {"error"}
BY DEF Errors

(* BuildKeyInformation raises only on a present block without parameters, *)
(* and then AttributeError.                                               *)
LEMMA InfoError ==
  ASSUME NEW i \in KeyInfos \cup {NONE}, IsErr(BuildKeyInformation(i))
  PROVE  /\ i # NONE
         /\ i.cryptographic_parameters = NONE
         /\ BuildKeyInformation(i) = Err("AttributeError")
<1>1. i # NONE
  <2>1. DOMAIN EmptyMap = {}
    BY DEF EmptyMap
  <2>. QED BY <2>1, ErrorsDomain DEF BuildKeyInformation, IsErr
<1>2. i.cryptographic_parameters = NONE
  <2>. SUFFICES ASSUME i.cryptographic_parameters \in Params PROVE FALSE
    BY <1>1 DEF KeyInfos
  <2>1. BuildKeyInformation(i) = [unique_identifier |-> i.unique_identifier,
                                  cryptographic_parameters |-> i.cryptographic_parameters]
    <3>1. ~IsErr(i.cryptographic_parameters)
      <4>1. DOMAIN i.cryptographic_parameters = ParamFields
        BY ConstantsAssumption
      <4>2. ParamFields # {"error"}
        BY DEF ParamFields
      <4>. QED BY <4>1, <4>2, ErrorsDomain DEF IsErr
    <3>. QED BY <1>1, <3>1, ParamsCopy DEF BuildKeyInformation
  <2>2. DOMAIN BuildKeyInformation(i) = {"unique_identifier", "cryptographic_parameters"}
    BY <2>1
  <2>. QED BY <2>2, ErrorsDomain DEF IsErr
<1>. QED BY <1>1, <1>2 DEF BuildKeyInformation, BuildCryptographicParameters, IsErr, Err,
                           Errors, ErrorKinds

(* _build_key_wrapping_data raises only when one of its key-information   *)
(* blocks is present without parameters, and then AttributeError.          *)
LEMMA WrapError ==
  ASSUME NEW w \in CoreWraps \cup {NONE}, IsErr(BuildKeyWrappingData(w))
  PROVE  /\ w # NONE
         /\ \E f \in {"encryption_key_information", "mac_signature_key_information"} :
               w[f] # NONE /\ w[f].cryptographic_parameters = NONE
         /\ BuildKeyWrappingData(w) = Err("AttributeError")
<1>. DEFINE eki == BuildKeyInformation(w.encryption_key_information)
            mki == BuildKeyInformation(w.mac_signature_key_information)
<1>1. w # NONE
  BY NoneAssumption DEF BuildKeyWrappingData, IsErr
<1>2. w \in CoreWraps
  BY <1>1
<1>3. CASE IsErr(eki)
  <2>1. w.encryption_key_information \in KeyInfos \cup {NONE}
    BY <1>2 DEF CoreWraps, WrapsWith
  <2>2. /\ w.encryption_key_information # NONE
        /\ w.encryption_key_information.cryptographic_parameters = NONE
        /\ eki = Err("AttributeError")
    BY <1>3, <2>1, InfoError
  <2>. QED BY <1>1, <1>3, <2>2 DEF BuildKeyWrappingData
<1>4. CASE ~IsErr(eki) /\ IsErr(mki)
  <2>1. w.mac_signature_key_information \in KeyInfos \cup {NONE}
    BY <1>2 DEF CoreWraps, WrapsWith
  <2>2. /\ w.mac_signature_key_information # NONE
        /\ w.mac_signature_key_information.cryptographic_parameters = NONE
        /\ mki = Err("AttributeError")
    BY <1>4, <2>1, InfoError
  <2>. QED BY <1>1, <1>4, <2>2 DEF BuildKeyWrappingData
<1>5. CASE ~IsErr(eki) /\ ~IsErr(mki)
  <2>1. DOMAIN BuildKeyWrappingData(w) =
          {"wrapping_method", "encryption_key_information", "mac_signature_key_information",
           "mac_signature", "iv_counter_nonce", "encoding_option"}
    BY <1>1, <1>5 DEF BuildKeyWrappingData
  <2>. QED BY <2>1, ErrorsDomain DEF IsErr
<1>. QED BY <1>3, <1>4, <1>5
=============================================================================
