---------------------------- MODULE ObjectFactory ----------------------------
(***************************************************************************)
(* kmip.pie.factory.ObjectFactory: convert() and the builders it calls, as *)
(* pure operators.  A builder's result is an object of KmipObjects or an   *)
(* error record; an error raised by a nested builder ends the whole        *)
(* conversion, so every caller passes it on before it builds anything.     *)
(***************************************************************************)
EXTENDS KmipObjects

(* Mutant: counter_length copied from iv_length, a copy-paste slip. *)
BuildCryptographicParametersCopyPaste(value) ==
  IF value = NONE THEN Err("AttributeError")
  ELSE [f \in ParamFields |->
          IF f = "counter_length" THEN value["iv_length"] ELSE value[f]]

(* _build_cryptographic_parameters: a field-by-field copy into a dict.     *)
(* Reading a field of None raises AttributeError.                          *)
BuildCryptographicParameters(value) ==
  IF value = NONE THEN Err("AttributeError")
  ELSE [f \in ParamFields |-> value[f]]

(* Mutant: the `if encryption_key_info:` guard dropped, so an absent     *)
(* block is read as if present.                                            *)
BuildKeyInformationUnguarded(info) ==
  IF info = NONE THEN Err("AttributeError")
  ELSE LET params == BuildCryptographicParameters(info.cryptographic_parameters)
       IN  IF IsErr(params) THEN params
           ELSE [unique_identifier |-> info.unique_identifier,
                 cryptographic_parameters |-> params]

(* One key-information block of _build_key_wrapping_data: an absent block  *)
(* becomes the empty dict, a present one is expanded.                      *)
BuildKeyInformation(info) ==
  IF info = NONE THEN EmptyMap
  ELSE LET params == BuildCryptographicParameters(info.cryptographic_parameters)
       IN  IF IsErr(params) THEN params
           ELSE [unique_identifier |-> info.unique_identifier,
                 cryptographic_parameters |-> params]

(* _build_key_wrapping_data: None stays None; otherwise the encryption     *)
(* block is built, then the MAC/signature block, then the dict.            *)
BuildKeyWrappingData(value) ==
  IF value = NONE THEN NONE
  ELSE LET eki == BuildKeyInformation(value.encryption_key_information)
           mki == BuildKeyInformation(value.mac_signature_key_information)
       IN  IF IsErr(eki) THEN eki
           ELSE IF IsErr(mki) THEN mki
           ELSE [wrapping_method |-> value.wrapping_method,
                 encryption_key_information |-> eki,
                 mac_signature_key_information |-> mki,
                 mac_signature |-> value.mac_signature,
                 iv_counter_nonce |-> value.iv_counter_nonce,
                 encoding_option |-> value.encoding_option]

(***************************************************************************)
(* core -> Pie                                                             *)
(***************************************************************************)

(* Mutant: the certificate-type check dropped. *)
BuildPieCertificateUnguarded(cert) == X509Certificate(cert.certificate_value)

(* _build_pie_certificate: only X.509 has a Pie class. *)
BuildPieCertificate(cert) ==
  IF cert.certificate_type = X509 THEN X509Certificate(cert.certificate_value)
  ELSE Err("UnsupportedCertificateType")

(* The first reads of _build_pie_key and _build_pie_split_key: `.value`  *)
(* of an absent algorithm or length raises AttributeError.                 *)
LacksAlgorithmOrLength(b) ==
  b.cryptographic_algorithm = NONE \/ b.cryptographic_length = NONE

(* _build_pie_key(key, cls): the fields are read first, then the wrapping  *)
(* data is built while the Pie key of class cls is constructed; a          *)
(* SymmetricKey is built without a format (it gets SymFormat) and is       *)
(* rejected when the core format differs.                                  *)
BuildPieKey(key, cls) ==
  LET b    == key.key_block
      wrap == BuildKeyWrappingData(b.key_wrapping_data)
      fmt  == IF cls = "SymmetricKey" THEN SymFormat ELSE b.key_format_type
  IN  IF LacksAlgorithmOrLength(b) THEN Err("AttributeError")
      ELSE IF IsErr(wrap) THEN wrap
      ELSE IF cls = "SymmetricKey" /\ fmt # b.key_format_type
           THEN Err("FormatMismatch")
      ELSE [space |-> "pie", kind |-> cls,
            cryptographic_algorithm |-> b.cryptographic_algorithm,
            cryptographic_length |-> b.cryptographic_length,
            value |-> b.key_material, key_format_type |-> fmt,
            key_wrapping_data |-> wrap]

(* _build_pie_secret_data *)
BuildPieSecretData(secret) ==
  [space |-> "pie", kind |-> "SecretData",
   value |-> secret.key_block.key_material, data_type |-> secret.secret_data_type]

(* _build_pie_opaque_object *)
BuildPieOpaqueObject(obj) ==
  [space |-> "pie", kind |-> "OpaqueObject",
   value |-> obj.opaque_data_value, opaque_type |-> obj.opaque_data_type]

(* _build_pie_split_key: the sharing parameters are passed on unchecked. *)
BuildPieSplitKey(secret) ==
  LET b    == secret.key_block
      wrap == BuildKeyWrappingData(b.key_wrapping_data)
  IN  IF LacksAlgorithmOrLength(b) THEN Err("AttributeError")
      ELSE IF IsErr(wrap) THEN wrap
      ELSE [space |-> "pie", kind |-> "SplitKey",
            cryptographic_algorithm |-> b.cryptographic_algorithm,
            cryptographic_length |-> b.cryptographic_length,
            value |-> b.key_material, key_format_type |-> b.key_format_type,
            key_wrapping_data |-> wrap,
            split_key_parts |-> secret.split_key_parts,
            key_part_identifier |-> secret.key_part_identifier,
            split_key_threshold |-> secret.split_key_threshold,
            split_key_method |-> secret.split_key_method,
            prime_field_size |-> secret.prime_field_size]

(***************************************************************************)
(* Pie -> core                                                             *)
(***************************************************************************)

(* The truthiness test `if key.key_wrapping_data:`: a Pie wrapping dict    *)
(* always has its six keys, so only None is false.                         *)
CoreWrappingOf(key) ==
  IF key.key_wrapping_data # NONE THEN KeyWrappingData(key.key_wrapping_data)
  ELSE NONE

(* _build_core_key(key, cls): material, format, algorithm, length and      *)
(* wrapping data go into one KeyBlock of a core key of class cls.          *)
BuildCoreKey(key, cls) ==
  [space |-> "core", kind |-> cls,
   key_block |-> [key_format_type |-> key.key_format_type,
                  key_material |-> key.value,
                  cryptographic_algorithm |-> key.cryptographic_algorithm,
                  cryptographic_length |-> key.cryptographic_length,
                  key_wrapping_data |-> CoreWrappingOf(key)]]

(* _build_core_certificate: type and value only. *)
BuildCoreCertificate(cert) ==
  [space |-> "core", kind |-> "Certificate",
   certificate_type |-> cert.certificate_type, certificate_value |-> cert.value]

(* Mutant: the key block built without its format type. *)
BuildCoreSecretDataNoFormat(secret) ==
  [space |-> "core", kind |-> "SecretData", secret_data_type |-> secret.data_type,
   key_block |-> [key_format_type |-> NONE, key_material |-> secret.value,
                  cryptographic_algorithm |-> NONE, cryptographic_length |-> NONE,
                  key_wrapping_data |-> NONE]]

(* _build_core_secret_data: an OPAQUE key block with no algorithm, length  *)
(* or wrapping data.                                                       *)
BuildCoreSecretData(secret) ==
  [space |-> "core", kind |-> "SecretData", secret_data_type |-> secret.data_type,
   key_block |-> [key_format_type |-> OpaqueFormat, key_material |-> secret.value,
                  cryptographic_algorithm |-> NONE, cryptographic_length |-> NONE,
                  key_wrapping_data |-> NONE]]

(* _build_core_split_key *)
BuildCoreSplitKey(secret) ==
  [space |-> "core", kind |-> "SplitKey",
   key_block |-> [key_format_type |-> secret.key_format_type,
                  key_material |-> secret.value,
                  cryptographic_algorithm |-> secret.cryptographic_algorithm,
                  cryptographic_length |-> secret.cryptographic_length,
                  key_wrapping_data |-> CoreWrappingOf(secret)],
   split_key_parts |-> secret.split_key_parts,
   key_part_identifier |-> secret.key_part_identifier,
   split_key_threshold |-> secret.split_key_threshold,
   split_key_method |-> secret.split_key_method,
   prime_field_size |-> secret.prime_field_size]

(* _build_core_opaque_object *)
BuildCoreOpaqueObject(obj) ==
  [space |-> "core", kind |-> "OpaqueObject",
   opaque_data_type |-> obj.opaque_type, opaque_data_value |-> obj.value]

(***************************************************************************)
(* convert: the isinstance chain.  The fourteen classes are pairwise       *)
(* unrelated, so the order of the tests does not matter and each arm is    *)
(* selected by the object's universe and kind.                             *)
(***************************************************************************)
ToCore(obj) ==
  CASE obj.kind = "SymmetricKey"   -> BuildCoreKey(obj, "SymmetricKey")
    [] obj.kind = "PublicKey"      -> BuildCoreKey(obj, "PublicKey")
    [] obj.kind = "PrivateKey"     -> BuildCoreKey(obj, "PrivateKey")
    [] obj.kind = "Certificate"    -> BuildCoreCertificate(obj)
    [] obj.kind = "SecretData"     -> BuildCoreSecretData(obj)
    [] obj.kind = "OpaqueObject"   -> BuildCoreOpaqueObject(obj)
    [] obj.kind = "SplitKey"       -> BuildCoreSplitKey(obj)
    [] OTHER                       -> Err("UnsupportedVariant")

(* Mutant: the secrets.PublicKey arm builds a Pie PrivateKey, a           *)
(* copy-paste slip between neighbouring arms.                              *)
ToPieSwappedArm(obj) ==
  CASE obj.kind = "SymmetricKey"   -> BuildPieKey(obj, "SymmetricKey")
    [] obj.kind = "PublicKey"      -> BuildPieKey(obj, "PrivateKey")
    [] obj.kind = "PrivateKey"     -> BuildPieKey(obj, "PrivateKey")
    [] obj.kind = "Certificate"    -> BuildPieCertificate(obj)
    [] obj.kind = "SecretData"     -> BuildPieSecretData(obj)
    [] obj.kind = "OpaqueObject"   -> BuildPieOpaqueObject(obj)
    [] obj.kind = "SplitKey"       -> BuildPieSplitKey(obj)
    [] OTHER                       -> Err("UnsupportedVariant")

ToPie(obj) ==
  CASE obj.kind = "SymmetricKey"   -> BuildPieKey(obj, "SymmetricKey")
    [] obj.kind = "PublicKey"      -> BuildPieKey(obj, "PublicKey")
    [] obj.kind = "PrivateKey"     -> BuildPieKey(obj, "PrivateKey")
    [] obj.kind = "Certificate"    -> BuildPieCertificate(obj)
    [] obj.kind = "SecretData"     -> BuildPieSecretData(obj)
    [] obj.kind = "OpaqueObject"   -> BuildPieOpaqueObject(obj)
    [] obj.kind = "SplitKey"       -> BuildPieSplitKey(obj)
    [] OTHER                       -> Err("UnsupportedVariant")

Convert(obj) == IF obj.space = "pie" THEN ToCore(obj) ELSE ToPie(obj)
=============================================================================
